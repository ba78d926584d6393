--------------------------- MODULE ThreadLibProofs ---------------------------
(***************************************************************************)
(* Theorems about the thread library, for any number of threads, mutexes   *)
(* and condition variables: its types and mutual exclusion, which rest on  *)
(* one inductive invariant, IInv; and from that, in the second half, that  *)
(* check_ownership is exact, nobody waits for what has already happened,   *)
(* stacks outlive their use, TCBs are freed, the program always runs with  *)
(* interrupts enabled, and no thread is lost or stands in two places.  At  *)
(* the end: the library implements Monitor, each of its steps is one of    *)
(* the monitors' under the mapping of ThreadLib, or leaves the mapped      *)
(* state alone.                                                            *)
(***************************************************************************)
EXTENDS ThreadLib, SequenceTheorems, FiniteSetTheorems, TLAPS

USE MainAssumption, HostAssumption, NoThreadAssumption

-----------------------------------------------------------------------------
(* Sequences as queues: their members and the absence of duplicates. *)

\* The empty queue, as the constructors leave every queue.
LEMMA EmptyQueue == Range(<<>>) = {} /\ IsInjective(<<>>)
  BY DEF Range, IsInjective

\* queue::push adds its argument and nothing else; a new member keeps the
\* queue free of duplicates.
LEMMA PushQueue ==
  ASSUME NEW S, NEW q \in Seq(S), NEW e \in S
  PROVE  /\ Append(q, e) \in Seq(S)
         /\ Append(q, e) # <<>>
         /\ Range(Append(q, e)) = Range(q) \cup {e}
         /\ IsInjective(q) /\ e \notin Range(q) => IsInjective(Append(q, e))
<1>1. /\ Append(q, e) \in Seq(S)
      /\ Append(q, e) # <<>>
      /\ DOMAIN Append(q, e) = 1..(Len(q) + 1)
      /\ DOMAIN q = 1..Len(q) /\ Len(q) \in Nat
      /\ \A i \in 1..Len(q) : Append(q, e)[i] = q[i]
      /\ Append(q, e)[Len(q) + 1] = e
  BY AppendProperties, LenProperties
<1>2. \A i \in 1..(Len(q) + 1) : i \in 1..Len(q) \/ i = Len(q) + 1
  BY <1>1
<1>3. Range(Append(q, e)) = Range(q) \cup {e}
  BY <1>1, <1>2 DEF Range
<1>4. ASSUME IsInjective(q), e \notin Range(q)
      PROVE  IsInjective(Append(q, e))
  BY <1>1, <1>2, <1>4 DEF Range, IsInjective
<1> QED BY <1>1, <1>3, <1>4

\* front and pop split a queue into its first member and the rest, which does
\* not contain that member again if the queue had no duplicates.
LEMMA PopQueue ==
  ASSUME NEW S, NEW q \in Seq(S), q # <<>>
  PROVE  /\ Head(q) \in S
         /\ Tail(q) \in Seq(S)
         /\ Range(q) = {Head(q)} \cup Range(Tail(q))
         /\ IsInjective(q) => IsInjective(Tail(q)) /\ Head(q) \notin Range(Tail(q))
<1>1. /\ Head(q) \in S
      /\ Tail(q) \in Seq(S)
      /\ Len(q) \in Nat /\ Len(q) > 0
      /\ Len(Tail(q)) = Len(q) - 1
      /\ DOMAIN q = 1..Len(q)
      /\ DOMAIN Tail(q) = 1..(Len(q) - 1)
      /\ Head(q) = q[1]
      /\ \A i \in 1..(Len(q) - 1) : Tail(q)[i] = q[i + 1]
  BY HeadTailProperties, LenProperties
<1>2. \A i \in 1..Len(q) : i = 1 \/ (i - 1 \in 1..(Len(q) - 1) /\ i = (i - 1) + 1)
  BY <1>1
<1>3. \A i \in 1..(Len(q) - 1) : i + 1 \in 1..Len(q)
  BY <1>1
<1>4. Range(q) = {Head(q)} \cup Range(Tail(q))
  <2>1. ASSUME NEW x \in Range(q) PROVE x \in {Head(q)} \cup Range(Tail(q))
    <3>1. PICK i \in 1..Len(q) : x = q[i]
      BY <2>1, <1>1 DEF Range
    <3>2. CASE i = 1
      BY <3>1, <3>2, <1>1
    <3>3. CASE i - 1 \in 1..(Len(q) - 1)
      <4>1. Tail(q)[i - 1] = x
        BY <3>1, <3>3, <1>1
      <4> QED BY <4>1, <3>3, <1>1 DEF Range
    <3> QED BY <3>2, <3>3, <1>2
  <2>2. ASSUME NEW x \in {Head(q)} \cup Range(Tail(q)) PROVE x \in Range(q)
    BY <2>2, <1>1, <1>3 DEF Range
  <2> QED BY <2>1, <2>2
<1>5. ASSUME IsInjective(q)
      PROVE  IsInjective(Tail(q)) /\ Head(q) \notin Range(Tail(q))
  BY <1>1, <1>3, <1>5 DEF Range, IsInjective
<1> QED BY <1>1, <1>4, <1>5

\* Draining one queue into another, as broadcast and starter do.
LEMMA DrainQueue ==
  ASSUME NEW S, NEW q \in Seq(S), NEW r \in Seq(S)
  PROVE  /\ q \o r \in Seq(S)
         /\ Range(q \o r) = Range(q) \cup Range(r)
         /\ IsInjective(q) /\ IsInjective(r) /\ Range(q) \cap Range(r) = {}
              => IsInjective(q \o r)
<1>1. /\ q \o r \in Seq(S)
      /\ DOMAIN (q \o r) = 1..(Len(q) + Len(r))
      /\ DOMAIN q = 1..Len(q) /\ DOMAIN r = 1..Len(r)
      /\ Len(q) \in Nat /\ Len(r) \in Nat
      /\ \A i \in 1..(Len(q) + Len(r)) :
           (q \o r)[i] = IF i <= Len(q) THEN q[i] ELSE r[i - Len(q)]
  BY ConcatProperties, LenProperties
<1>2. Range(q \o r) = Range(q) \cup Range(r)
  BY RangeConcatenation
<1>3. ASSUME IsInjective(q), IsInjective(r), Range(q) \cap Range(r) = {}
      PROVE  IsInjective(q \o r)
  <2> SUFFICES ASSUME NEW i \in 1..(Len(q) + Len(r)), NEW j \in 1..(Len(q) + Len(r)),
                      (q \o r)[i] = (q \o r)[j]
               PROVE  i = j
    BY <1>1 DEF IsInjective
  <2>1. CASE i <= Len(q) /\ j <= Len(q)
    BY <1>1, <1>3, <2>1 DEF IsInjective
  <2>2. CASE i > Len(q) /\ j > Len(q)
    <3>1. i - Len(q) \in 1..Len(r) /\ j - Len(q) \in 1..Len(r)
      BY <1>1, <2>2
    <3>2. r[i - Len(q)] = r[j - Len(q)]
      BY <1>1, <2>2
    <3>3. i - Len(q) = j - Len(q)
      BY <1>1, <1>3, <3>1, <3>2 DEF IsInjective
    <3> QED BY <1>1, <3>3
  <2>3. CASE i <= Len(q) /\ j > Len(q)
    <3>1. q[i] \in Range(q) /\ r[j - Len(q)] \in Range(r)
      BY <1>1, <2>3 DEF Range
    <3> QED BY <1>1, <1>3, <2>3, <3>1
  <2>4. CASE i > Len(q) /\ j <= Len(q)
    <3>1. q[j] \in Range(q) /\ r[i - Len(q)] \in Range(r)
      BY <1>1, <2>4 DEF Range
    <3> QED BY <1>1, <1>3, <2>4, <3>1
  <2> QED BY <1>1, <2>1, <2>2, <2>3, <2>4
<1> QED BY <1>1, <1>2, <1>3

-----------------------------------------------------------------------------
(* The inductive invariant.  Mutual exclusion alone is not inductive: that   *)
(* the thread a release chose is really the next owner depends on where      *)
(* every other thread may be waiting.                                        *)

\* running_thread names the context in use, or about to be used, whenever
\* that is a thread: the library only ever pushes the caller.
ControlInv ==
  /\ switch_to \in Thread => running_thread = switch_to
  /\ switch_to = NoThread /\ context \in Thread => running_thread = context

\* A queued thread's saved call says which queue it is in, and it is there
\* only once.
JoinWait ==
  \A u \in Thread : /\ IsInjective(join_queue[u])
                    /\ \A t \in Range(join_queue[u]) : pc[t] = "join" /\ arg[t] = u
MutexWait ==
  \A m \in Mutex : /\ IsInjective(mutex_queue[m])
                   /\ \A t \in Range(mutex_queue[m]) : pc[t] \in {"lock", "relock"} /\ arg[t] = m
CvWait ==
  \A c \in Cv : /\ IsInjective(cv_queue[c])
                /\ \A t \in Range(cv_queue[c]) : pc[t] = "wait"
CvApart ==
  \A c, d \in Cv : c # d => Range(cv_queue[c]) \cap Range(cv_queue[d]) = {}
WaitInv == JoinWait /\ MutexWait /\ CvWait /\ CvApart

\* A ready thread, or the active one, waits in no queue, and the active one
\* is not ready as well.
Unqueued(t) ==
  /\ \A u \in Thread : t \notin Range(join_queue[u])
  /\ \A m \in Mutex : t \notin Range(mutex_queue[m])
  /\ \A c \in Cv : t \notin Range(cv_queue[c])
RunInv ==
  /\ IsInjective(ready_queue)
  /\ \A t \in Range(ready_queue) : pc[t] \in Resumable /\ Unqueued(t)
  /\ Active \notin Range(ready_queue)
  /\ Active \in Thread => pc[Active] # "unborn" /\ Unqueued(Active)

\* A thread whose lock is over, but which has not run since, owns its mutex.
GrantInv ==
  /\ \A t \in Thread : pc[t] \in {"lock", "relock", "wait"} => arg[t] \in Mutex
  /\ \A t \in Thread :
       pc[t] \in {"lock", "relock"} /\ t \notin Range(mutex_queue[arg[t]])
         => status[arg[t]] /\ occupy_thread[arg[t]] = t

IInv == TypeOK /\ ControlInv /\ WaitInv /\ RunInv /\ GrantInv /\ MutualExclusion

\* The queues of different kinds have no member in common.
LEMMA WaitersApart ==
  ASSUME WaitInv
  PROVE  /\ \A m \in Mutex, u \in Thread : Range(mutex_queue[m]) \cap Range(join_queue[u]) = {}
         /\ \A m \in Mutex, c \in Cv : Range(mutex_queue[m]) \cap Range(cv_queue[c]) = {}
         /\ \A u \in Thread, c \in Cv : Range(join_queue[u]) \cap Range(cv_queue[c]) = {}
         /\ \A m, n \in Mutex : m # n => Range(mutex_queue[m]) \cap Range(mutex_queue[n]) = {}
         /\ \A u, v \in Thread : u # v => Range(join_queue[u]) \cap Range(join_queue[v]) = {}
  BY DEF WaitInv, JoinWait, MutexWait, CvWait

-----------------------------------------------------------------------------
(* Context switches *)

\* The thread that calls into the library is running_thread, has the CPU and
\* is in no queue.
LEMMA CallerFacts ==
  ASSUME IInv, NEW t \in Thread, context = t, switch_to = NoThread
  PROVE  /\ running_thread = t
         /\ Active = t
         /\ t \notin Range(ready_queue)
         /\ Unqueued(t)
  BY DEF IInv, ControlInv, RunInv, Active

\* swap_helper hands the CPU to the first thread of the ready queue it is
\* given, or to the host, and keeps the two invariants about running threads
\* if the threads of that queue can run.
LEMMA SwapHelperKeepsRunnable ==
  ASSUME TypeOK, NEW rq \in Seq(Thread), IsInjective(rq), SwapHelper(rq),
         \A x \in Range(rq) : pc'[x] \in Resumable /\ Unqueued(x)'
  PROVE  /\ running_thread' \in Thread \cup {NoThread}
         /\ ready_queue' \in Seq(Thread)
         /\ switch_to' \in Thread \cup {Host}
         /\ interrupts' = FALSE /\ context' = context /\ host' = host
         /\ ControlInv' /\ RunInv'
<1>1. interrupts' = FALSE /\ context' = context /\ host' = host
  BY DEF SwapHelper
<1>2. CASE rq # <<>>
  <2>1. /\ Head(rq) \in Thread
        /\ Tail(rq) \in Seq(Thread)
        /\ Range(rq) = {Head(rq)} \cup Range(Tail(rq))
        /\ IsInjective(Tail(rq)) /\ Head(rq) \notin Range(Tail(rq))
    BY <1>2, PopQueue
  <2>2. running_thread' = Head(rq) /\ ready_queue' = Tail(rq) /\ switch_to' = Head(rq)
    BY <1>2 DEF SwapHelper
  <2>3. Active' = Head(rq)
    BY <2>1, <2>2 DEF Active
  <2>4. ControlInv'
    BY <2>1, <2>2 DEF ControlInv
  <2>5. RunInv'
    <3>1. \A x \in Range(ready_queue') : pc'[x] \in Resumable /\ Unqueued(x)'
      BY <2>1, <2>2
    <3>2. pc'[Head(rq)] \in Resumable /\ Unqueued(Head(rq))'
      BY <2>1
    <3>3. "unborn" \notin Resumable
      BY DEF Resumable
    <3> QED BY <2>1, <2>2, <2>3, <3>1, <3>2, <3>3 DEF RunInv
  <2> QED BY <1>1, <2>1, <2>2, <2>4, <2>5
<1>3. CASE rq = <<>>
  <2>1. ready_queue' = <<>> /\ switch_to' = Host /\ running_thread' = running_thread
    BY <1>3 DEF SwapHelper
  <2>2. Active' = Host
    BY <2>1 DEF Active
  <2>3. ControlInv'
    BY <2>1 DEF ControlInv
  <2>4. RunInv'
    BY <2>1, <2>2, EmptyQueue DEF RunInv
  <2> QED BY <1>1, <2>1, <2>3, <2>4 DEF TypeOK
<1> QED BY <1>2, <1>3

-----------------------------------------------------------------------------
(* The host's steps and the switch itself *)

\* cpu::boot establishes the invariant.
LEMMA InitEstablishesIInv == Init => IInv
<1> SUFFICES ASSUME Init PROVE IInv
  OBVIOUS
<1>1. /\ \A q \in {<<Main>>} : q \in Seq(Thread) /\ Range(q) = {Main} /\ IsInjective(q)
      /\ <<>> \in Seq(Thread)
  BY DEF Range, IsInjective
<1>2. TypeOK
  BY <1>1 DEF Init, TypeOK, Phase, Resumable
<1>3. Active = Host
  BY DEF Init, Active
<1> QED BY <1>1, <1>2, <1>3, EmptyQueue
        DEF Init, IInv, ControlInv, WaitInv, JoinWait, MutexWait, CvWait, CvApart, RunInv, Unqueued, GrantInv, MutualExclusion, Resumable

\* The steps of the CPU between two threads.
LEMMA HostStepKeepsIInv == IInv /\ (HostStep \/ Switch) => IInv'
<1> SUFFICES ASSUME IInv, HostStep \/ Switch PROVE IInv'
  OBVIOUS
<1> USE DEF IInv
<1>1. CASE HostDispatch
  <2>1. /\ Head(ready_queue) \in Thread
        /\ Tail(ready_queue) \in Seq(Thread)
        /\ Range(ready_queue) = {Head(ready_queue)} \cup Range(Tail(ready_queue))
        /\ IsInjective(Tail(ready_queue)) /\ Head(ready_queue) \notin Range(Tail(ready_queue))
    BY <1>1, PopQueue DEF HostDispatch, TypeOK, RunInv
  <2>2. Active' = Head(ready_queue)
    BY <1>1, <2>1 DEF HostDispatch, Active
  <2>3. TypeOK' /\ ControlInv'
    BY <1>1, <2>1 DEF HostDispatch, TypeOK, mutexes, ControlInv
  <2>4. WaitInv' /\ GrantInv' /\ MutualExclusion'
    BY <1>1 DEF HostDispatch, mutexes, WaitInv, JoinWait, MutexWait, CvWait, CvApart, GrantInv, MutualExclusion
  <2>5. RunInv'
    BY <1>1, <2>1, <2>2 DEF HostDispatch, RunInv, Unqueued, Resumable
  <2> QED BY <2>3, <2>4, <2>5
<1>2. CASE HostResumed \/ HostSuspend
  <2>1. Active' = Active /\ Active = Host
    BY <1>2 DEF HostResumed, HostSuspend, Active
  <2>2. TypeOK' /\ ControlInv'
    BY <1>2 DEF HostResumed, HostSuspend, TypeOK, queues, mutexes, ControlInv, PreviousAfterSwitch
  <2>3. UNCHANGED <<join_queue, mutex_queue, cv_queue, status, occupy_thread, pc, arg, held>>
    BY <1>2 DEF HostResumed, HostSuspend, queues, mutexes
  <2>4. WaitInv' /\ GrantInv' /\ MutualExclusion'
    BY <2>3 DEF WaitInv, JoinWait, MutexWait, CvWait, CvApart, GrantInv, MutualExclusion
  <2>5. RunInv'
    BY <1>2, <2>1 DEF HostResumed, HostSuspend, queues, RunInv, Unqueued
  <2> QED BY <2>2, <2>4, <2>5
<1>3. CASE Switch
  <2>1. Active' = Active
    BY <1>3 DEF Switch, Active
  <2>2. TypeOK' /\ ControlInv'
    BY <1>3 DEF Switch, TypeOK, globals, queues, mutexes, ControlInv
  <2>3. WaitInv' /\ GrantInv' /\ MutualExclusion'
    BY <1>3 DEF Switch, queues, mutexes, WaitInv, JoinWait, MutexWait, CvWait, CvApart, GrantInv, MutualExclusion
  <2>4. RunInv'
    BY <1>3, <2>1 DEF Switch, queues, RunInv, Unqueued
  <2> QED BY <2>2, <2>3, <2>4
<1> QED BY <1>1, <1>2, <1>3 DEF HostStep

-----------------------------------------------------------------------------
(* The library calls *)

\* The constructor of thread.
LEMMA CreateKeepsIInv ==
  ASSUME IInv, NEW t \in Thread, NEW u \in Thread, Create(t, u)
  PROVE  IInv'
<1> USE DEF IInv
<1>1. InUser(t) /\ pc[u] = "unborn" /\ t # u
  BY DEF Create, InUser
<1>2. /\ Active = t /\ Active' = t /\ t \notin Range(ready_queue) /\ Unqueued(t)
  BY <1>1, CallerFacts DEF InUser, Create, ReturnAtOnce, Active
<1>3. u \notin Range(ready_queue) /\ Unqueued(u)
  BY <1>1 DEF RunInv, Resumable, WaitInv, JoinWait, MutexWait, CvWait, CvApart, Unqueued
<1>4. /\ ready_queue' \in Seq(Thread)
      /\ Range(ready_queue') = Range(ready_queue) \cup {u}
      /\ IsInjective(ready_queue')
  BY <1>3, PushQueue DEF Create, TypeOK, RunInv
<1>5. TypeOK' /\ ControlInv'
  BY <1>4 DEF Create, ReturnAtOnce, TypeOK, ControlInv, globals, mutexes, Phase, Resumable
<1>6. WaitInv'
  BY <1>3 DEF Create, WaitInv, JoinWait, MutexWait, CvWait, CvApart, TypeOK, Unqueued
<1>7. RunInv'
  BY <1>1, <1>2, <1>3, <1>4 DEF Create, RunInv, TypeOK, Unqueued, Resumable
<1>8. GrantInv' /\ MutualExclusion'
  BY <1>1 DEF Create, GrantInv, MutualExclusion, TypeOK, mutexes
<1> QED BY <1>5, <1>6, <1>7, <1>8

\* thread::yield.
LEMMA YieldKeepsIInv ==
  ASSUME IInv, NEW t \in Thread, Yield(t)
  PROVE  IInv'
<1> USE DEF IInv
<1>1. InUser(t) /\ running_thread = t /\ t \notin Range(ready_queue) /\ Unqueued(t)
  BY CallerFacts DEF Yield, InUser
<1>2. /\ ReadyAfterYield \in Seq(Thread)
      /\ Range(ReadyAfterYield) = Range(ready_queue) \cup {t}
      /\ IsInjective(ReadyAfterYield)
  BY <1>1, PushQueue DEF ReadyAfterYield, TypeOK, RunInv
<1>3. \A x \in Range(ReadyAfterYield) : pc'[x] \in Resumable /\ Unqueued(x)'
  BY <1>1, <1>2 DEF Yield, RunInv, Unqueued, Resumable, TypeOK
<1>4. SwapHelper(ReadyAfterYield)
  BY DEF Yield
<1>5. /\ running_thread' \in Thread \cup {NoThread}
      /\ ready_queue' \in Seq(Thread)
      /\ switch_to' \in Thread \cup {Host}
      /\ interrupts' = FALSE /\ context' = context /\ host' = host
      /\ ControlInv' /\ RunInv'
  BY <1>2, <1>3, <1>4, SwapHelperKeepsRunnable
<1>6. TypeOK'
  BY <1>5 DEF Yield, TypeOK, mutexes, Phase, Resumable
<1>7. WaitInv' /\ GrantInv' /\ MutualExclusion'
  BY <1>1 DEF Yield, InUser, WaitInv, JoinWait, MutexWait, CvWait, CvApart, GrantInv, MutualExclusion, Unqueued, TypeOK, mutexes
<1> QED BY <1>5, <1>6, <1>7

\* thread::join of a thread that has not finished.
LEMMA JoinKeepsIInv ==
  ASSUME IInv, NEW t \in Thread, NEW u \in Thread, Join(t, u)
  PROVE  IInv'
<1> USE DEF IInv
<1>1. /\ InUser(t) /\ running_thread = t /\ t \notin Range(ready_queue) /\ Unqueued(t)
      /\ pc[t] = "user"
  BY CallerFacts DEF Join, InUser
<1>2. /\ join_queue'[u] \in Seq(Thread)
      /\ Range(join_queue'[u]) = Range(join_queue[u]) \cup {t}
      /\ IsInjective(join_queue'[u])
  BY <1>1, PushQueue DEF Join, TypeOK, WaitInv, JoinWait, MutexWait, CvWait, CvApart, Unqueued
<1>3. /\ \A x \in Thread \ {u} : join_queue'[x] = join_queue[x]
      /\ join_queue' \in [Thread -> Seq(Thread)]
  BY <1>2 DEF Join, TypeOK
<1>4. \A x \in Range(ready_queue) : pc'[x] \in Resumable /\ Unqueued(x)'
  BY <1>1, <1>2, <1>3 DEF Join, RunInv, Unqueued, TypeOK
<1>5. /\ running_thread' \in Thread \cup {NoThread}
      /\ ready_queue' \in Seq(Thread)
      /\ switch_to' \in Thread \cup {Host}
      /\ interrupts' = FALSE /\ context' = context /\ host' = host
      /\ ControlInv' /\ RunInv'
  BY <1>4, SwapHelperKeepsRunnable DEF Join, TypeOK, RunInv
<1>6. TypeOK'
  BY <1>3, <1>5 DEF Join, TypeOK, mutexes, Phase, Resumable
<1>7. WaitInv'
  BY <1>1, <1>2, <1>3 DEF Join, WaitInv, JoinWait, MutexWait, CvWait, CvApart, Unqueued, TypeOK
<1>8. GrantInv' /\ MutualExclusion'
  BY <1>1 DEF Join, GrantInv, MutualExclusion, TypeOK, mutexes
<1> QED BY <1>5, <1>6, <1>7, <1>8

\* lock on a free mutex, and wait that wakes to a free mutex.
LEMMA TakeKeepsIInv ==
  ASSUME IInv, NEW t \in Thread, NEW m \in Mutex,
         context = t, switch_to = NoThread, pc[t] \in {"user", "wait"},
         Take(t, m), previous_thread' \in Thread \cup {NoThread},
         UNCHANGED <<running_thread, queues, context, switch_to, host>>
  PROVE  IInv'
<1> USE DEF IInv
<1>1. running_thread = t /\ Unqueued(t) /\ t \notin Range(ready_queue) /\ Active = t
  BY CallerFacts
<1>2. Active' = t
  BY DEF Active
<1>3. UNCHANGED <<ready_queue, join_queue, mutex_queue, cv_queue>>
  BY DEF queues
<1>4. /\ status' = [status EXCEPT ![m] = TRUE]
      /\ occupy_thread' = [occupy_thread EXCEPT ![m] = t]
      /\ held' = [held EXCEPT ![t] = @ \cup {m}]
      /\ pc' = [pc EXCEPT ![t] = "user"]
      /\ arg' = [arg EXCEPT ![t] = NoThread]
      /\ interrupts' = TRUE
      /\ ~status[m]
  BY <1>1 DEF Take, ReturnToUser
<1>5. TypeOK' /\ ControlInv'
  BY <1>3, <1>4 DEF TypeOK, ControlInv, Phase
<1>6. WaitInv'
  BY <1>1, <1>3, <1>4 DEF WaitInv, JoinWait, MutexWait, CvWait, CvApart, Unqueued, TypeOK
<1>7. RunInv'
  BY <1>1, <1>2, <1>3, <1>4 DEF RunInv, Unqueued, TypeOK
<1>8. GrantInv' /\ MutualExclusion'
  BY <1>3, <1>4 DEF GrantInv, MutualExclusion, TypeOK
<1> QED BY <1>5, <1>6, <1>7, <1>8

\* lock on a busy mutex, and wait that wakes to a busy mutex.
LEMMA QueueKeepsIInv ==
  ASSUME IInv, NEW t \in Thread, NEW m \in Mutex, NEW at \in {"lock", "relock"},
         context = t, switch_to = NoThread, pc[t] \in {"user", "wait"},
         Queue(t, m, at), previous_thread' \in Thread \cup {NoThread}
  PROVE  IInv'
<1> USE DEF IInv
<1>1. running_thread = t /\ Unqueued(t) /\ t \notin Range(ready_queue)
  BY CallerFacts
<1>2. /\ mutex_queue'[m] \in Seq(Thread)
      /\ Range(mutex_queue'[m]) = Range(mutex_queue[m]) \cup {t}
      /\ IsInjective(mutex_queue'[m])
  BY <1>1, PushQueue DEF Queue, TypeOK, WaitInv, JoinWait, MutexWait, CvWait, CvApart, Unqueued
<1>3. /\ \A x \in Mutex \ {m} : mutex_queue'[x] = mutex_queue[x]
      /\ mutex_queue' \in [Mutex -> Seq(Thread)]
  BY <1>2 DEF Queue, TypeOK
<1>4. \A x \in Range(ready_queue) : pc'[x] \in Resumable /\ Unqueued(x)'
  BY <1>1, <1>2, <1>3 DEF Queue, RunInv, Unqueued, TypeOK
<1>5. /\ running_thread' \in Thread \cup {NoThread}
      /\ ready_queue' \in Seq(Thread)
      /\ switch_to' \in Thread \cup {Host}
      /\ interrupts' = FALSE /\ context' = context /\ host' = host
      /\ ControlInv' /\ RunInv'
  BY <1>4, SwapHelperKeepsRunnable DEF Queue, TypeOK, RunInv
<1>6. TypeOK'
  BY <1>3, <1>5 DEF Queue, TypeOK, mutexes, Phase, Resumable
<1>7. WaitInv'
  BY <1>1, <1>2, <1>3 DEF Queue, WaitInv, JoinWait, MutexWait, CvWait, CvApart, Unqueued, TypeOK
<1>8. GrantInv' /\ MutualExclusion'
  <2>1. t \in Range(mutex_queue'[m])
    BY <1>2
  <2>2. /\ pc' = [pc EXCEPT ![t] = at] /\ arg' = [arg EXCEPT ![t] = m]
        /\ UNCHANGED <<status, occupy_thread, held>>
    BY DEF Queue, mutexes
  <2>3. \A x \in Mutex : Range(mutex_queue[x]) \subseteq Range(mutex_queue'[x])
    BY <1>2, <1>3
  <2> QED BY <2>1, <2>2, <2>3 DEF GrantInv, MutualExclusion, TypeOK
<1> QED BY <1>5, <1>6, <1>7, <1>8

\* What unlock and wait do to the mutex: its queue loses at most its first
\* member, that member becomes ready and is the owner, and nobody else was.
LEMMA ReleaseFacts ==
  ASSUME IInv, NEW t \in Thread, NEW m \in Mutex,
         InUser(t), CheckOwnership(m), Release(m)
  PROVE  /\ status' \in [Mutex -> BOOLEAN]
         /\ occupy_thread' \in [Mutex -> Thread \cup {NoThread}]
         /\ mutex_queue' \in [Mutex -> Seq(Thread)]
         /\ ReadyAfterRelease(m) \in Seq(Thread)
         /\ IsInjective(ReadyAfterRelease(m))
         /\ Range(ReadyAfterRelease(m)) \subseteq Range(ready_queue) \cup Range(mutex_queue[m])
         /\ \A x \in Mutex : /\ IsInjective(mutex_queue'[x])
                             /\ Range(mutex_queue'[x]) \subseteq Range(mutex_queue[x])
         /\ \A x \in Range(ReadyAfterRelease(m)), y \in Mutex : x \notin Range(mutex_queue'[y])
         /\ \A x \in Mutex \ {m} : /\ status'[x] = status[x]
                                   /\ occupy_thread'[x] = occupy_thread[x]
                                   /\ mutex_queue'[x] = mutex_queue[x]
         /\ \A x \in Range(mutex_queue[m]) \ Range(mutex_queue'[m]) :
               status'[m] /\ occupy_thread'[m] = x
         /\ \A x \in Thread \ {t} : m \notin held[x]
         /\ \A x \in Thread : pc[x] \in {"lock", "relock"} /\ arg[x] = m
                                 => x \in Range(mutex_queue[m])
<1> USE DEF IInv
<1>1. running_thread = t /\ Unqueued(t) /\ pc[t] = "user"
  BY CallerFacts DEF InUser
<1>2. status[m] /\ occupy_thread[m] = t
  BY <1>1 DEF CheckOwnership
<1>3. \A x \in Thread \ {t} : m \notin held[x]
  BY <1>2 DEF MutualExclusion
<1>4. \A x \in Thread : pc[x] \in {"lock", "relock"} /\ arg[x] = m => x \in Range(mutex_queue[m])
  BY <1>1, <1>2 DEF GrantInv
<1>5. \A x \in Mutex \ {m} : /\ status'[x] = status[x]
                             /\ occupy_thread'[x] = occupy_thread[x]
                             /\ mutex_queue'[x] = mutex_queue[x]
  BY DEF Release, TypeOK
<1>6. CASE mutex_queue[m] = <<>>
  <2>1. /\ mutex_queue'[m] = <<>>
        /\ ReadyAfterRelease(m) = ready_queue
        /\ mutex_queue' \in [Mutex -> Seq(Thread)]
        /\ status' \in [Mutex -> BOOLEAN]
        /\ occupy_thread' \in [Mutex -> Thread \cup {NoThread}]
    BY <1>6, EmptySeq DEF Release, TypeOK, QueueAfterRelease, ReadyAfterRelease,
                          StatusAfterRelease, OwnerAfterRelease
  <2> QED BY <1>3, <1>4, <1>5, <1>6, <2>1, EmptyQueue DEF TypeOK, WaitInv, JoinWait, MutexWait, CvWait, CvApart, RunInv, Unqueued
<1>7. CASE mutex_queue[m] # <<>>
  <2> DEFINE w == Head(mutex_queue[m])
  <2>1. /\ w \in Thread
        /\ Tail(mutex_queue[m]) \in Seq(Thread)
        /\ Range(mutex_queue[m]) = {w} \cup Range(Tail(mutex_queue[m]))
        /\ IsInjective(Tail(mutex_queue[m])) /\ w \notin Range(Tail(mutex_queue[m]))
    BY <1>7, PopQueue DEF TypeOK, WaitInv, JoinWait, MutexWait, CvWait, CvApart
  <2>2. /\ mutex_queue'[m] = Tail(mutex_queue[m])
        /\ status'[m] /\ occupy_thread'[m] = w
        /\ ReadyAfterRelease(m) = Append(ready_queue, w)
        /\ mutex_queue' \in [Mutex -> Seq(Thread)]
        /\ status' \in [Mutex -> BOOLEAN]
        /\ occupy_thread' \in [Mutex -> Thread \cup {NoThread}]
    BY <1>7, <2>1 DEF Release, TypeOK, QueueAfterRelease, ReadyAfterRelease,
                      StatusAfterRelease, OwnerAfterRelease
  <2>3. w \notin Range(ready_queue)
    BY <2>1 DEF RunInv, Unqueued
  <2>4. /\ ReadyAfterRelease(m) \in Seq(Thread)
        /\ IsInjective(ReadyAfterRelease(m))
        /\ Range(ReadyAfterRelease(m)) = Range(ready_queue) \cup {w}
    BY <2>1, <2>2, <2>3, PushQueue DEF TypeOK, RunInv
  <2>5. ASSUME NEW y \in Mutex PROVE w \notin Range(mutex_queue'[y])
    <3>1. CASE y = m
      BY <2>1, <2>2, <3>1
    <3>2. CASE y # m
      <4>1. w \in Range(mutex_queue[m]) /\ mutex_queue'[y] = mutex_queue[y]
        BY <1>5, <2>1, <3>2
      <4>2. arg[w] = m
        BY <4>1 DEF WaitInv, JoinWait, MutexWait, CvWait, CvApart
      <4>3. \A x \in Range(mutex_queue[y]) : arg[x] = y
        BY DEF WaitInv, JoinWait, MutexWait, CvWait, CvApart
      <4> QED BY <3>2, <4>1, <4>2, <4>3
    <3> QED BY <3>1, <3>2
  <2>6. ASSUME NEW x \in Mutex
        PROVE  /\ IsInjective(mutex_queue'[x])
               /\ Range(mutex_queue'[x]) \subseteq Range(mutex_queue[x])
    <3>1. CASE x = m
      BY <2>1, <2>2, <3>1
    <3>2. CASE x # m
      BY <1>5, <3>2 DEF WaitInv, JoinWait, MutexWait, CvWait, CvApart
    <3> QED BY <3>1, <3>2
  <2>7. \A x \in Range(ReadyAfterRelease(m)), y \in Mutex : x \notin Range(mutex_queue'[y])
    BY <2>4, <2>5, <2>6 DEF RunInv, Unqueued
  <2> HIDE DEF w
  <2> QED BY <1>3, <1>4, <1>5, <2>1, <2>2, <2>4, <2>6, <2>7
<1> QED BY <1>6, <1>7

\* mutex::unlock.
LEMMA UnlockKeepsIInv ==
  ASSUME IInv, NEW t \in Thread, NEW m \in Mutex, Unlock(t, m)
  PROVE  IInv'
<1> USE DEF IInv
<1> DEFINE rq == ReadyAfterRelease(m)
<1>1. /\ InUser(t) /\ Release(m) /\ CheckOwnership(m)
      /\ context = t /\ switch_to = NoThread /\ pc[t] = "user"
      /\ Active = t /\ Active' = t /\ t \notin Range(ready_queue) /\ Unqueued(t)
  BY CallerFacts DEF Unlock, ReturnAtOnce, InUser, Active
<1>2. /\ status' \in [Mutex -> BOOLEAN]
      /\ occupy_thread' \in [Mutex -> Thread \cup {NoThread}]
      /\ mutex_queue' \in [Mutex -> Seq(Thread)]
      /\ rq \in Seq(Thread) /\ IsInjective(rq)
      /\ Range(rq) \subseteq Range(ready_queue) \cup Range(mutex_queue[m])
      /\ \A x \in Mutex : /\ IsInjective(mutex_queue'[x])
                          /\ Range(mutex_queue'[x]) \subseteq Range(mutex_queue[x])
      /\ \A x \in Range(rq), y \in Mutex : x \notin Range(mutex_queue'[y])
      /\ \A x \in Mutex \ {m} : /\ status'[x] = status[x]
                                /\ occupy_thread'[x] = occupy_thread[x]
                                /\ mutex_queue'[x] = mutex_queue[x]
      /\ \A x \in Range(mutex_queue[m]) \ Range(mutex_queue'[m]) :
            status'[m] /\ occupy_thread'[m] = x
      /\ \A x \in Thread \ {t} : m \notin held[x]
      /\ \A x \in Thread : pc[x] \in {"lock", "relock"} /\ arg[x] = m => x \in Range(mutex_queue[m])
  BY <1>1, ReleaseFacts
<1>3. /\ ready_queue' = rq
      /\ held' = [held EXCEPT ![t] = @ \ {m}]
      /\ interrupts' = TRUE
      /\ UNCHANGED <<join_queue, cv_queue, running_thread, previous_thread, context, switch_to,
                     host, pc, arg>>
  BY DEF Unlock, ReturnAtOnce, globals
<1> HIDE DEF rq
<1>4. TypeOK' /\ ControlInv'
  BY <1>2, <1>3 DEF TypeOK, ControlInv
<1>5. WaitInv'
  <2>1. JoinWait' /\ CvWait' /\ CvApart'
    BY <1>3 DEF WaitInv, JoinWait, CvWait, CvApart
  <2>2. MutexWait'
    BY <1>2, <1>3 DEF WaitInv, MutexWait
  <2> QED BY <2>1, <2>2 DEF WaitInv
<1>6. RunInv'
  <2>1. \A x \in Range(rq) : pc[x] \in Resumable
    BY <1>2 DEF RunInv, WaitInv, JoinWait, MutexWait, CvWait, CvApart, Resumable
  <2>2. \A x \in Range(rq) : Unqueued(x)'
    <3>1. \A x \in Range(rq), y \in Cv : x \notin Range(cv_queue[y])
      BY <1>2, WaitersApart DEF RunInv, Unqueued
    <3>2. \A x \in Range(rq), y \in Thread : x \notin Range(join_queue[y])
      BY <1>2, WaitersApart DEF RunInv, Unqueued
    <3>3. \A x \in Range(rq), y \in Mutex : x \notin Range(mutex_queue'[y])
      BY <1>2
    <3>4. cv_queue' = cv_queue /\ join_queue' = join_queue
      BY <1>3
    <3> QED BY <3>1, <3>2, <3>3, <3>4 DEF Unqueued
  <2>3. t \notin Range(rq) /\ Unqueued(t)'
    BY <1>1, <1>2, <1>3 DEF Unqueued
  <2> QED BY <1>1, <1>2, <1>3, <2>1, <2>2, <2>3 DEF RunInv
<1>7. GrantInv'
  BY <1>2, <1>3 DEF GrantInv
<1>8. MutualExclusion'
  BY <1>2, <1>3 DEF MutualExclusion, TypeOK
<1> QED BY <1>4, <1>5, <1>6, <1>7, <1>8

\* cv::wait, up to the switch to another thread.
LEMMA WaitKeepsIInv ==
  ASSUME IInv, NEW t \in Thread, NEW c \in Cv, NEW m \in Mutex, Wait(t, c, m)
  PROVE  IInv'
<1> USE DEF IInv
<1> DEFINE rq == ReadyAfterRelease(m)
<1>1. /\ InUser(t) /\ Release(m) /\ CheckOwnership(m)
      /\ running_thread = t /\ pc[t] = "user"
      /\ t \notin Range(ready_queue) /\ Unqueued(t)
  BY CallerFacts DEF Wait, InUser
<1>2. /\ status' \in [Mutex -> BOOLEAN]
      /\ occupy_thread' \in [Mutex -> Thread \cup {NoThread}]
      /\ mutex_queue' \in [Mutex -> Seq(Thread)]
      /\ rq \in Seq(Thread) /\ IsInjective(rq)
      /\ Range(rq) \subseteq Range(ready_queue) \cup Range(mutex_queue[m])
      /\ \A x \in Mutex : /\ IsInjective(mutex_queue'[x])
                          /\ Range(mutex_queue'[x]) \subseteq Range(mutex_queue[x])
      /\ \A x \in Range(rq), y \in Mutex : x \notin Range(mutex_queue'[y])
      /\ \A x \in Mutex \ {m} : /\ status'[x] = status[x]
                                /\ occupy_thread'[x] = occupy_thread[x]
                                /\ mutex_queue'[x] = mutex_queue[x]
      /\ \A x \in Range(mutex_queue[m]) \ Range(mutex_queue'[m]) :
            status'[m] /\ occupy_thread'[m] = x
      /\ \A x \in Thread \ {t} : m \notin held[x]
      /\ \A x \in Thread : pc[x] \in {"lock", "relock"} /\ arg[x] = m => x \in Range(mutex_queue[m])
  BY <1>1, ReleaseFacts
<1>3. /\ SwapHelper(rq)
      /\ pc' = [pc EXCEPT ![t] = "wait"]
      /\ arg' = [arg EXCEPT ![t] = m]
      /\ held' = [held EXCEPT ![t] = @ \ {m}]
      /\ UNCHANGED <<join_queue, previous_thread>>
  BY DEF Wait
<1> HIDE DEF rq
<1>4. /\ cv_queue'[c] \in Seq(Thread)
      /\ Range(cv_queue'[c]) = Range(cv_queue[c]) \cup {t}
      /\ IsInjective(cv_queue'[c])
      /\ \A x \in Cv \ {c} : cv_queue'[x] = cv_queue[x]
      /\ cv_queue' \in [Cv -> Seq(Thread)]
  <2>1. cv_queue' = [cv_queue EXCEPT ![c] = Append(cv_queue[c], t)]
    BY <1>1 DEF Wait
  <2>2. /\ Append(cv_queue[c], t) \in Seq(Thread)
        /\ Range(Append(cv_queue[c], t)) = Range(cv_queue[c]) \cup {t}
        /\ IsInjective(Append(cv_queue[c], t))
    BY <1>1, PushQueue DEF TypeOK, WaitInv, JoinWait, MutexWait, CvWait, CvApart, Unqueued
  <2> QED BY <2>1, <2>2 DEF TypeOK
<1>5. \A x \in Range(rq) : pc'[x] \in Resumable /\ Unqueued(x)'
  <2>1. \A x \in Range(rq) : x # t
    BY <1>1, <1>2 DEF Unqueued
  <2>2. \A x \in Range(rq) : pc[x] \in Resumable
    BY <1>2 DEF RunInv, WaitInv, JoinWait, MutexWait, CvWait, CvApart, Resumable
  <2>3. \A x \in Range(rq), y \in Cv : x \notin Range(cv_queue[y])
    BY <1>2, WaitersApart DEF RunInv, Unqueued
  <2>4. \A x \in Range(rq), y \in Thread : x \notin Range(join_queue[y])
    BY <1>2, WaitersApart DEF RunInv, Unqueued
  <2>5. \A x \in Range(rq), y \in Cv : x \notin Range(cv_queue'[y])
    BY <1>4, <2>1, <2>3
  <2> QED BY <1>2, <1>3, <2>1, <2>2, <2>4, <2>5 DEF Unqueued, TypeOK
<1>6. /\ running_thread' \in Thread \cup {NoThread}
      /\ ready_queue' \in Seq(Thread)
      /\ switch_to' \in Thread \cup {Host}
      /\ interrupts' = FALSE /\ context' = context /\ host' = host
      /\ ControlInv' /\ RunInv'
  BY <1>2, <1>3, <1>5, SwapHelperKeepsRunnable
<1>7. TypeOK'
  BY <1>2, <1>3, <1>4, <1>6 DEF TypeOK, Phase, Resumable
<1>8. WaitInv'
  <2>1. \A x \in Mutex : t \notin Range(mutex_queue'[x])
    BY <1>1, <1>2 DEF Unqueued
  <2>2. MutexWait'
    BY <1>2, <1>3, <2>1 DEF WaitInv, MutexWait, TypeOK
  <2>3. JoinWait'
    BY <1>1, <1>3 DEF WaitInv, JoinWait, TypeOK, Unqueued
  <2>4. CvWait'
    <3> SUFFICES ASSUME NEW x \in Cv
                 PROVE  /\ IsInjective(cv_queue'[x])
                        /\ \A y \in Range(cv_queue'[x]) : pc'[y] = "wait"
      BY DEF CvWait
    <3>1. IsInjective(cv_queue'[x])
      BY <1>4 DEF WaitInv, CvWait
    <3>2. \A y \in Range(cv_queue'[x]) : y = t \/ y \in Range(cv_queue[x])
      BY <1>4
    <3>3. \A y \in Range(cv_queue[x]) : y # t /\ pc[y] = "wait"
      BY <1>1 DEF WaitInv, CvWait, Unqueued
    <3> QED BY <1>3, <3>1, <3>2, <3>3 DEF TypeOK
  <2>5. CvApart'
    <3> SUFFICES ASSUME NEW x \in Cv, NEW y \in Cv, x # y
                 PROVE  Range(cv_queue'[x]) \cap Range(cv_queue'[y]) = {}
      BY DEF CvApart
    <3>1. Range(cv_queue[x]) \cap Range(cv_queue[y]) = {}
      BY DEF WaitInv, CvApart
    <3>2. t \notin Range(cv_queue[x]) /\ t \notin Range(cv_queue[y])
      BY <1>1 DEF Unqueued
    <3>3. \A z \in {x, y} : Range(cv_queue'[z]) = IF z = c THEN Range(cv_queue[z]) \cup {t}
                                                          ELSE Range(cv_queue[z])
      BY <1>4
    <3> HIDE DEF IInv
    <3> QED BY <3>1, <3>2, <3>3
  <2> QED BY <2>2, <2>3, <2>4, <2>5 DEF WaitInv
<1>9. GrantInv'
  <2>1. /\ \A x \in Thread : pc'[x] = IF x = t THEN "wait" ELSE pc[x]
        /\ \A x \in Thread : arg'[x] = IF x = t THEN m ELSE arg[x]
    BY <1>3 DEF TypeOK
  <2>2. \A x \in Thread : pc'[x] \in {"lock", "relock", "wait"} => arg'[x] \in Mutex
    BY <2>1 DEF GrantInv
  <2>3. ASSUME NEW x \in Thread, pc'[x] \in {"lock", "relock"}, x \notin Range(mutex_queue'[arg'[x]])
        PROVE  status'[arg'[x]] /\ occupy_thread'[arg'[x]] = x
    <3>1. x # t /\ pc[x] \in {"lock", "relock"} /\ arg'[x] = arg[x] /\ arg[x] \in Mutex
      BY <2>1, <2>3 DEF GrantInv
    <3>2. CASE arg[x] = m
      <4>1. x \in Range(mutex_queue[m]) \ Range(mutex_queue'[m])
        BY <1>2, <2>3, <3>1, <3>2
      <4> HIDE DEF IInv
      <4> QED BY <1>2, <3>1, <3>2, <4>1
    <3>3. CASE arg[x] # m
      <4>1. /\ status'[arg[x]] = status[arg[x]]
            /\ occupy_thread'[arg[x]] = occupy_thread[arg[x]]
            /\ mutex_queue'[arg[x]] = mutex_queue[arg[x]]
        BY <1>2, <3>1, <3>3
      <4> QED BY <2>3, <3>1, <4>1 DEF GrantInv
    <3> QED BY <3>2, <3>3
  <2> QED BY <2>2, <2>3 DEF GrantInv
<1>10. MutualExclusion'
  BY <1>2, <1>3 DEF MutualExclusion, TypeOK
<1> QED BY <1>6, <1>7, <1>8, <1>9, <1>10

\* signal moves the first waiter, broadcast all of them, to the ready queue.
LEMMA WakeKeepsIInv ==
  ASSUME IInv, NEW t \in Thread, NEW c \in Cv, Signal(t, c) \/ Broadcast(t, c)
  PROVE  IInv'
<1> USE DEF IInv
<1>1. /\ InUser(t) /\ Active = t /\ Active' = t
      /\ t \notin Range(ready_queue) /\ Unqueued(t)
      /\ cv_queue[c] \in Seq(Thread) /\ cv_queue[c] # <<>>
      /\ interrupts' = TRUE
      /\ UNCHANGED <<running_thread, previous_thread, join_queue, mutex_queue, status,
                     occupy_thread, context, switch_to, host, pc, arg, held>>
  BY CallerFacts DEF Signal, Broadcast, ReturnAtOnce, InUser, Active, TypeOK, globals, mutexes
<1>2. /\ Head(cv_queue[c]) \in Thread
      /\ Tail(cv_queue[c]) \in Seq(Thread)
      /\ Range(cv_queue[c]) = {Head(cv_queue[c])} \cup Range(Tail(cv_queue[c]))
      /\ IsInjective(Tail(cv_queue[c]))
      /\ Head(cv_queue[c]) \notin Range(Tail(cv_queue[c]))
  BY <1>1, PopQueue DEF WaitInv, JoinWait, MutexWait, CvWait, CvApart
<1>3. Range(cv_queue[c]) \cap Range(ready_queue) = {}
  BY DEF RunInv, Unqueued
<1>4. /\ ready_queue' \in Seq(Thread) /\ IsInjective(ready_queue')
      /\ Range(ready_queue') \subseteq Range(ready_queue) \cup Range(cv_queue[c])
      /\ cv_queue' \in [Cv -> Seq(Thread)]
      /\ IsInjective(cv_queue'[c])
      /\ Range(cv_queue'[c]) \subseteq Range(cv_queue[c])
      /\ Range(cv_queue'[c]) \cap Range(ready_queue') = {}
      /\ \A x \in Cv \ {c} : cv_queue'[x] = cv_queue[x]
  <2>1. CASE Signal(t, c)
    <3>1. /\ Append(ready_queue, Head(cv_queue[c])) \in Seq(Thread)
          /\ Range(Append(ready_queue, Head(cv_queue[c]))) = Range(ready_queue) \cup {Head(cv_queue[c])}
          /\ IsInjective(Append(ready_queue, Head(cv_queue[c])))
      BY <1>2, <1>3, PushQueue DEF TypeOK, RunInv
    <3>2. /\ ready_queue' = Append(ready_queue, Head(cv_queue[c]))
          /\ cv_queue' = [cv_queue EXCEPT ![c] = Tail(cv_queue[c])]
      BY <2>1 DEF Signal
    <3>3. cv_queue'[c] = Tail(cv_queue[c]) /\ \A x \in Cv \ {c} : cv_queue'[x] = cv_queue[x]
      BY <3>2 DEF TypeOK
    <3>4. cv_queue' \in [Cv -> Seq(Thread)]
      BY <1>2, <3>2 DEF TypeOK
    <3> QED BY <1>2, <1>3, <3>1, <3>2, <3>3, <3>4
  <2>2. CASE Broadcast(t, c)
    <3>1. /\ ready_queue \o cv_queue[c] \in Seq(Thread)
          /\ Range(ready_queue \o cv_queue[c]) = Range(ready_queue) \cup Range(cv_queue[c])
          /\ IsInjective(ready_queue \o cv_queue[c])
      BY <1>1, <1>3, DrainQueue DEF TypeOK, RunInv, WaitInv, JoinWait, MutexWait, CvWait, CvApart
    <3>2. /\ ready_queue' = ready_queue \o cv_queue[c]
          /\ cv_queue' = [cv_queue EXCEPT ![c] = <<>>]
      BY <2>2 DEF Broadcast
    <3>3. cv_queue'[c] = <<>> /\ \A x \in Cv \ {c} : cv_queue'[x] = cv_queue[x]
      BY <3>2 DEF TypeOK
    <3>4. cv_queue' \in [Cv -> Seq(Thread)]
      BY <3>2, EmptySeq DEF TypeOK
    <3> QED BY <3>1, <3>2, <3>3, <3>4, EmptyQueue
  <2> QED BY <2>1, <2>2
<1>5. \A x \in Cv : /\ IsInjective(cv_queue'[x])
                    /\ Range(cv_queue'[x]) \subseteq Range(cv_queue[x])
  BY <1>4 DEF WaitInv, JoinWait, MutexWait, CvWait, CvApart
<1>6. TypeOK' /\ ControlInv'
  BY <1>1, <1>4 DEF TypeOK, ControlInv
<1>7. WaitInv'
  <2>1. JoinWait' /\ MutexWait'
    BY <1>1 DEF WaitInv, JoinWait, MutexWait
  <2>2. CvWait'
    BY <1>1, <1>5 DEF WaitInv, CvWait
  <2>3. CvApart'
    <3> SUFFICES ASSUME NEW x \in Cv, NEW y \in Cv, x # y
                 PROVE  Range(cv_queue'[x]) \cap Range(cv_queue'[y]) = {}
      BY DEF CvApart
    <3>1. Range(cv_queue[x]) \cap Range(cv_queue[y]) = {}
      BY DEF WaitInv, CvApart
    <3> QED BY <1>5, <3>1
  <2> QED BY <2>1, <2>2, <2>3 DEF WaitInv
<1>8. RunInv'
  <2>1. \A x \in Range(ready_queue') : pc[x] \in Resumable
    BY <1>4 DEF RunInv, WaitInv, JoinWait, MutexWait, CvWait, CvApart, Resumable
  <2>2. \A x \in Range(ready_queue'), y \in Cv : x \notin Range(cv_queue'[y])
    <3> SUFFICES ASSUME NEW x \in Range(ready_queue'), NEW y \in Cv, y # c
                 PROVE  x \notin Range(cv_queue'[y])
      BY <1>4
    <3>1. x \in Range(ready_queue) \/ x \in Range(cv_queue[c])
      BY <1>4
    <3>2. Range(cv_queue[c]) \cap Range(cv_queue[y]) = {}
      BY DEF WaitInv, JoinWait, MutexWait, CvWait, CvApart
    <3> QED BY <1>5, <3>1, <3>2 DEF RunInv, Unqueued
  <2>3. \A x \in Range(ready_queue') : Unqueued(x)'
    BY <1>1, <1>4, <2>2, WaitersApart DEF RunInv, Unqueued
  <2>4. t \notin Range(ready_queue') /\ Unqueued(t)' /\ pc[t] # "unborn"
    BY <1>1, <1>4, <1>5 DEF Unqueued, InUser
  <2> QED BY <1>1, <1>4, <2>1, <2>3, <2>4 DEF RunInv
<1>9. GrantInv' /\ MutualExclusion'
  BY <1>1 DEF GrantInv, MutualExclusion
<1> QED BY <1>6, <1>7, <1>8, <1>9

\* The end of a thread.
LEMMA FinishKeepsIInv ==
  ASSUME IInv, NEW t \in Thread, Finish(t)
  PROVE  IInv'
<1> USE DEF IInv
<1> DEFINE rq == ReadyAfterExit(t)
<1>1. /\ InUser(t) /\ running_thread = t /\ Active = t /\ context = t /\ pc[t] = "user"
      /\ t \notin Range(ready_queue) /\ Unqueued(t)
  BY CallerFacts DEF Finish, InUser
<1>2. /\ rq \in Seq(Thread)
      /\ Range(rq) = Range(ready_queue) \cup Range(join_queue[t])
      /\ IsInjective(rq)
  <2>1. Range(ready_queue) \cap Range(join_queue[t]) = {}
    BY DEF RunInv, Unqueued
  <2>2. /\ ready_queue \in Seq(Thread) /\ join_queue[t] \in Seq(Thread)
        /\ IsInjective(ready_queue) /\ IsInjective(join_queue[t])
    BY DEF TypeOK, RunInv, WaitInv, JoinWait
  <2> QED BY <2>1, <2>2, DrainQueue DEF ReadyAfterExit
<1>3. /\ pc' = [pc EXCEPT ![t] = "done"]
      /\ join_queue' = [join_queue EXCEPT ![t] = <<>>]
      /\ interrupts' = FALSE
      /\ UNCHANGED <<mutex_queue, cv_queue, mutexes, context, host, arg, held>>
      /\ rq # <<>> => /\ running_thread' = Head(rq) /\ ready_queue' = Tail(rq)
                      /\ switch_to' = Head(rq) /\ previous_thread' = running_thread
      /\ rq = <<>> => /\ ready_queue' = <<>> /\ switch_to' = Host
                      /\ UNCHANGED <<running_thread, previous_thread>>
  BY DEF Finish, PreviousOnExit, globals
<1> HIDE DEF rq
<1>4. /\ join_queue' \in [Thread -> Seq(Thread)]
      /\ IsInjective(join_queue'[t]) /\ Range(join_queue'[t]) = {}
      /\ \A u \in Thread \ {t} : join_queue'[u] = join_queue[u]
  BY <1>3, EmptySeq, EmptyQueue DEF TypeOK
<1>5. \A x \in Range(rq) : pc'[x] \in Resumable /\ Unqueued(x)'
  <2>1. \A x \in Range(rq) : x # t
    BY <1>1, <1>2 DEF Unqueued
  <2>2. \A x \in Range(rq) : pc[x] \in Resumable
    BY <1>2 DEF RunInv, WaitInv, JoinWait, Resumable
  <2>3. \A x \in Range(rq) : /\ \A y \in Cv : x \notin Range(cv_queue[y])
                             /\ \A y \in Mutex : x \notin Range(mutex_queue[y])
    BY <1>2, WaitersApart DEF RunInv, Unqueued
  <2>4. \A x \in Range(rq), u \in Thread : x \notin Range(join_queue'[u])
    <3> SUFFICES ASSUME NEW x \in Range(rq), NEW u \in Thread, u # t
                 PROVE  x \notin Range(join_queue[u])
      BY <1>4
    <3>1. CASE x \in Range(ready_queue)
      BY <3>1 DEF RunInv, Unqueued
    <3>2. CASE x \in Range(join_queue[t])
      BY <3>2, WaitersApart
    <3> QED BY <1>2, <3>1, <3>2
  <2> QED BY <1>2, <1>3, <2>1, <2>2, <2>3, <2>4 DEF Unqueued, TypeOK
<1>6. /\ running_thread' \in Thread \cup {NoThread}
      /\ previous_thread' \in Thread \cup {NoThread}
      /\ ready_queue' \in Seq(Thread)
      /\ switch_to' \in Thread \cup {Host}
      /\ ControlInv' /\ RunInv'
  <2>1. CASE rq # <<>>
    <3>1. PICK h \in Thread :
            /\ h = Head(rq)
            /\ Tail(rq) \in Seq(Thread)
            /\ Range(rq) = {h} \cup Range(Tail(rq))
            /\ IsInjective(Tail(rq)) /\ h \notin Range(Tail(rq))
      BY <1>2, <2>1, PopQueue
    <3>2. /\ running_thread' = h /\ ready_queue' = Tail(rq) /\ switch_to' = h
          /\ previous_thread' = t
      BY <1>1, <1>3, <2>1, <3>1
    <3>3. Active' = h
      BY <3>1, <3>2 DEF Active
    <3>4. \A x \in Range(ready_queue') : pc'[x] \in Resumable /\ Unqueued(x)'
      BY <1>5, <3>1, <3>2
    <3>5. pc'[h] \in Resumable /\ Unqueued(h)'
      BY <1>5, <3>1
    <3> QED BY <3>1, <3>2, <3>3, <3>4, <3>5 DEF RunInv, ControlInv, Resumable
  <2>2. CASE rq = <<>>
    <3>1. /\ ready_queue' = <<>> /\ switch_to' = Host
          /\ UNCHANGED <<running_thread, previous_thread>>
      BY <1>3, <2>2
    <3>2. Active' = Host
      BY <3>1 DEF Active
    <3> QED BY <3>1, <3>2, EmptyQueue, EmptySeq DEF RunInv, ControlInv, TypeOK
  <2> QED BY <2>1, <2>2
<1>7. TypeOK'
  BY <1>3, <1>4, <1>6 DEF TypeOK, mutexes, Phase
<1>8. WaitInv'
  <2>1. JoinWait'
    <3> SUFFICES ASSUME NEW u \in Thread
                 PROVE  /\ IsInjective(join_queue'[u])
                        /\ \A x \in Range(join_queue'[u]) : pc'[x] = "join" /\ arg'[x] = u
      BY DEF JoinWait
    <3> QED BY <1>1, <1>3, <1>4 DEF WaitInv, JoinWait, Unqueued, TypeOK
  <2>2. MutexWait'
    BY <1>1, <1>3 DEF WaitInv, MutexWait, Unqueued, TypeOK
  <2>3. CvWait' /\ CvApart'
    BY <1>1, <1>3 DEF WaitInv, CvWait, CvApart, Unqueued, TypeOK
  <2> QED BY <2>1, <2>2, <2>3 DEF WaitInv
<1>9. GrantInv' /\ MutualExclusion'
  BY <1>3 DEF GrantInv, MutualExclusion, TypeOK, mutexes
<1> QED BY <1>6, <1>7, <1>8, <1>9

\* A thread that resumes and returns from its call: the end of starter's
\* prologue, yield, join, lock or wait.
LEMMA ReturnKeepsIInv ==
  ASSUME IInv, NEW t \in Thread, Return(t) \/ ReturnWithMutex(t)
  PROVE  IInv'
<1> USE DEF IInv
<1>1. /\ context = t /\ switch_to = NoThread /\ Active = t /\ Active' = t
      /\ running_thread = t /\ t \notin Range(ready_queue) /\ Unqueued(t)
  BY CallerFacts DEF Return, ReturnWithMutex, Resumed, Active
<1>2. /\ pc' = [pc EXCEPT ![t] = "user"]
      /\ arg' = [arg EXCEPT ![t] = NoThread]
      /\ interrupts' = TRUE
      /\ previous_thread' = NoThread
      /\ UNCHANGED <<running_thread, ready_queue, join_queue, mutex_queue, cv_queue,
                     status, occupy_thread, context, switch_to, host>>
  BY DEF Return, ReturnWithMutex, ReturnToUser, PreviousAfterSwitch, queues, mutexes
<1>3. \/ held' = held
      \/ /\ held' = [held EXCEPT ![t] = @ \cup {arg[t]}]
         /\ arg[t] \in Mutex /\ status[arg[t]] /\ occupy_thread[arg[t]] = t
  <2>1. CASE Return(t)
    BY <2>1 DEF Return
  <2>2. CASE ReturnWithMutex(t)
    <3>1. pc[t] \in {"lock", "relock"} /\ held' = [held EXCEPT ![t] = @ \cup {arg[t]}]
      BY <2>2 DEF ReturnWithMutex, Resumed
    <3>2. arg[t] \in Mutex
      BY <3>1 DEF GrantInv
    <3>3. t \notin Range(mutex_queue[arg[t]])
      BY <1>1, <3>2 DEF Unqueued
    <3> QED BY <3>1, <3>2, <3>3 DEF GrantInv
  <2> QED BY <2>1, <2>2
<1>4. TypeOK' /\ ControlInv'
  <2>1. held' \in [Thread -> SUBSET Mutex]
    <3>1. CASE held' = held
      BY <3>1 DEF TypeOK
    <3>2. CASE held' = [held EXCEPT ![t] = held[t] \cup {arg[t]}] /\ arg[t] \in Mutex
      <4>1. held[t] \cup {arg[t]} \in SUBSET Mutex
        BY <3>2 DEF TypeOK
      <4> QED BY <3>2, <4>1 DEF TypeOK
    <3> QED BY <1>3, <3>1, <3>2
  <2> QED BY <1>2, <2>1 DEF TypeOK, ControlInv, Phase
<1>5. WaitInv'
  <2>1. JoinWait' /\ MutexWait'
    BY <1>1, <1>2 DEF WaitInv, JoinWait, MutexWait, Unqueued, TypeOK
  <2>2. CvWait' /\ CvApart'
    BY <1>1, <1>2 DEF WaitInv, CvWait, CvApart, Unqueued, TypeOK
  <2> QED BY <2>1, <2>2 DEF WaitInv
<1>6. RunInv'
  BY <1>1, <1>2 DEF RunInv, Unqueued, TypeOK
<1>7. GrantInv'
  BY <1>2 DEF GrantInv, TypeOK
<1>8. MutualExclusion'
  <2> SUFFICES ASSUME NEW x \in Thread, NEW m \in held'[x]
               PROVE  status'[m] /\ occupy_thread'[m] = x
    BY DEF MutualExclusion
  <2>1. m \in held[x] \/ (x = t /\ m = arg[t] /\ status[m] /\ occupy_thread[m] = t)
    BY <1>3 DEF TypeOK
  <2> QED BY <1>2, <2>1 DEF MutualExclusion
<1> QED BY <1>4, <1>5, <1>6, <1>7, <1>8

-----------------------------------------------------------------------------
(* Every step *)

\* Every call of a running thread.
LEMMA UserStepKeepsIInv ==
  ASSUME IInv, NEW t \in Thread, UserStep(t)
  PROVE  IInv'
<1> USE DEF IInv
<1>1. CASE \E u \in Thread : Create(t, u) \/ Join(t, u)
  BY <1>1, CreateKeepsIInv, JoinKeepsIInv
<1>2. CASE ReturnAtOnce /\ UNCHANGED programVars
  BY <1>2 DEF ReturnAtOnce, programVars, globals, queues, mutexes, TypeOK, ControlInv, WaitInv, JoinWait,
              MutexWait, CvWait, CvApart, RunInv, Unqueued, Active, GrantInv, MutualExclusion
<1>3. ASSUME NEW m \in Mutex, LockFree(t, m)
      PROVE  IInv'
  <2>1. /\ context = t /\ switch_to = NoThread /\ pc[t] = "user" /\ Take(t, m)
        /\ UNCHANGED <<running_thread, previous_thread, queues, context, switch_to, host>>
    BY <1>3 DEF LockFree, InUser, globals
  <2> QED BY <2>1, TakeKeepsIInv DEF TypeOK
<1>4. ASSUME NEW m \in Mutex, LockBusy(t, m)
      PROVE  IInv'
  <2>1. /\ context = t /\ switch_to = NoThread /\ pc[t] = "user" /\ Queue(t, m, "lock")
        /\ UNCHANGED previous_thread
    BY <1>4 DEF LockBusy, InUser
  <2> QED BY <2>1, QueueKeepsIInv DEF TypeOK
<1>5. CASE \E m \in Mutex : Unlock(t, m)
  BY <1>5, UnlockKeepsIInv
<1>6. CASE \E c \in Cv, m \in Mutex : Wait(t, c, m)
  BY <1>6, WaitKeepsIInv
<1>7. CASE \E c \in Cv : Signal(t, c) \/ Broadcast(t, c)
  BY <1>7, WakeKeepsIInv
<1>8. CASE Yield(t)
  BY <1>8, YieldKeepsIInv
<1>9. CASE Finish(t)
  BY <1>9, FinishKeepsIInv
<1> QED BY <1>1, <1>2, <1>3, <1>4, <1>5, <1>6, <1>7, <1>8, <1>9
        DEF UserStep, JoinExpired, NotOwner, NobodyWaits, YieldAlone

\* Every return from a call that was suspended.
LEMMA LibraryStepKeepsIInv ==
  ASSUME IInv, NEW t \in Thread, LibraryStep(t)
  PROVE  IInv'
<1> USE DEF IInv
<1>1. CASE Return(t) \/ ReturnWithMutex(t)
  BY <1>1, ReturnKeepsIInv
<1>2. ASSUME pc[t] = "wait"
      PROVE  arg[t] \in Mutex
  BY <1>2 DEF GrantInv
<1>3. CASE WakeFree(t)
  <2>1. /\ context = t /\ switch_to = NoThread /\ pc[t] = "wait" /\ Take(t, arg[t])
        /\ previous_thread' = NoThread
        /\ UNCHANGED <<running_thread, queues, context, switch_to, host>>
    BY <1>3 DEF WakeFree, Resumed, PreviousAfterSwitch
  <2> QED BY <1>2, <2>1, TakeKeepsIInv
<1>4. CASE WakeBusy(t)
  <2>1. /\ context = t /\ switch_to = NoThread /\ pc[t] = "wait" /\ Queue(t, arg[t], "relock")
        /\ previous_thread' = NoThread
    BY <1>4 DEF WakeBusy, Resumed, PreviousAfterSwitch
  <2> QED BY <1>2, <2>1, QueueKeepsIInv
<1> QED BY <1>1, <1>3, <1>4 DEF LibraryStep

\* Every step of the threads and of the CPU preserves the invariant.
LEMMA NextKeepsIInv == IInv /\ [Next]_vars => IInv'
<1> SUFFICES ASSUME IInv, [Next]_vars PROVE IInv'
  OBVIOUS
<1>1. CASE \E t \in Thread : UserStep(t) \/ LibraryStep(t)
  BY <1>1, UserStepKeepsIInv, LibraryStepKeepsIInv
<1>2. CASE HostStep \/ Switch
  BY <1>2, HostStepKeepsIInv
<1>3. CASE UNCHANGED vars
  BY <1>3 DEF vars, globals, queues, mutexes, cpuVars, IInv, TypeOK, ControlInv, WaitInv,
              JoinWait, MutexWait, CvWait, CvApart, RunInv, Unqueued, Active, GrantInv,
              MutualExclusion
<1> QED BY <1>1, <1>2, <1>3 DEF Next, Suspended

-----------------------------------------------------------------------------
(* Theorems *)

\* The invariant holds in every reachable state of the library.
LEMMA InvariantHolds == Spec => []IInv
  BY InitEstablishesIInv, NextKeepsIInv, PTL DEF Spec

\* Every variable keeps its type: in particular no null pointer is ever put
\* in a queue.
THEOREM TypeCorrect == Spec => []TypeOK
<1>1. IInv => TypeOK
  BY DEF IInv
<1> QED BY <1>1, InvariantHolds, PTL

\* Mutual exclusion: a mutex that lock() or wait() has returned to a thread
\* is busy and that thread's, whatever the others did in between.
THEOREM MutexSafe == Spec => []MutualExclusion
<1>1. IInv => MutualExclusion
  BY DEF IInv
<1> QED BY <1>1, InvariantHolds, PTL

-----------------------------------------------------------------------------
(* Ownership *)

\* t's lock is over, and t has not run since.
Awaited(t, m) ==
  pc[t] \in {"lock", "relock"} /\ arg[t] = m /\ t \notin Range(mutex_queue[m])

\* The thread that a busy mutex is marked with has it, or is about to.
OwnerInv ==
  \A m \in Mutex, t \in Thread :
    status[m] /\ occupy_thread[m] = t => m \in held[t] \/ Awaited(t, m)

\* A step of t that is not in a lock, and changes no ownership.
LEMMA OtherStepKeepsOwners ==
  ASSUME OwnerInv, NEW t \in Thread, pc[t] \notin {"lock", "relock"},
         status' = status, occupy_thread' = occupy_thread, held' = held,
         \A x \in Thread \ {t} : pc'[x] = pc[x] /\ arg'[x] = arg[x],
         \A m \in Mutex : Range(mutex_queue'[m]) \subseteq Range(mutex_queue[m]) \cup {t}
  PROVE  OwnerInv'
<1> SUFFICES ASSUME NEW m \in Mutex, NEW o \in Thread, status[m], occupy_thread[m] = o
             PROVE  m \in held[o] \/ Awaited(o, m)'
  BY DEF OwnerInv
<1>1. m \in held[o] \/ Awaited(o, m)
  BY DEF OwnerInv
<1>2. CASE Awaited(o, m)
  <2>1. o # t
    BY <1>2 DEF Awaited
  <2>2. o \notin Range(mutex_queue'[m])
    BY <1>2, <2>1 DEF Awaited
  <2> QED BY <1>2, <2>1, <2>2 DEF Awaited
<1> QED BY <1>1, <1>2

\* lock, or wait when it wakes, finds the mutex free.
LEMMA TakeKeepsOwners ==
  ASSUME TypeOK, OwnerInv, NEW t \in Thread, NEW m \in Mutex, running_thread = t,
         pc[t] \notin {"lock", "relock"}, Take(t, m), mutex_queue' = mutex_queue
  PROVE  OwnerInv'
<1>1. /\ status' = [status EXCEPT ![m] = TRUE]
      /\ occupy_thread' = [occupy_thread EXCEPT ![m] = t]
      /\ held' = [held EXCEPT ![t] = @ \cup {m}]
      /\ \A x \in Thread \ {t} : pc'[x] = pc[x] /\ arg'[x] = arg[x]
  BY DEF Take, ReturnToUser, TypeOK
<1> SUFFICES ASSUME NEW n \in Mutex, NEW o \in Thread, status'[n], occupy_thread'[n] = o
             PROVE  n \in held'[o] \/ Awaited(o, n)'
  BY DEF OwnerInv
<1>2. CASE n = m
  BY <1>1, <1>2 DEF TypeOK
<1>3. CASE n # m
  <2>1. status[n] /\ occupy_thread[n] = o
    BY <1>1, <1>3 DEF TypeOK
  <2>2. CASE n \in held[o]
    BY <1>1, <2>2 DEF TypeOK
  <2>3. CASE Awaited(o, n)
    BY <1>1, <2>3 DEF Awaited
  <2> QED BY <2>1, <2>2, <2>3 DEF OwnerInv
<1> QED BY <1>2, <1>3

\* unlock and wait free the mutex or mark it with its first waiter.
LEMMA ReleaseKeepsOwners ==
  ASSUME IInv, OwnerInv, NEW t \in Thread, NEW m \in Mutex, pc[t] = "user", Release(m),
         held' = [held EXCEPT ![t] = @ \ {m}],
         \A x \in Thread \ {t} : pc'[x] = pc[x] /\ arg'[x] = arg[x]
  PROVE  OwnerInv'
<1> USE DEF IInv
<1>1. /\ status' = [status EXCEPT ![m] = StatusAfterRelease(m)]
      /\ occupy_thread' = [occupy_thread EXCEPT ![m] = OwnerAfterRelease(m)]
      /\ mutex_queue' = [mutex_queue EXCEPT ![m] = QueueAfterRelease(m)]
  BY DEF Release
<1> SUFFICES ASSUME NEW n \in Mutex, NEW o \in Thread, status'[n], occupy_thread'[n] = o
             PROVE  n \in held'[o] \/ Awaited(o, n)'
  BY DEF OwnerInv
<1>2. CASE n = m
  <2>1. mutex_queue[m] # <<>> /\ mutex_queue[m] \in Seq(Thread)
    BY <1>1, <1>2 DEF StatusAfterRelease, TypeOK
  <2>2. o = Head(mutex_queue[m]) /\ mutex_queue'[m] = Tail(mutex_queue[m])
    BY <1>1, <1>2, <2>1 DEF OwnerAfterRelease, QueueAfterRelease, TypeOK
  <2>3. o \in Range(mutex_queue[m]) /\ o \notin Range(Tail(mutex_queue[m]))
    BY <2>1, <2>2, PopQueue DEF WaitInv, MutexWait
  <2>4. pc[o] \in {"lock", "relock"} /\ arg[o] = m
    BY <2>3 DEF WaitInv, MutexWait
  <2>5. pc'[o] = pc[o] /\ arg'[o] = arg[o]
    BY <2>4
  <2> QED BY <1>2, <2>2, <2>3, <2>4, <2>5 DEF Awaited
<1>3. CASE n # m
  <2>1. status[n] /\ occupy_thread[n] = o /\ mutex_queue'[n] = mutex_queue[n]
    BY <1>1, <1>3 DEF TypeOK
  <2>2. CASE n \in held[o]
    BY <1>3, <2>2 DEF TypeOK
  <2>3. CASE Awaited(o, n)
    BY <2>1, <2>3 DEF Awaited
  <2> QED BY <2>1, <2>2, <2>3 DEF OwnerInv
<1> QED BY <1>2, <1>3

\* A thread that queued for its mutex runs again, as the owner.
LEMMA ReturnKeepsOwners ==
  ASSUME TypeOK, OwnerInv, NEW t \in Thread, ReturnWithMutex(t)
  PROVE  OwnerInv'
<1>1. /\ status' = status /\ occupy_thread' = occupy_thread /\ mutex_queue' = mutex_queue
      /\ held' = [held EXCEPT ![t] = @ \cup {arg[t]}]
      /\ \A x \in Thread \ {t} : pc'[x] = pc[x] /\ arg'[x] = arg[x]
  BY DEF ReturnWithMutex, ReturnToUser, queues, mutexes, TypeOK
<1> SUFFICES ASSUME NEW m \in Mutex, NEW o \in Thread, status[m], occupy_thread[m] = o
             PROVE  m \in held'[o] \/ Awaited(o, m)'
  BY <1>1 DEF OwnerInv
<1>2. CASE m \in held[o]
  BY <1>1, <1>2 DEF TypeOK
<1>3. CASE Awaited(o, m) /\ o = t
  BY <1>1, <1>3 DEF TypeOK, Awaited
<1>4. CASE Awaited(o, m) /\ o # t
  BY <1>1, <1>4 DEF Awaited
<1> QED BY <1>2, <1>3, <1>4 DEF OwnerInv

\* A call that queues for a busy mutex.
LEMMA QueueKeepsOwners ==
  ASSUME TypeOK, OwnerInv, NEW t \in Thread, NEW m \in Mutex, NEW at, running_thread = t,
         pc[t] \notin {"lock", "relock"}, Queue(t, m, at)
  PROVE  OwnerInv'
<1>1. /\ status' = status /\ occupy_thread' = occupy_thread /\ held' = held
      /\ \A x \in Thread \ {t} : pc'[x] = pc[x] /\ arg'[x] = arg[x]
      /\ mutex_queue' = [mutex_queue EXCEPT ![m] = Append(@, t)]
  BY DEF Queue, mutexes, TypeOK
<1>2. \A n \in Mutex : Range(mutex_queue'[n]) \subseteq Range(mutex_queue[n]) \cup {t}
  <2> SUFFICES ASSUME NEW n \in Mutex
               PROVE  Range(mutex_queue'[n]) \subseteq Range(mutex_queue[n]) \cup {t}
    OBVIOUS
  <2>1. Range(Append(mutex_queue[m], t)) = Range(mutex_queue[m]) \cup {t}
    BY PushQueue DEF TypeOK
  <2> QED BY <1>1, <2>1 DEF TypeOK
<1> QED BY <1>1, <1>2, OtherStepKeepsOwners

\* Every call of a running thread.
LEMMA UserStepKeepsOwners ==
  ASSUME IInv, OwnerInv, NEW t \in Thread, UserStep(t)
  PROVE  OwnerInv'
<1> USE DEF IInv
<1>1. ASSUME NEW u \in Thread, Create(t, u)
      PROVE  OwnerInv'
  <2>1. /\ pc[u] = "unborn" /\ pc' = [pc EXCEPT ![u] = "start"]
        /\ UNCHANGED <<status, occupy_thread, held, arg, mutex_queue>>
    BY <1>1 DEF Create, mutexes
  <2> QED BY <2>1, OtherStepKeepsOwners DEF TypeOK
<1>2. ASSUME NEW u \in Thread, Join(t, u)
      PROVE  OwnerInv'
  <2>1. /\ pc[t] = "user" /\ pc' = [pc EXCEPT ![t] = "join"] /\ arg' = [arg EXCEPT ![t] = u]
        /\ UNCHANGED <<status, occupy_thread, held, mutex_queue>>
    BY <1>2 DEF Join, InUser, mutexes
  <2> QED BY <2>1, OtherStepKeepsOwners DEF TypeOK
<1>3. CASE ReturnAtOnce /\ UNCHANGED programVars
  BY <1>3 DEF programVars, queues, mutexes, OwnerInv, Awaited
<1>4. ASSUME NEW m \in Mutex, LockFree(t, m)
      PROVE  OwnerInv'
  <2>1. pc[t] = "user" /\ running_thread = t /\ Take(t, m) /\ mutex_queue' = mutex_queue
    BY <1>4, CallerFacts DEF LockFree, InUser, queues
  <2> QED BY <2>1, TakeKeepsOwners
<1>5. ASSUME NEW m \in Mutex, LockBusy(t, m)
      PROVE  OwnerInv'
  <2>1. pc[t] = "user" /\ running_thread = t /\ Queue(t, m, "lock")
    BY <1>5, CallerFacts DEF LockBusy, InUser
  <2> QED BY <2>1, QueueKeepsOwners
<1>6. ASSUME NEW m \in Mutex, Unlock(t, m)
      PROVE  OwnerInv'
  <2>1. /\ pc[t] = "user" /\ Release(m) /\ held' = [held EXCEPT ![t] = @ \ {m}]
        /\ pc' = pc /\ arg' = arg
    BY <1>6 DEF Unlock, InUser
  <2> QED BY <2>1, ReleaseKeepsOwners
<1>7. ASSUME NEW c \in Cv, NEW m \in Mutex, Wait(t, c, m)
      PROVE  OwnerInv'
  <2>1. /\ pc[t] = "user" /\ Release(m) /\ held' = [held EXCEPT ![t] = @ \ {m}]
        /\ pc' = [pc EXCEPT ![t] = "wait"] /\ arg' = [arg EXCEPT ![t] = m]
    BY <1>7 DEF Wait, InUser
  <2>2. \A x \in Thread \ {t} : pc'[x] = pc[x] /\ arg'[x] = arg[x]
    BY <2>1 DEF TypeOK
  <2> QED BY <2>1, <2>2, ReleaseKeepsOwners
<1>8. CASE \E c \in Cv : Signal(t, c) \/ Broadcast(t, c)
  BY <1>8 DEF Signal, Broadcast, mutexes, OwnerInv, Awaited
<1>9. CASE Yield(t) \/ Finish(t)
  <2>1. /\ pc[t] = "user" /\ \E at \in Phase : pc' = [pc EXCEPT ![t] = at]
        /\ UNCHANGED <<status, occupy_thread, held, arg, mutex_queue>>
    BY <1>9 DEF Yield, Finish, InUser, mutexes, Phase, Resumable
  <2> QED BY <2>1, OtherStepKeepsOwners DEF TypeOK
<1> QED BY <1>1, <1>2, <1>3, <1>4, <1>5, <1>6, <1>7, <1>8, <1>9
        DEF UserStep, JoinExpired, NotOwner, NobodyWaits, YieldAlone

\* Every return from a call that was suspended.
LEMMA LibraryStepKeepsOwners ==
  ASSUME IInv, OwnerInv, NEW t \in Thread, LibraryStep(t)
  PROVE  OwnerInv'
<1> USE DEF IInv
<1>1. CASE Return(t)
  <2>1. /\ pc[t] \in {"start", "yield", "join"}
        /\ pc' = [pc EXCEPT ![t] = "user"] /\ arg' = [arg EXCEPT ![t] = NoThread]
        /\ UNCHANGED <<status, occupy_thread, held, mutex_queue>>
    BY <1>1 DEF Return, Resumed, ReturnToUser, queues, mutexes
  <2> QED BY <2>1, OtherStepKeepsOwners DEF TypeOK
<1>2. CASE ReturnWithMutex(t)
  BY <1>2, ReturnKeepsOwners
<1>3. ASSUME Resumed(t, "wait")
      PROVE  pc[t] = "wait" /\ arg[t] \in Mutex /\ running_thread = t
  BY <1>3, CallerFacts DEF Resumed, GrantInv
<1>4. CASE WakeFree(t)
  <2>1. Take(t, arg[t]) /\ mutex_queue' = mutex_queue /\ Resumed(t, "wait")
    BY <1>4 DEF WakeFree, queues
  <2> QED BY <1>3, <2>1, TakeKeepsOwners
<1>5. CASE WakeBusy(t)
  <2>1. Queue(t, arg[t], "relock") /\ Resumed(t, "wait")
    BY <1>5 DEF WakeBusy
  <2> QED BY <1>3, <2>1, QueueKeepsOwners
<1> QED BY <1>1, <1>2, <1>4, <1>5 DEF LibraryStep

\* The owner that a mutex records is the thread that holds it or is promised it.
LEMMA OwnersHold == Spec => [](IInv /\ OwnerInv)
<1>1. Init => IInv /\ OwnerInv
  BY InitEstablishesIInv DEF Init, OwnerInv
<1>2. IInv /\ OwnerInv /\ [Next]_vars => OwnerInv'
  <2> SUFFICES ASSUME IInv, OwnerInv, [Next]_vars PROVE OwnerInv'
    OBVIOUS
  <2>1. CASE \E t \in Thread : UserStep(t) \/ LibraryStep(t)
    BY <2>1, UserStepKeepsOwners, LibraryStepKeepsOwners
  <2>2. CASE HostStep \/ Switch \/ UNCHANGED vars
    BY <2>2 DEF HostStep, HostDispatch, HostResumed, HostSuspend, Switch, vars, queues, mutexes,
                OwnerInv, Awaited
  <2> QED BY <2>1, <2>2 DEF Next, Suspended
<1> QED BY <1>1, <1>2, NextKeepsIInv, PTL DEF Spec

\* check_ownership is exact: unlock and wait throw iff the caller does not
\* have the mutex (mutex.cpp:34-37), for any number of threads and mutexes.
THEOREM OwnershipExact == Spec => []OwnershipIsExact
<1>1. ASSUME IInv, OwnerInv
      PROVE  OwnershipIsExact
  <2> SUFFICES ASSUME NEW t \in Thread, InUser(t), NEW m \in Mutex
               PROVE  CheckOwnership(m) <=> m \in held[t]
    BY DEF OwnershipIsExact
  <2>1. running_thread = t /\ pc[t] = "user"
    BY <1>1, CallerFacts DEF InUser
  <2>2. ASSUME CheckOwnership(m) PROVE m \in held[t]
    BY <1>1, <2>1, <2>2 DEF CheckOwnership, OwnerInv, Awaited
  <2>3. ASSUME m \in held[t] PROVE CheckOwnership(m)
    BY <1>1, <2>1, <2>3 DEF CheckOwnership, Expired, IInv, MutualExclusion
  <2> QED BY <2>2, <2>3
<1> QED BY <1>1, OwnersHold, PTL

-----------------------------------------------------------------------------
(* Stacks and their TCBs.  A finished thread's TCB must outlive the switch   *)
(* away from its stack, and no longer: previous_thread is set for exactly    *)
(* that time.                                                                *)

\* Only suspended contexts are switched to, and until the switch has happened
\* the stack it leaves has a reference: a queue entry or a global.
SwitchInv ==
  /\ switch_to \in Thread => pc[switch_to] \in Resumable
  /\ switch_to # NoThread /\ context \in Thread => ~Expired(context)

\* previous_thread is reset before the program runs again.
PreviousInv == \A t \in Thread : InUser(t) => previous_thread = NoThread

\* BlockedForCause is part of the induction: join tells by the expired TCB
\* that a thread has finished, which is right only by the other two.
StackInv == SwitchInv /\ PreviousInv /\ BlockedForCause

\* While the program runs nothing refers to a finished thread.
LEMMA FinishedAreExpired ==
  ASSUME IInv, StackInv, NEW t \in Thread, InUser(t), NEW u \in Thread, pc[u] = "done"
  PROVE  Expired(u)
<1>1. running_thread = t /\ previous_thread = NoThread /\ pc[t] = "user"
  BY CallerFacts DEF InUser, StackInv, PreviousInv
<1>2. u # t /\ u # NoThread
  BY <1>1
<1>3. u \notin Range(ready_queue)
  BY DEF IInv, RunInv, Resumable
<1>4. \A v \in Thread : u \notin Range(join_queue[v])
  BY DEF IInv, WaitInv, JoinWait
<1>5. \A m \in Mutex : u \notin Range(mutex_queue[m])
  BY DEF IInv, WaitInv, MutexWait
<1>6. \A c \in Cv : u \notin Range(cv_queue[c])
  BY DEF IInv, WaitInv, CvWait
<1> QED BY <1>1, <1>2, <1>3, <1>4, <1>5, <1>6 DEF Expired, InSomeQueue

\* swap_helper switches to a suspended thread, away from a thread that it
\* leaves in a queue.
LEMMA SwapHelperKeepsSwitch ==
  ASSUME TypeOK, NEW t \in Thread, context = t, NEW rq \in Seq(Thread), SwapHelper(rq),
         \A x \in Range(rq) : pc'[x] \in Resumable,
         t \in Range(rq) \/ InSomeQueue(t)'
  PROVE  SwitchInv' /\ switch_to' # NoThread
<1>1. CASE rq = <<>>
  BY <1>1, EmptyQueue DEF SwapHelper, SwitchInv, Expired
<1>2. CASE rq # <<>>
  <2>1. /\ Head(rq) \in Thread /\ Head(rq) \in Range(rq)
        /\ Range(rq) = {Head(rq)} \cup Range(Tail(rq))
    BY <1>2, PopQueue
  <2>2. /\ running_thread' = Head(rq) /\ ready_queue' = Tail(rq) /\ switch_to' = Head(rq)
        /\ context' = t
    BY <1>2 DEF SwapHelper
  <2>3. ~Expired(t)'
    BY <2>1, <2>2 DEF Expired, InSomeQueue
  <2> QED BY <2>1, <2>2, <2>3 DEF SwitchInv
<1> QED BY <1>1, <1>2

\* A thread that queues for a mutex stays referenced by its queue.
LEMMA QueueKeepsSwitch ==
  ASSUME IInv, NEW t \in Thread, NEW m \in Mutex, NEW at,
         context = t, switch_to = NoThread, Queue(t, m, at)
  PROVE  SwitchInv' /\ switch_to' # NoThread
<1> USE DEF IInv
<1>1. running_thread = t /\ t \notin Range(ready_queue) /\ SwapHelper(ready_queue)
  BY CallerFacts DEF Queue
<1>2. \A x \in Range(ready_queue) : x # t /\ pc'[x] \in Resumable
  BY <1>1 DEF Queue, RunInv, TypeOK
<1>3. mutex_queue'[m] = Append(mutex_queue[m], t) /\ mutex_queue[m] \in Seq(Thread)
  BY <1>1 DEF Queue, TypeOK
<1>4. t \in Range(mutex_queue'[m])
  BY <1>3, PushQueue
<1>5. InSomeQueue(t)'
  BY <1>4 DEF InSomeQueue
<1> QED BY <1>1, <1>2, <1>5, SwapHelperKeepsSwitch DEF TypeOK

\* A call of the program that ends in a context switch leaves the caller's
\* stack referenced until that switch.
LEMMA CallKeepsSwitch ==
  ASSUME IInv, NEW t \in Thread,
         \/ Yield(t) \/ Finish(t)
         \/ \E u \in Thread : Join(t, u)
         \/ \E m \in Mutex : LockBusy(t, m)
         \/ \E c \in Cv, m \in Mutex : Wait(t, c, m)
  PROVE  SwitchInv' /\ switch_to' # NoThread
<1> USE DEF IInv
<1>1. InUser(t) /\ context = t /\ switch_to = NoThread /\ pc[t] = "user"
  BY DEF Yield, Finish, Join, LockBusy, Wait, InUser
<1>2. running_thread = t /\ t \notin Range(ready_queue) /\ Unqueued(t)
  BY <1>1, CallerFacts
<1>3. /\ ready_queue \in Seq(Thread)
      /\ \A x \in Range(ready_queue) : pc[x] \in Resumable /\ x # t
  BY <1>2 DEF TypeOK, RunInv
<1>4. CASE Yield(t)
  <2>1. /\ ReadyAfterYield \in Seq(Thread)
        /\ Range(ReadyAfterYield) = Range(ready_queue) \cup {t}
    BY <1>2, <1>3, PushQueue DEF ReadyAfterYield
  <2>2. SwapHelper(ReadyAfterYield) /\ pc' = [pc EXCEPT ![t] = "yield"]
    BY <1>4 DEF Yield
  <2>3. \A x \in Range(ReadyAfterYield) : pc'[x] \in Resumable
    BY <1>3, <2>1, <2>2 DEF TypeOK, Resumable
  <2> QED BY <1>1, <2>1, <2>2, <2>3, SwapHelperKeepsSwitch
<1>5. ASSUME NEW u \in Thread, Join(t, u)
      PROVE  SwitchInv' /\ switch_to' # NoThread
  <2>1. /\ SwapHelper(ready_queue) /\ pc' = [pc EXCEPT ![t] = "join"]
        /\ join_queue'[u] = Append(join_queue[u], t) /\ join_queue[u] \in Seq(Thread)
    BY <1>2, <1>5 DEF Join, TypeOK
  <2>2. t \in Range(join_queue'[u])
    BY <2>1, PushQueue
  <2>3. InSomeQueue(t)'
    BY <2>2 DEF InSomeQueue
  <2>4. \A x \in Range(ready_queue) : pc'[x] \in Resumable
    BY <1>3, <2>1 DEF TypeOK
  <2> QED BY <1>1, <1>3, <2>1, <2>3, <2>4, SwapHelperKeepsSwitch
<1>6. CASE \E m \in Mutex : LockBusy(t, m)
  BY <1>1, <1>6, QueueKeepsSwitch DEF LockBusy
<1>7. ASSUME NEW c \in Cv, NEW m \in Mutex, Wait(t, c, m)
      PROVE  SwitchInv' /\ switch_to' # NoThread
  <2>1. /\ SwapHelper(ReadyAfterRelease(m)) /\ pc' = [pc EXCEPT ![t] = "wait"]
        /\ cv_queue'[c] = Append(cv_queue[c], t) /\ cv_queue[c] \in Seq(Thread)
        /\ Release(m) /\ CheckOwnership(m)
    BY <1>2, <1>7 DEF Wait, TypeOK
  <2>2. t \in Range(cv_queue'[c])
    BY <2>1, PushQueue
  <2>3. InSomeQueue(t)'
    BY <2>2 DEF InSomeQueue
  <2>4. /\ ReadyAfterRelease(m) \in Seq(Thread)
        /\ Range(ReadyAfterRelease(m)) \subseteq Range(ready_queue) \cup Range(mutex_queue[m])
    BY <1>1, <2>1, ReleaseFacts
  <2>5. \A x \in Range(mutex_queue[m]) : pc[x] \in Resumable /\ x # t
    BY <1>2 DEF WaitInv, MutexWait, Unqueued, Resumable
  <2>6. \A x \in Range(ReadyAfterRelease(m)) : pc'[x] \in Resumable
    BY <1>3, <2>1, <2>4, <2>5 DEF TypeOK
  <2> QED BY <1>1, <2>1, <2>3, <2>4, <2>6, SwapHelperKeepsSwitch
<1>8. CASE Finish(t)
  <2> DEFINE rq == ReadyAfterExit(t)
  <2>1. pc' = [pc EXCEPT ![t] = "done"] /\ context' = t
    BY <1>1, <1>8 DEF Finish
  <2>2. CASE rq = <<>>
    BY <1>2, <1>8, <2>1, <2>2 DEF Finish, globals, SwitchInv, Expired
  <2>3. CASE rq # <<>>
    <3>1. switch_to' = Head(rq) /\ previous_thread' = t
      BY <1>2, <1>8, <2>3 DEF Finish, PreviousOnExit
    <3>2. rq \in Seq(Thread) /\ Range(rq) = Range(ready_queue) \cup Range(join_queue[t])
      BY <1>3, DrainQueue DEF ReadyAfterExit, TypeOK
    <3>3. Head(rq) \in Thread /\ Head(rq) \in Range(rq)
      BY <2>3, <3>2, PopQueue
    <3>4. \A x \in Range(join_queue[t]) : pc[x] \in Resumable /\ x # t
      BY <1>2 DEF WaitInv, JoinWait, Unqueued, Resumable
    <3>5. pc'[Head(rq)] \in Resumable
      BY <1>3, <2>1, <3>2, <3>3, <3>4 DEF TypeOK
    <3> HIDE DEF rq
    <3> QED BY <2>1, <3>1, <3>3, <3>5 DEF SwitchInv, Expired
  <2> QED BY <2>2, <2>3
<1> QED BY <1>4, <1>5, <1>6, <1>7, <1>8

\* A call that returns at once: the program goes on in the same thread.
LEMMA SameThreadKeepsStack ==
  ASSUME StackInv, NEW t \in Thread, InUser(t),
         UNCHANGED <<context, switch_to, previous_thread>>
  PROVE  SwitchInv' /\ PreviousInv'
<1>1. SwitchInv'
  BY DEF InUser, SwitchInv
<1>2. previous_thread' = NoThread
  BY DEF StackInv, PreviousInv
<1> QED BY <1>1, <1>2 DEF PreviousInv

\* A release never leaves a free mutex with waiters.
LEMMA ReleaseKeepsCause ==
  ASSUME TypeOK, StackInv, NEW m \in Mutex, Release(m),
         \A u \in Thread : join_queue'[u] = join_queue[u] /\ (pc'[u] = "done" => pc[u] = "done")
  PROVE  BlockedForCause'
<1>1. ASSUME NEW n \in Mutex, mutex_queue'[n] # <<>>
      PROVE  status'[n]
  <2>1. CASE n = m
    BY <1>1, <2>1 DEF Release, QueueAfterRelease, StatusAfterRelease, TypeOK
  <2>2. CASE n # m
    BY <1>1, <2>2 DEF Release, TypeOK, StackInv, BlockedForCause
  <2> QED BY <2>1, <2>2
<1>2. ASSUME NEW u \in Thread, join_queue'[u] # <<>>
      PROVE  pc'[u] # "done"
  BY <1>2 DEF StackInv, BlockedForCause
<1> QED BY <1>1, <1>2 DEF BlockedForCause

\* Taking a free mutex leaves it without waiters, and queueing for a mutex
\* is only done while it is busy.
LEMMA MutexStepKeepsCause ==
  ASSUME TypeOK, StackInv, NEW t \in Thread, NEW m \in Mutex,
         \/ Take(t, m) /\ mutex_queue' = mutex_queue /\ join_queue' = join_queue
         \/ \E at \in {"lock", "relock"} : Queue(t, m, at)
  PROVE  BlockedForCause'
<1>1. /\ \A n \in Mutex : status[n] => status'[n]
      /\ \A n \in Mutex : mutex_queue'[n] = mutex_queue[n] \/ status'[n]
  BY DEF Take, Queue, mutexes, TypeOK
<1>2. join_queue' = join_queue /\ \A u \in Thread : pc'[u] = "done" => pc[u] = "done"
  BY DEF Take, ReturnToUser, Queue, TypeOK
<1> QED BY <1>1, <1>2 DEF StackInv, BlockedForCause

\* Every call of a running thread.
LEMMA UserStepKeepsStack ==
  ASSUME IInv, StackInv, NEW t \in Thread, UserStep(t)
  PROVE  StackInv'
<1> USE DEF IInv
<1>1. CASE ReturnAtOnce /\ UNCHANGED programVars
  BY <1>1 DEF ReturnAtOnce, programVars, globals, queues, mutexes, StackInv, SwitchInv, PreviousInv,
              BlockedForCause, Expired, InSomeQueue, InUser
<1>2. ASSUME SwitchInv', switch_to' # NoThread, BlockedForCause'
      PROVE  StackInv'
  BY <1>2 DEF StackInv, PreviousInv, InUser
<1>3. ASSUME InUser(t), UNCHANGED <<context, switch_to, previous_thread>>, BlockedForCause'
      PROVE  StackInv'
  BY <1>3, SameThreadKeepsStack DEF StackInv
<1>4. ASSUME NEW u \in Thread, Create(t, u)
      PROVE  StackInv'
  <2>1. BlockedForCause'
    BY <1>4 DEF Create, mutexes, TypeOK, StackInv, BlockedForCause
  <2> QED BY <1>3, <1>4, <2>1 DEF Create, ReturnAtOnce, globals
<1>5. ASSUME NEW u \in Thread, Join(t, u)
      PROVE  StackInv'
  <2>1. pc[u] # "done"
    BY <1>5, FinishedAreExpired DEF Join
  <2>2. BlockedForCause'
    BY <1>5, <2>1 DEF Join, mutexes, TypeOK, StackInv, BlockedForCause
  <2> QED BY <1>2, <1>5, <2>2, CallKeepsSwitch
<1>6. ASSUME NEW m \in Mutex, LockFree(t, m)
      PROVE  StackInv'
  <2>1. BlockedForCause'
    BY <1>6, MutexStepKeepsCause DEF LockFree, queues
  <2> QED BY <1>3, <1>6, <2>1 DEF LockFree, globals
<1>7. ASSUME NEW m \in Mutex, LockBusy(t, m)
      PROVE  StackInv'
  <2>1. BlockedForCause'
    BY <1>7, MutexStepKeepsCause DEF LockBusy
  <2> QED BY <1>2, <1>7, <2>1, CallKeepsSwitch
<1>8. ASSUME NEW m \in Mutex, Unlock(t, m)
      PROVE  StackInv'
  <2>1. BlockedForCause'
    BY <1>8, ReleaseKeepsCause DEF Unlock
  <2> QED BY <1>3, <1>8, <2>1 DEF Unlock, ReturnAtOnce, globals
<1>9. ASSUME NEW c \in Cv, NEW m \in Mutex, Wait(t, c, m)
      PROVE  StackInv'
  <2>1. Release(m) /\ join_queue' = join_queue /\ pc' = [pc EXCEPT ![t] = "wait"]
    BY <1>9 DEF Wait
  <2>2. BlockedForCause'
    BY <2>1, ReleaseKeepsCause DEF TypeOK
  <2> QED BY <1>2, <1>9, <2>2, CallKeepsSwitch
<1>10. ASSUME NEW c \in Cv, Signal(t, c) \/ Broadcast(t, c)
       PROVE  StackInv'
  <2>1. BlockedForCause'
    BY <1>10 DEF Signal, Broadcast, mutexes, StackInv, BlockedForCause
  <2> QED BY <1>3, <1>10, <2>1 DEF Signal, Broadcast, ReturnAtOnce, globals
<1>11. CASE Yield(t)
  <2>1. BlockedForCause'
    BY <1>11 DEF Yield, mutexes, TypeOK, StackInv, BlockedForCause
  <2> QED BY <1>2, <1>11, <2>1, CallKeepsSwitch
<1>12. CASE Finish(t)
  <2>1. BlockedForCause'
    BY <1>12 DEF Finish, mutexes, TypeOK, StackInv, BlockedForCause
  <2> QED BY <1>2, <1>12, <2>1, CallKeepsSwitch
<1> QED BY <1>1, <1>4, <1>5, <1>6, <1>7, <1>8, <1>9, <1>10, <1>11, <1>12
        DEF UserStep, JoinExpired, NotOwner, NobodyWaits, YieldAlone

\* Every return from a call that was suspended.
LEMMA LibraryStepKeepsStack ==
  ASSUME IInv, StackInv, NEW t \in Thread, LibraryStep(t)
  PROVE  StackInv'
<1> USE DEF IInv
<1>1. context = t /\ switch_to = NoThread /\ previous_thread' = NoThread
  BY DEF LibraryStep, Return, ReturnWithMutex, WakeFree, WakeBusy, Resumed, PreviousAfterSwitch
<1>2. ASSUME BlockedForCause', switch_to' = NoThread
      PROVE  StackInv'
  BY <1>1, <1>2 DEF StackInv, SwitchInv, PreviousInv
<1>3. CASE Return(t) \/ ReturnWithMutex(t)
  <2>1. BlockedForCause'
    BY <1>3 DEF Return, ReturnWithMutex, ReturnToUser, queues, mutexes, TypeOK, StackInv,
                BlockedForCause
  <2> QED BY <1>1, <1>2, <1>3, <2>1 DEF Return, ReturnWithMutex
<1>4. ASSUME Resumed(t, "wait")
      PROVE  arg[t] \in Mutex
  BY <1>4 DEF Resumed, GrantInv
<1>5. CASE WakeFree(t)
  <2>1. BlockedForCause'
    BY <1>4, <1>5, MutexStepKeepsCause DEF WakeFree, queues
  <2> QED BY <1>1, <1>2, <1>5, <2>1 DEF WakeFree
<1>6. CASE WakeBusy(t)
  <2>1. arg[t] \in Mutex /\ Queue(t, arg[t], "relock")
    BY <1>4, <1>6 DEF WakeBusy
  <2>2. BlockedForCause'
    BY <2>1, MutexStepKeepsCause
  <2>3. SwitchInv' /\ switch_to' # NoThread
    BY <1>1, <2>1, QueueKeepsSwitch
  <2> QED BY <2>2, <2>3 DEF StackInv, PreviousInv, InUser
<1> QED BY <1>3, <1>5, <1>6 DEF LibraryStep

\* The steps of the CPU between two threads.
LEMMA HostStepKeepsStack ==
  ASSUME IInv, StackInv, HostStep \/ Switch
  PROVE  StackInv'
<1> USE DEF IInv
<1>1. BlockedForCause'
  BY DEF HostStep, HostDispatch, HostResumed, HostSuspend, Switch, queues, mutexes, StackInv,
         BlockedForCause
<1>2. CASE HostDispatch
  <2>1. Head(ready_queue) \in Thread /\ Head(ready_queue) \in Range(ready_queue)
    BY <1>2, PopQueue DEF HostDispatch, TypeOK
  <2>2. SwitchInv'
    BY <1>2, <2>1 DEF HostDispatch, RunInv, SwitchInv
  <2>3. PreviousInv'
    BY <1>2, <2>1 DEF HostDispatch, PreviousInv, InUser
  <2> QED BY <1>1, <2>2, <2>3 DEF StackInv
<1>3. CASE HostResumed \/ HostSuspend
  BY <1>1, <1>3 DEF HostResumed, HostSuspend, StackInv, SwitchInv, PreviousInv, InUser
<1>4. CASE Switch
  <2>1. SwitchInv'
    BY <1>4 DEF Switch, SwitchInv
  <2>2. \A x \in Thread : ~InUser(x)'
    BY <1>4 DEF Switch, InUser, StackInv, SwitchInv, Resumable
  <2> QED BY <1>1, <2>1, <2>2 DEF StackInv, PreviousInv
<1> QED BY <1>2, <1>3, <1>4 DEF HostStep

\* The stack that the CPU leaves has a reference until it has left it.
LEMMA StackHolds == Spec => [](IInv /\ StackInv)
<1>1. Init => IInv /\ StackInv
  BY InitEstablishesIInv
     DEF Init, StackInv, SwitchInv, PreviousInv, InUser, BlockedForCause
<1>2. IInv /\ StackInv /\ [Next]_vars => StackInv'
  <2> SUFFICES ASSUME IInv, StackInv, [Next]_vars PROVE StackInv'
    OBVIOUS
  <2>1. CASE \E t \in Thread : UserStep(t) \/ LibraryStep(t)
    BY <2>1, UserStepKeepsStack, LibraryStepKeepsStack
  <2>2. CASE HostStep \/ Switch
    BY <2>2, HostStepKeepsStack
  <2>3. CASE UNCHANGED vars
    BY <2>3 DEF vars, globals, queues, mutexes, cpuVars, StackInv, SwitchInv, PreviousInv,
                BlockedForCause, Expired, InSomeQueue, InUser
  <2> QED BY <2>1, <2>2, <2>3 DEF Next, Suspended
<1> QED BY <1>1, <1>2, NextKeepsIInv, PTL DEF Spec

\* No queued lock and no join waits for an event of the past: the mutex is
\* busy, the thread has not finished (thread_lib.cpp:186-198, mutex.cpp:46-53).
THEOREM WaitsHaveCause == Spec => []BlockedForCause
<1>1. StackInv => BlockedForCause
  BY DEF StackInv
<1> QED BY <1>1, StackHolds, PTL

\* The CPU is never on, or about to enter, the stack of a destroyed TCB
\* (thread_lib.cpp:49-62, 114-120, 169).
THEOREM StacksLive == Spec => []StackAlive
<1>1. ASSUME IInv, StackInv
      PROVE  StackAlive
  <2>1. ASSUME context \in Thread
        PROVE  ~Expired(context)
    BY <1>1, <2>1 DEF IInv, ControlInv, StackInv, SwitchInv, Expired
  <2>2. ASSUME switch_to \in Thread
        PROVE  ~Expired(switch_to)
    BY <1>1, <2>2 DEF IInv, ControlInv, Expired
  <2> QED BY <2>1, <2>2 DEF StackAlive
<1> QED BY <1>1, StackHolds, PTL

\* Whenever the program runs, every finished thread's TCB and stack are gone.
THEOREM FinishedReclaimed == Spec => []Reclaimed
<1>1. ASSUME IInv, StackInv
      PROVE  Reclaimed
  BY <1>1, FinishedAreExpired DEF Reclaimed
<1> QED BY <1>1, StackHolds, PTL

\* The program runs with interrupts enabled.
Preemptible == \A t \in Thread : InUser(t) => interrupts

\* swap_helper leaves no thread in the program.
LEMMA SwapHelperLeaves ==
  ASSUME TypeOK, NEW rq \in Seq(Thread), SwapHelper(rq)
  PROVE  switch_to' # NoThread
<1>1. rq # <<>> => Head(rq) \in Thread
  BY PopQueue
<1> QED BY <1>1, HostAssumption, NoThreadAssumption DEF SwapHelper

\* A call enables interrupts before it returns, or it ends in a switch.
LEMMA UserStepKeepsPreemptible ==
  ASSUME IInv, StackInv, Preemptible, NEW t \in Thread, UserStep(t)
  PROVE  Preemptible'
<1> USE DEF IInv
<1>1. InUser(t) /\ running_thread = t /\ context = t
  BY CallerFacts DEF UserStep, Create, Join, JoinExpired, LockFree, LockBusy, Unlock, NotOwner,
                     Wait, Signal, Broadcast, NobodyWaits, Yield, YieldAlone, Finish, InUser
<1>2. CASE interrupts'
  BY <1>2 DEF Preemptible
<1>3. CASE ReturnAtOnce
  BY <1>2, <1>3 DEF ReturnAtOnce
<1>4. CASE YieldAlone(t) \/ \E u \in Thread : Create(t, u) \/ JoinExpired(t, u)
  BY <1>3, <1>4 DEF Create, JoinExpired, YieldAlone
<1>5. CASE \E m \in Mutex : LockFree(t, m) \/ Unlock(t, m) \/ NotOwner(t, m)
  BY <1>2, <1>3, <1>5 DEF LockFree, Take, ReturnToUser, Unlock, NotOwner
<1>6. CASE \E c \in Cv : Signal(t, c) \/ Broadcast(t, c) \/ NobodyWaits(t, c)
  BY <1>3, <1>6 DEF Signal, Broadcast, NobodyWaits
<1>7. ASSUME NEW rq \in Seq(Thread), SwapHelper(rq)
      PROVE  Preemptible'
  BY <1>7, SwapHelperLeaves DEF Preemptible, InUser
<1>8. CASE Yield(t)
  <2>1. ReadyAfterYield \in Seq(Thread) /\ SwapHelper(ReadyAfterYield)
    BY <1>1, <1>8 DEF Yield, ReadyAfterYield, TypeOK
  <2> QED BY <1>7, <2>1
<1>9. CASE \E u \in Thread : Join(t, u)
  <2>1. ready_queue \in Seq(Thread) /\ SwapHelper(ready_queue)
    BY <1>9 DEF Join, TypeOK
  <2> QED BY <1>7, <2>1
<1>10. CASE \E m \in Mutex : LockBusy(t, m)
  <2>1. ready_queue \in Seq(Thread) /\ SwapHelper(ready_queue)
    BY <1>10 DEF LockBusy, Queue, TypeOK
  <2> QED BY <1>7, <2>1
<1>11. CASE \E c \in Cv, m \in Mutex : Wait(t, c, m)
  <2>1. PICK c \in Cv, m \in Mutex : Wait(t, c, m)
    BY <1>11
  <2>2. mutex_queue[m] # <<>> => Head(mutex_queue[m]) \in Thread
    BY PopQueue DEF TypeOK
  <2>3. ReadyAfterRelease(m) \in Seq(Thread) /\ SwapHelper(ReadyAfterRelease(m))
    BY <2>1, <2>2 DEF Wait, ReadyAfterRelease, TypeOK
  <2> QED BY <1>7, <2>3
<1>12. CASE Finish(t)
  <2>1. ReadyAfterExit(t) \in Seq(Thread)
    BY DEF ReadyAfterExit, TypeOK
  <2>2. ReadyAfterExit(t) # <<>> => Head(ReadyAfterExit(t)) \in Thread
    BY <2>1, PopQueue
  <2>3. switch_to' # NoThread
    BY <1>12, <2>2, HostAssumption, NoThreadAssumption DEF Finish
  <2> QED BY <2>3 DEF Preemptible, InUser
<1> QED BY <1>4, <1>5, <1>6, <1>8, <1>9, <1>10, <1>11, <1>12 DEF UserStep

\* What is resumed returns with interrupts enabled, or queues and switches again.
LEMMA LibraryStepKeepsPreemptible ==
  ASSUME IInv, NEW t \in Thread, LibraryStep(t)
  PROVE  Preemptible'
<1> USE DEF IInv
<1>1. CASE Return(t) \/ ReturnWithMutex(t) \/ WakeFree(t)
  BY <1>1 DEF Return, ReturnWithMutex, WakeFree, Take, ReturnToUser, Preemptible
<1>2. CASE WakeBusy(t)
  <2>1. ready_queue \in Seq(Thread) /\ SwapHelper(ready_queue)
    BY <1>2 DEF WakeBusy, Queue, TypeOK
  <2> QED BY <2>1, SwapHelperLeaves DEF Preemptible, InUser
<1> QED BY <1>1, <1>2 DEF LibraryStep

\* However a thread left the program, with interrupts disabled, it gets back only
\* after they have been enabled, so the timer can take the CPU from any thread
\* that runs: the paths back are the beginning of starter and the ends of yield,
\* join, lock and wait, also after switches through other threads or cpu::cpu
\* (thread_lib.cpp:38, 183, 197, mutex.cpp:31, cv.cpp:52).
THEOREM AlwaysPreemptible == Spec => []Preemptible
<1>1. Init => Preemptible
  BY HostAssumption DEF Init, Preemptible, InUser
<1>2. IInv /\ StackInv /\ Preemptible /\ [Next]_vars => Preemptible'
  <2> SUFFICES ASSUME IInv, StackInv, Preemptible, [Next]_vars PROVE Preemptible'
    OBVIOUS
  <2>1. CASE \E t \in Thread : UserStep(t) \/ LibraryStep(t)
    BY <2>1, UserStepKeepsPreemptible, LibraryStepKeepsPreemptible
  <2>2. CASE HostStep
    BY <2>2, HostAssumption, NoThreadAssumption
       DEF HostStep, HostDispatch, HostResumed, HostSuspend, Preemptible, InUser
  <2>3. CASE Switch
    BY <2>3 DEF Switch, Preemptible, InUser, StackInv, SwitchInv, Resumable
  <2>4. CASE UNCHANGED vars
    BY <2>4 DEF vars, cpuVars, Preemptible, InUser
  <2> QED BY <2>1, <2>2, <2>3, <2>4 DEF Next, Suspended
<1> QED BY <1>1, <1>2, StackHolds, PTL DEF Spec

-----------------------------------------------------------------------------
(* Where a thread is *)

\* Only the active thread executes the program, and a suspended thread that
\* is not about to resume waits somewhere.  ThreadLibProofs' invariant says
\* that it does not wait in two places.
HomeInv ==
  \A t \in Thread : /\ pc[t] = "user" => context = t /\ switch_to = NoThread
                    /\ pc[t] \in Resumable /\ t # Active => InSomeQueue(t)

-----------------------------------------------------------------------------
(* Counting the places of a thread *)

\* The queue at each place.
LEMMA QueuesByPlace ==
  /\ QueueAt(<<"ready", Host>>) = ready_queue
  /\ \A u \in Thread : QueueAt(<<"join", u>>) = join_queue[u]
  /\ \A m \in Mutex : QueueAt(<<"mutex", m>>) = mutex_queue[m]
  /\ \A c \in Cv : QueueAt(<<"cv", c>>) = cv_queue[c]
  BY DEF QueueAt

\* Every place is that of the ready queue or of the queue of a thread, a mutex or a cv.
LEMMA PlacesByQueue ==
  ASSUME NEW k \in Places
  PROVE  \/ k = <<"ready", Host>>
         \/ \E u \in Thread : k = <<"join", u>>
         \/ \E m \in Mutex : k = <<"mutex", m>>
         \/ \E c \in Cv : k = <<"cv", c>>
  BY DEF Places

\* A thread is in some queue if it is in the queue at some place.
LEMMA InQueueAtPlace ==
  ASSUME NEW t
  PROVE  InSomeQueue(t) <=> \E k \in Places : t \in Range(QueueAt(k))
<1>1. /\ <<"ready", Host>> \in Places
      /\ \A u \in Thread : <<"join", u>> \in Places
      /\ \A m \in Mutex : <<"mutex", m>> \in Places
      /\ \A c \in Cv : <<"cv", c>> \in Places
  BY DEF Places
<1>2. ASSUME InSomeQueue(t) PROVE \E k \in Places : t \in Range(QueueAt(k))
  <2>1. CASE t \in Range(ready_queue)
    BY <1>1, <2>1, QueuesByPlace
  <2>2. CASE \E u \in Thread : t \in Range(join_queue[u])
    BY <1>1, <2>2, QueuesByPlace
  <2>3. CASE \E m \in Mutex : t \in Range(mutex_queue[m])
    BY <1>1, <2>3, QueuesByPlace
  <2>4. CASE \E c \in Cv : t \in Range(cv_queue[c])
    BY <1>1, <2>4, QueuesByPlace
  <2> QED BY <1>2, <2>1, <2>2, <2>3, <2>4 DEF InSomeQueue
<1>3. ASSUME NEW k \in Places, t \in Range(QueueAt(k)) PROVE InSomeQueue(t)
  BY <1>3, QueuesByPlace, PlacesByQueue DEF InSomeQueue
<1> QED BY <1>2, <1>3

\* Nobody is in two queues.
LEMMA OneQueue ==
  ASSUME IInv, NEW t \in Thread, NEW k \in Places, NEW l \in Places,
         t \in Range(QueueAt(k)), t \in Range(QueueAt(l))
  PROVE  k = l
<1>1. WaitInv /\ (t \in Range(ready_queue) => Unqueued(t))
  BY DEF IInv, RunInv
<1>2. ASSUME NEW h \in Places, t \in Range(QueueAt(h))
      PROVE  \/ h = <<"ready", Host>> /\ Unqueued(t)
             \/ h = <<"join", arg[t]>> /\ pc[t] = "join"
             \/ h = <<"mutex", arg[t]>> /\ pc[t] \in {"lock", "relock"}
             \/ \E c \in Cv : h = <<"cv", c>> /\ pc[t] = "wait" /\ t \in Range(cv_queue[c])
  <2>1. CASE h = <<"ready", Host>>
    BY <1>1, <1>2, <2>1, QueuesByPlace
  <2>2. CASE \E u \in Thread : h = <<"join", u>>
    BY <1>1, <1>2, <2>2, QueuesByPlace DEF WaitInv, JoinWait
  <2>3. CASE \E m \in Mutex : h = <<"mutex", m>>
    BY <1>1, <1>2, <2>3, QueuesByPlace DEF WaitInv, MutexWait
  <2>4. CASE \E c \in Cv : h = <<"cv", c>>
    BY <1>1, <1>2, <2>4, QueuesByPlace DEF WaitInv, CvWait
  <2> QED BY <2>1, <2>2, <2>3, <2>4, PlacesByQueue
<1>3. ASSUME NEW h \in Places, t \in Range(QueueAt(h)), Unqueued(t)
      PROVE  h = <<"ready", Host>>
  BY <1>3, QueuesByPlace, PlacesByQueue DEF Unqueued
<1>4. \A c, d \in Cv : t \in Range(cv_queue[c]) /\ t \in Range(cv_queue[d]) => c = d
  BY <1>1 DEF WaitInv, CvApart
<1>5. CASE Unqueued(t)
  BY <1>3, <1>5
<1>6. CASE ~Unqueued(t)
  BY <1>2, <1>4, <1>6
<1> QED BY <1>5, <1>6

\* No queue has a thread twice.
LEMMA QueuesInjective ==
  ASSUME IInv, NEW k \in Places
  PROVE  IsInjective(QueueAt(k))
  BY QueuesByPlace, PlacesByQueue DEF IInv, RunInv, WaitInv, JoinWait, MutexWait, CvWait

\* A thread in no queue has no position.
LEMMA NoPosition ==
  ASSUME NEW t \in Thread, ~InSomeQueue(t)
  PROVE  Cardinality(Positions(t)) = 0
<1>1. \A k \in Places : t \notin Range(QueueAt(k))
  BY InQueueAtPlace
<1>2. \A k \in Places : Entries(t, k) = {}
  BY <1>1 DEF Entries, Range
<1>3. Positions(t) = {}
  BY <1>2 DEF Positions
<1> QED BY <1>3, FS_EmptySet

\* A thread in a queue has exactly one position.
LEMMA OnePosition ==
  ASSUME IInv, NEW t \in Thread, InSomeQueue(t)
  PROVE  Cardinality(Positions(t)) = 1
<1>1. PICK k \in Places : t \in Range(QueueAt(k))
  BY InQueueAtPlace
<1>2. \A l \in Places \ {k} : t \notin Range(QueueAt(l))
  BY <1>1, OneQueue
<1>3. \A l \in Places \ {k} : Entries(t, l) = {}
  BY <1>2 DEF Entries, Range
<1>4. PICK i \in DOMAIN QueueAt(k) : QueueAt(k)[i] = t
  BY <1>1 DEF Range
<1>5. \A j \in DOMAIN QueueAt(k) : QueueAt(k)[j] = t => j = i
  BY <1>4, QueuesInjective DEF IsInjective
<1>6. Entries(t, k) = {<<k, i>>}
  BY <1>4, <1>5 DEF Entries
<1>7. \A p \in Positions(t) : p = <<k, i>>
  BY <1>3, <1>6 DEF Positions
<1>8. <<k, i>> \in Positions(t)
  BY <1>6 DEF Positions
<1>9. Positions(t) = {<<k, i>>}
  BY <1>7, <1>8
<1> QED BY <1>9, FS_Singleton

-----------------------------------------------------------------------------
(* Every step keeps every thread in its place, or moves it to another *)

\* What a step of the caller t has to leave behind.
LEMMA CallerStepKeepsHomes ==
  ASSUME HomeInv, NEW t \in Thread, context = t, switch_to = NoThread,
         \A x \in Thread \ {t} : pc'[x] = pc[x],
         \A x \in Thread : InSomeQueue(x) => InSomeQueue(x)' \/ x = Active',
         \/ context' = t /\ switch_to' = NoThread
         \/ pc'[t] # "user" /\ (InSomeQueue(t)' \/ t = Active')
         \/ pc'[t] = "done"
  PROVE  HomeInv'
<1>1. Active = t /\ "user" \notin Resumable /\ "done" \notin Resumable
  BY DEF Active, Resumable
<1> SUFFICES ASSUME NEW x \in Thread
             PROVE  /\ pc'[x] = "user" => context' = x /\ switch_to' = NoThread
                    /\ pc'[x] \in Resumable /\ x # Active' => InSomeQueue(x)'
  BY DEF HomeInv
<1>2. CASE x # t
  <2>1. pc[x] # "user"
    BY <1>2 DEF HomeInv
  <2>2. pc[x] \in Resumable => InSomeQueue(x)
    BY <1>1, <1>2 DEF HomeInv
  <2> QED BY <1>2, <2>1, <2>2
<1>3. CASE x = t
  <2>1. context' = t /\ switch_to' = NoThread => Active' = t
    BY DEF Active
  <2> QED BY <1>1, <1>3, <2>1
<1> QED BY <1>2, <1>3

\* swap_helper takes from the ready queue only the thread it switches to.
LEMMA SwapHelperKeepsReady ==
  ASSUME NEW rq \in Seq(Thread), SwapHelper(rq)
  PROVE  \A x \in Range(rq) : x \in Range(ready_queue') \/ x = Active'
<1>1. CASE rq # <<>>
  <2>1. Range(rq) = {Head(rq)} \cup Range(Tail(rq)) /\ Head(rq) \in Thread
    BY <1>1, PopQueue
  <2>2. ready_queue' = Tail(rq) /\ Active' = Head(rq)
    BY <1>1, <2>1 DEF SwapHelper, Active
  <2> QED BY <2>1, <2>2
<1>2. CASE rq = <<>>
  BY <1>2, EmptyQueue
<1> QED BY <1>1, <1>2

\* A release moves the first waiter to the ready queue.
LEMMA ReleaseKeepsQueued ==
  ASSUME TypeOK, NEW m \in Mutex, Release(m)
  PROVE  /\ ReadyAfterRelease(m) \in Seq(Thread)
         /\ Range(ready_queue) \subseteq Range(ReadyAfterRelease(m))
         /\ \A n \in Mutex : Range(mutex_queue[n]) \subseteq
                               Range(mutex_queue'[n]) \cup Range(ReadyAfterRelease(m))
<1>1. mutex_queue' = [mutex_queue EXCEPT ![m] = QueueAfterRelease(m)]
  BY DEF Release
<1>2. CASE mutex_queue[m] # <<>>
  <2>1. /\ Head(mutex_queue[m]) \in Thread
        /\ Range(mutex_queue[m]) = {Head(mutex_queue[m])} \cup Range(Tail(mutex_queue[m]))
    BY <1>2, PopQueue DEF TypeOK
  <2>2. /\ ReadyAfterRelease(m) \in Seq(Thread)
        /\ Range(ReadyAfterRelease(m)) = Range(ready_queue) \cup {Head(mutex_queue[m])}
    BY <1>2, <2>1, PushQueue DEF ReadyAfterRelease, TypeOK
  <2>3. mutex_queue'[m] = Tail(mutex_queue[m]) /\ \A n \in Mutex \ {m} : mutex_queue'[n] = mutex_queue[n]
    BY <1>1, <1>2 DEF QueueAfterRelease, TypeOK
  <2> QED BY <2>1, <2>2, <2>3
<1>3. CASE mutex_queue[m] = <<>>
  <2>1. mutex_queue' = mutex_queue /\ ReadyAfterRelease(m) = ready_queue
    BY <1>1, <1>3 DEF QueueAfterRelease, ReadyAfterRelease, TypeOK
  <2> QED BY <2>1 DEF TypeOK
<1> QED BY <1>2, <1>3

\* A call that queues for a busy mutex.
LEMMA QueueKeepsHomes ==
  ASSUME TypeOK, HomeInv, NEW t \in Thread, NEW m \in Mutex, NEW at \in {"lock", "relock"},
         context = t, switch_to = NoThread, running_thread = t, Queue(t, m, at)
  PROVE  HomeInv'
<1>1. /\ pc' = [pc EXCEPT ![t] = at] /\ mutex_queue' = [mutex_queue EXCEPT ![m] = Append(@, t)]
      /\ SwapHelper(ready_queue) /\ join_queue' = join_queue /\ cv_queue' = cv_queue
  BY DEF Queue
<1>2. \A x \in Range(ready_queue) : x \in Range(ready_queue') \/ x = Active'
  BY <1>1, SwapHelperKeepsReady DEF TypeOK
<1>3. Range(Append(mutex_queue[m], t)) = Range(mutex_queue[m]) \cup {t}
  BY PushQueue DEF TypeOK
<1>4. t \in Range(mutex_queue'[m]) /\ \A n \in Mutex : Range(mutex_queue[n]) \subseteq Range(mutex_queue'[n])
  BY <1>1, <1>3 DEF TypeOK
<1>5. \A x \in Thread : InSomeQueue(x) => InSomeQueue(x)' \/ x = Active'
  BY <1>1, <1>2, <1>4 DEF InSomeQueue
<1>6. InSomeQueue(t)' /\ pc'[t] # "user"
  BY <1>1, <1>4 DEF InSomeQueue, TypeOK
<1>7. \A x \in Thread \ {t} : pc'[x] = pc[x]
  BY <1>1 DEF TypeOK
<1> QED BY <1>5, <1>6, <1>7, CallerStepKeepsHomes

\* Every call of a running thread.
LEMMA UserStepKeepsHomes ==
  ASSUME IInv, HomeInv, NEW t \in Thread, UserStep(t)
  PROVE  HomeInv'
<1> USE DEF IInv
<1>1. CASE ReturnAtOnce /\ UNCHANGED programVars
  BY <1>1 DEF ReturnAtOnce, programVars, queues, HomeInv, InSomeQueue, Active
<1>2. ASSUME InUser(t)
      PROVE  context = t /\ switch_to = NoThread /\ running_thread = t /\ Active = t
  BY <1>2, CallerFacts DEF InUser
<1>3. ASSUME NEW u \in Thread, Create(t, u)
      PROVE  HomeInv'
  <2>1. /\ pc' = [pc EXCEPT ![u] = "start"] /\ ready_queue' = Append(ready_queue, u)
        /\ UNCHANGED <<join_queue, mutex_queue, cv_queue, context, switch_to>>
    BY <1>3 DEF Create, ReturnAtOnce
  <2>2. Range(ready_queue') = Range(ready_queue) \cup {u}
    BY <2>1, PushQueue DEF TypeOK
  <2>3. \A x \in Thread : InSomeQueue(x)' <=> x = u \/ InSomeQueue(x)
    BY <2>1, <2>2 DEF InSomeQueue
  <2>4. \A x \in Thread : pc'[x] = IF x = u THEN "start" ELSE pc[x]
    BY <2>1 DEF TypeOK
  <2>5. Active' = Active
    BY <2>1 DEF Active
  <2> QED BY <2>1, <2>3, <2>4, <2>5 DEF HomeInv
<1>4. ASSUME NEW u \in Thread, Join(t, u)
      PROVE  HomeInv'
  <2>1. /\ InUser(t) /\ pc' = [pc EXCEPT ![t] = "join"] /\ SwapHelper(ready_queue)
        /\ join_queue' = [join_queue EXCEPT ![u] = Append(@, t)]
        /\ mutex_queue' = mutex_queue /\ cv_queue' = cv_queue
    BY <1>2, <1>4 DEF Join
  <2>2. Range(Append(join_queue[u], t)) = Range(join_queue[u]) \cup {t}
    BY PushQueue DEF TypeOK
  <2>3. t \in Range(join_queue'[u]) /\ \A v \in Thread : Range(join_queue[v]) \subseteq Range(join_queue'[v])
    BY <2>1, <2>2 DEF TypeOK
  <2>4. \A x \in Range(ready_queue) : x \in Range(ready_queue') \/ x = Active'
    BY <2>1, SwapHelperKeepsReady DEF TypeOK
  <2>5. \A x \in Thread : InSomeQueue(x) => InSomeQueue(x)' \/ x = Active'
    BY <2>1, <2>3, <2>4 DEF InSomeQueue
  <2>6. InSomeQueue(t)' /\ pc'[t] # "user" /\ \A x \in Thread \ {t} : pc'[x] = pc[x]
    BY <2>1, <2>3 DEF InSomeQueue, TypeOK
  <2> QED BY <1>2, <2>1, <2>5, <2>6, CallerStepKeepsHomes
<1>5. ASSUME NEW m \in Mutex, LockFree(t, m)
      PROVE  HomeInv'
  <2>1. /\ InUser(t) /\ pc' = [pc EXCEPT ![t] = "user"]
        /\ UNCHANGED <<ready_queue, join_queue, mutex_queue, cv_queue, context, switch_to>>
    BY <1>5 DEF LockFree, Take, ReturnToUser, queues
  <2>2. \A x \in Thread : InSomeQueue(x) => InSomeQueue(x)'
    BY <2>1 DEF InSomeQueue
  <2> QED BY <1>2, <2>1, <2>2, CallerStepKeepsHomes DEF TypeOK
<1>6. ASSUME NEW m \in Mutex, LockBusy(t, m)
      PROVE  HomeInv'
  <2>1. InUser(t) /\ Queue(t, m, "lock")
    BY <1>6 DEF LockBusy
  <2> QED BY <1>2, <2>1, QueueKeepsHomes
<1>7. ASSUME NEW m \in Mutex, Unlock(t, m)
      PROVE  HomeInv'
  <2>1. /\ InUser(t) /\ Release(m) /\ ready_queue' = ReadyAfterRelease(m)
        /\ UNCHANGED <<pc, join_queue, cv_queue, context, switch_to>>
    BY <1>7 DEF Unlock, ReturnAtOnce
  <2>2. \A x \in Thread : InSomeQueue(x) => InSomeQueue(x)'
    BY <2>1, ReleaseKeepsQueued DEF InSomeQueue
  <2> QED BY <1>2, <2>1, <2>2, CallerStepKeepsHomes
<1>8. ASSUME NEW c \in Cv, NEW m \in Mutex, Wait(t, c, m)
      PROVE  HomeInv'
  <2>1. /\ InUser(t) /\ pc' = [pc EXCEPT ![t] = "wait"] /\ Release(m)
        /\ SwapHelper(ReadyAfterRelease(m)) /\ join_queue' = join_queue
        /\ cv_queue' = [cv_queue EXCEPT ![c] = Append(@, t)]
    BY <1>2, <1>8 DEF Wait
  <2>2. Range(Append(cv_queue[c], t)) = Range(cv_queue[c]) \cup {t}
    BY PushQueue DEF TypeOK
  <2>3. t \in Range(cv_queue'[c]) /\ \A d \in Cv : Range(cv_queue[d]) \subseteq Range(cv_queue'[d])
    BY <2>1, <2>2 DEF TypeOK
  <2>4. \A x \in Range(ReadyAfterRelease(m)) : x \in Range(ready_queue') \/ x = Active'
    BY <2>1, SwapHelperKeepsReady, ReleaseKeepsQueued
  <2>5. \A x \in Thread : InSomeQueue(x) => InSomeQueue(x)' \/ x = Active'
    BY <2>1, <2>3, <2>4, ReleaseKeepsQueued DEF InSomeQueue
  <2>6. InSomeQueue(t)' /\ pc'[t] # "user" /\ \A x \in Thread \ {t} : pc'[x] = pc[x]
    BY <2>1, <2>3 DEF InSomeQueue, TypeOK
  <2> QED BY <1>2, <2>1, <2>5, <2>6, CallerStepKeepsHomes
<1>9. ASSUME NEW c \in Cv, Signal(t, c) \/ Broadcast(t, c)
      PROVE  HomeInv'
  <2>1. InUser(t) /\ UNCHANGED <<join_queue, mutex_queue, pc, context, switch_to>>
    BY <1>9 DEF Signal, Broadcast, ReturnAtOnce
  <2>2. /\ Range(ready_queue) \subseteq Range(ready_queue')
        /\ Range(cv_queue[c]) \subseteq Range(cv_queue'[c]) \cup Range(ready_queue')
        /\ \A d \in Cv \ {c} : cv_queue'[d] = cv_queue[d]
    <3>1. CASE Signal(t, c)
      <4>1. /\ Head(cv_queue[c]) \in Thread
            /\ Range(cv_queue[c]) = {Head(cv_queue[c])} \cup Range(Tail(cv_queue[c]))
        BY <3>1, PopQueue DEF Signal, TypeOK
      <4>2. Range(ready_queue') = Range(ready_queue) \cup {Head(cv_queue[c])}
        BY <3>1, <4>1, PushQueue DEF Signal, TypeOK
      <4>3. cv_queue'[c] = Tail(cv_queue[c]) /\ \A d \in Cv \ {c} : cv_queue'[d] = cv_queue[d]
        BY <3>1 DEF Signal, TypeOK
      <4> QED BY <4>1, <4>2, <4>3
    <3>2. CASE Broadcast(t, c)
      <4>1. Range(ready_queue') = Range(ready_queue) \cup Range(cv_queue[c])
        BY <3>2, DrainQueue DEF Broadcast, TypeOK
      <4>2. \A d \in Cv \ {c} : cv_queue'[d] = cv_queue[d]
        BY <3>2 DEF Broadcast, TypeOK
      <4> QED BY <4>1, <4>2
    <3> QED BY <1>9, <3>1, <3>2
  <2>3. \A x \in Thread : InSomeQueue(x) => InSomeQueue(x)'
    BY <2>1, <2>2 DEF InSomeQueue
  <2> QED BY <1>2, <2>1, <2>3, CallerStepKeepsHomes
<1>10. CASE Yield(t)
  <2>1. /\ InUser(t) /\ pc' = [pc EXCEPT ![t] = "yield"] /\ SwapHelper(Append(ready_queue, t))
        /\ UNCHANGED <<join_queue, mutex_queue, cv_queue>>
    BY <1>2, <1>10 DEF Yield, ReadyAfterYield
  <2>2. /\ Append(ready_queue, t) \in Seq(Thread)
        /\ Range(Append(ready_queue, t)) = Range(ready_queue) \cup {t}
    BY PushQueue DEF TypeOK
  <2>3. \A x \in Range(ready_queue) \cup {t} : x \in Range(ready_queue') \/ x = Active'
    BY <2>1, <2>2, SwapHelperKeepsReady
  <2>4. \A x \in Thread : InSomeQueue(x) => InSomeQueue(x)' \/ x = Active'
    BY <2>1, <2>3 DEF InSomeQueue
  <2>5. /\ InSomeQueue(t)' \/ t = Active'
        /\ pc'[t] # "user" /\ \A x \in Thread \ {t} : pc'[x] = pc[x]
    BY <2>1, <2>3 DEF InSomeQueue, TypeOK
  <2> QED BY <1>2, <2>1, <2>4, <2>5, CallerStepKeepsHomes
<1>11. CASE Finish(t)
  <2> DEFINE rq == ReadyAfterExit(t)
  <2>1. /\ InUser(t) /\ pc' = [pc EXCEPT ![t] = "done"] /\ join_queue' = [join_queue EXCEPT ![t] = <<>>]
        /\ UNCHANGED <<mutex_queue, cv_queue>>
        /\ rq # <<>> => ready_queue' = Tail(rq) /\ switch_to' = Head(rq)
        /\ rq = <<>> => ready_queue' = rq
    BY <1>11 DEF Finish
  <2>2. rq \in Seq(Thread) /\ Range(rq) = Range(ready_queue) \cup Range(join_queue[t])
    BY DrainQueue DEF ReadyAfterExit, TypeOK
  <2>3. \A x \in Range(rq) : x \in Range(ready_queue') \/ x = Active'
    <3>1. CASE rq = <<>>
      BY <2>1, <3>1, EmptyQueue
    <3>2. CASE rq # <<>>
      <4>1. Range(rq) = {Head(rq)} \cup Range(Tail(rq)) /\ Head(rq) \in Thread
        BY <2>2, <3>2, PopQueue
      <4>2. ready_queue' = Tail(rq) /\ Active' = Head(rq)
        BY <2>1, <3>2, <4>1 DEF Active
      <4> QED BY <4>1, <4>2
    <3> QED BY <3>1, <3>2
  <2> HIDE DEF rq
  <2>4. \A u \in Thread \ {t} : join_queue'[u] = join_queue[u]
    BY <2>1 DEF TypeOK
  <2>5. \A x \in Thread : InSomeQueue(x) => InSomeQueue(x)' \/ x = Active'
    BY <2>1, <2>2, <2>3, <2>4 DEF InSomeQueue
  <2>6. pc'[t] = "done" /\ \A x \in Thread \ {t} : pc'[x] = pc[x]
    BY <2>1 DEF TypeOK
  <2> QED BY <1>2, <2>1, <2>5, <2>6, CallerStepKeepsHomes
<1> QED BY <1>1, <1>3, <1>4, <1>5, <1>6, <1>7, <1>8, <1>9, <1>10, <1>11
        DEF UserStep, JoinExpired, NotOwner, NobodyWaits, YieldAlone

\* Every return from a call that was suspended.
LEMMA LibraryStepKeepsHomes ==
  ASSUME IInv, HomeInv, NEW t \in Thread, LibraryStep(t)
  PROVE  HomeInv'
<1> USE DEF IInv
<1>1. context = t /\ switch_to = NoThread /\ running_thread = t
  BY CallerFacts DEF LibraryStep, Return, ReturnWithMutex, WakeFree, WakeBusy, Resumed
<1>2. CASE Return(t) \/ ReturnWithMutex(t) \/ WakeFree(t)
  <2>1. /\ pc' = [pc EXCEPT ![t] = "user"]
        /\ UNCHANGED <<ready_queue, join_queue, mutex_queue, cv_queue, context, switch_to>>
    BY <1>2 DEF Return, ReturnWithMutex, WakeFree, Take, ReturnToUser, queues
  <2>2. \A x \in Thread : InSomeQueue(x) => InSomeQueue(x)'
    BY <2>1 DEF InSomeQueue
  <2> QED BY <1>1, <2>1, <2>2, CallerStepKeepsHomes DEF TypeOK
<1>3. CASE WakeBusy(t)
  <2>1. Queue(t, arg[t], "relock") /\ pc[t] = "wait"
    BY <1>3 DEF WakeBusy, Resumed
  <2>2. arg[t] \in Mutex
    BY <2>1 DEF GrantInv
  <2> QED BY <1>1, <2>1, <2>2, QueueKeepsHomes
<1> QED BY <1>2, <1>3 DEF LibraryStep

\* The steps of the CPU between two threads.
LEMMA HostStepKeepsHomes ==
  ASSUME IInv, HomeInv, HostStep \/ Switch
  PROVE  HomeInv'
<1> USE DEF IInv
<1>1. pc' = pc /\ \A x \in Thread : pc[x] # "user"
  BY DEF HostStep, HostDispatch, HostResumed, HostSuspend, Switch, HomeInv
<1>2. CASE HostDispatch
  <2>1. /\ Head(ready_queue) \in Thread
        /\ Range(ready_queue) = {Head(ready_queue)} \cup Range(Tail(ready_queue))
    BY <1>2, PopQueue DEF HostDispatch, TypeOK
  <2>2. /\ ready_queue' = Tail(ready_queue) /\ Active' = Head(ready_queue)
        /\ UNCHANGED <<join_queue, mutex_queue, cv_queue>>
        /\ Active = Host
    BY <1>2, <2>1 DEF HostDispatch, Active
  <2>3. \A x \in Thread : InSomeQueue(x) => InSomeQueue(x)' \/ x = Active'
    BY <2>1, <2>2 DEF InSomeQueue
  <2> QED BY <1>1, <2>2, <2>3 DEF HomeInv
<1>3. CASE HostResumed \/ HostSuspend \/ Switch
  <2>1. Active' = Active /\ UNCHANGED <<ready_queue, join_queue, mutex_queue, cv_queue>>
    BY <1>3 DEF HostResumed, HostSuspend, Switch, queues, Active
  <2> QED BY <1>1, <2>1 DEF HomeInv, InSomeQueue
<1> QED BY <1>2, <1>3 DEF HostStep

\* Every suspended thread that is not about to resume waits in a queue.
LEMMA HomesHold == Spec => [](IInv /\ HomeInv)
<1>1. Init => IInv /\ HomeInv
  <2> SUFFICES ASSUME Init PROVE HomeInv
    BY InitEstablishesIInv
  <2>1. Main \in Range(ready_queue)
    BY DEF Init, Range
  <2>2. \A t \in Thread : pc[t] = IF t = Main THEN "start" ELSE "unborn"
    BY DEF Init
  <2> QED BY <2>1, <2>2 DEF HomeInv, InSomeQueue, Resumable
<1>2. IInv /\ HomeInv /\ [Next]_vars => HomeInv'
  <2> SUFFICES ASSUME IInv, HomeInv, [Next]_vars PROVE HomeInv'
    OBVIOUS
  <2>1. CASE \E t \in Thread : UserStep(t) \/ LibraryStep(t)
    BY <2>1, UserStepKeepsHomes, LibraryStepKeepsHomes
  <2>2. CASE HostStep \/ Switch
    BY <2>2, HostStepKeepsHomes
  <2>3. CASE UNCHANGED vars
    BY <2>3 DEF vars, queues, cpuVars, HomeInv, InSomeQueue, Active
  <2> QED BY <2>1, <2>2, <2>3 DEF Next, Suspended
<1> QED BY <1>1, <1>2, NextKeepsIInv, PTL DEF Spec

\* A thread that is created and not finished has the CPU or stands at exactly
\* one place of one queue, at every step of every call (thread_lib.cpp:34-198).
THEOREM NoThreadLost == Spec => []OneHome
<1>1. ASSUME IInv, HomeInv
      PROVE  OneHome
  <2> SUFFICES ASSUME NEW t \in Thread
               PROVE  Cardinality(Positions(t)) =
                        IF pc[t] \in {"unborn", "done"} \/ t = Active THEN 0 ELSE 1
    BY DEF OneHome
  <2>1. CASE pc[t] \in {"unborn", "done"} \/ t = Active
    <3>1. ASSUME pc[t] \in {"unborn", "done"} PROVE ~InSomeQueue(t)
      BY <1>1, <3>1 DEF IInv, RunInv, WaitInv, JoinWait, MutexWait, CvWait, InSomeQueue, Resumable
    <3>2. ASSUME t = Active PROVE ~InSomeQueue(t)
      BY <1>1, <3>2 DEF IInv, RunInv, Unqueued, InSomeQueue
    <3> QED BY <2>1, <3>1, <3>2, NoPosition
  <2>2. CASE pc[t] \notin {"unborn", "done"} /\ t # Active
    <3>1. pc[t] \in Resumable
      <4>1. pc[t] \in Phase
        BY <1>1 DEF IInv, TypeOK
      <4>2. pc[t] # "user"
        BY <1>1, <2>2 DEF HomeInv, Active
      <4> QED BY <2>2, <4>1, <4>2 DEF Phase
    <3>2. InSomeQueue(t)
      BY <1>1, <2>2, <3>1 DEF HomeInv
    <3> QED BY <1>1, <2>2, <3>2, OnePosition
  <2> QED BY <2>1, <2>2
<1> QED BY <1>1, HomesHold, PTL

-----------------------------------------------------------------------------
(* The monitors.  What the refinement mapping needs beyond the earlier        *)
(* invariants.                                                               *)

\* Only a thread blocked in a library call is about anything.
ArgInv ==
  \A t \in Thread : pc[t] \in {"unborn", "start", "yield", "user", "done"} => arg[t] = NoThread

\* A join that is in no queue any more was released by the end of its thread.
JoinInv ==
  \A t \in Thread : pc[t] = "join" =>
    /\ arg[t] \in Thread
    /\ t \in Range(join_queue[arg[t]]) \/ pc[arg[t]] = "done"

\* A thread that a mutex is being handed to does not have it yet.
HandOverInv == \A t \in Thread, m \in Mutex : Awaited(t, m) => m \notin held[t]

\* A busy mutex is marked with a thread.
BusyInv == \A m \in Mutex : status[m] => occupy_thread[m] \in Thread

PromiseInv == ArgInv /\ JoinInv /\ HandOverInv /\ BusyInv

\* A step in which only t changes its call, t begins or ends no hand-over,
\* and the joiners of other threads stay where they are.
LEMMA OwnStepKeepsPromise ==
  ASSUME PromiseInv, NEW t \in Thread,
         \A x \in Thread \ {t} : pc'[x] = pc[x] /\ arg'[x] = arg[x] /\ held'[x] = held[x],
         \A m \in Mutex : Range(mutex_queue'[m]) \cup {t} = Range(mutex_queue[m]) \cup {t},
         \A u \in Thread \ {t} : Range(join_queue[u]) \subseteq Range(join_queue'[u]),
         Range(join_queue[t]) \subseteq Range(join_queue'[t]) \/ pc'[t] = "done",
         pc[t] # "done",
         pc'[t] \in {"unborn", "start", "yield", "user", "done"} => arg'[t] = NoThread,
         pc'[t] = "join" => arg'[t] \in Thread /\ t \in Range(join_queue'[arg'[t]]),
         \A m \in Mutex : ~Awaited(t, m)',
         BusyInv'
  PROVE  PromiseInv'
<1>1. ArgInv'
  BY DEF PromiseInv, ArgInv
<1>2. JoinInv'
  <2> SUFFICES ASSUME NEW x \in Thread, pc'[x] = "join"
               PROVE  /\ arg'[x] \in Thread
                      /\ x \in Range(join_queue'[arg'[x]]) \/ pc'[arg'[x]] = "done"
    BY DEF JoinInv
  <2>1. CASE x = t
    BY <2>1
  <2>2. CASE x # t
    <3>1. /\ arg'[x] = arg[x] /\ arg[x] \in Thread
          /\ x \in Range(join_queue[arg[x]]) \/ pc[arg[x]] = "done"
      BY <2>2 DEF PromiseInv, JoinInv
    <3>2. CASE arg[x] = t
      BY <3>1, <3>2
    <3>3. CASE arg[x] # t
      BY <3>1, <3>3
    <3> QED BY <3>2, <3>3
  <2> QED BY <2>1, <2>2
<1>3. HandOverInv'
  <2> SUFFICES ASSUME NEW x \in Thread, NEW m \in Mutex, Awaited(x, m)'
               PROVE  m \notin held'[x]
    BY DEF HandOverInv
  <2>1. x # t
    OBVIOUS
  <2>2. Awaited(x, m)
    BY <2>1 DEF Awaited
  <2> QED BY <2>1, <2>2 DEF PromiseInv, HandOverInv
<1> QED BY <1>1, <1>2, <1>3 DEF PromiseInv

\* A release hands the mutex to a thread that does not have it: the releaser
\* had it, and is not in its queue.
LEMMA ReleaseKeepsPromise ==
  ASSUME IInv, PromiseInv, NEW t \in Thread, NEW m \in Mutex,
         InUser(t), CheckOwnership(m), Release(m),
         held' = [held EXCEPT ![t] = @ \ {m}],
         \A x \in Thread \ {t} : pc'[x] = pc[x] /\ arg'[x] = arg[x],
         \/ pc'[t] = "user" /\ arg'[t] = NoThread
         \/ pc'[t] = "wait",
         join_queue' = join_queue
  PROVE  PromiseInv'
<1> USE DEF IInv
<1>1. /\ running_thread = t /\ occupy_thread[m] = t /\ status[m] /\ Unqueued(t)
      /\ pc[t] = "user"
  BY CallerFacts DEF InUser, CheckOwnership
<1>2. /\ status' = [status EXCEPT ![m] = StatusAfterRelease(m)]
      /\ occupy_thread' = [occupy_thread EXCEPT ![m] = OwnerAfterRelease(m)]
      /\ mutex_queue' = [mutex_queue EXCEPT ![m] = QueueAfterRelease(m)]
  BY DEF Release
<1>3. ArgInv' /\ JoinInv'
  <2>1. ArgInv'
    BY DEF PromiseInv, ArgInv
  <2>2. JoinInv'
    <3> SUFFICES ASSUME NEW x \in Thread, pc'[x] = "join"
                 PROVE  /\ arg'[x] \in Thread
                        /\ x \in Range(join_queue'[arg'[x]]) \/ pc'[arg'[x]] = "done"
      BY DEF JoinInv
    <3>1. /\ x # t /\ arg'[x] = arg[x] /\ arg[x] \in Thread
          /\ x \in Range(join_queue[arg[x]]) \/ pc[arg[x]] = "done"
      BY DEF PromiseInv, JoinInv
    <3>2. pc[arg[x]] = "done" => pc'[arg[x]] = "done"
      BY <1>1, <3>1
    <3> QED BY <3>1, <3>2
  <2> QED BY <2>1, <2>2
<1>4. HandOverInv'
  <2> SUFFICES ASSUME NEW x \in Thread, NEW n \in Mutex, Awaited(x, n)'
               PROVE  n \notin held'[x]
    BY DEF HandOverInv
  <2>1. x # t /\ held'[x] = held[x]
    BY DEF Awaited, TypeOK
  <2>2. CASE n = m
    BY <1>1, <2>1, <2>2 DEF MutualExclusion
  <2>3. CASE n # m
    <3>1. mutex_queue'[n] = mutex_queue[n]
      BY <1>2, <2>3 DEF TypeOK
    <3>2. Awaited(x, n)
      BY <2>1, <3>1 DEF Awaited
    <3> QED BY <2>1, <3>2 DEF PromiseInv, HandOverInv
  <2> QED BY <2>2, <2>3
<1>5. BusyInv'
  <2>1. mutex_queue[m] # <<>> => Head(mutex_queue[m]) \in Thread
    BY PopQueue DEF TypeOK
  <2> QED BY <1>2, <2>1 DEF PromiseInv, BusyInv, TypeOK, StatusAfterRelease, OwnerAfterRelease
<1> QED BY <1>3, <1>4, <1>5 DEF PromiseInv

\* mutex::lock of a mutex that is free.
LEMMA TakeKeepsPromise ==
  ASSUME IInv, PromiseInv, NEW t \in Thread, NEW m \in Mutex,
         context = t, switch_to = NoThread, pc[t] \in {"user", "wait"}, Take(t, m),
         mutex_queue' = mutex_queue, join_queue' = join_queue
  PROVE  PromiseInv'
<1>1. /\ running_thread = t
      /\ status' = [status EXCEPT ![m] = TRUE]
      /\ occupy_thread' = [occupy_thread EXCEPT ![m] = t]
      /\ held' = [held EXCEPT ![t] = @ \cup {m}]
      /\ pc' = [pc EXCEPT ![t] = "user"]
      /\ arg' = [arg EXCEPT ![t] = NoThread]
  BY CallerFacts DEF Take, ReturnToUser
<1>2. /\ \A x \in Thread \ {t} : pc'[x] = pc[x] /\ arg'[x] = arg[x] /\ held'[x] = held[x]
      /\ pc'[t] = "user" /\ arg'[t] = NoThread
  BY <1>1 DEF IInv, TypeOK
<1>3. \A n \in Mutex : ~Awaited(t, n)'
  BY <1>2 DEF Awaited
<1>4. BusyInv'
  BY <1>1 DEF PromiseInv, BusyInv, IInv, TypeOK
<1> QED BY <1>2, <1>3, <1>4, OwnStepKeepsPromise

\* mutex::lock of a mutex that is busy, at once or at the end of cv::wait.
LEMMA QueueKeepsPromise ==
  ASSUME IInv, PromiseInv, NEW t \in Thread, NEW m \in Mutex, NEW at \in {"lock", "relock"},
         context = t, switch_to = NoThread, pc[t] \in {"user", "wait"}, Queue(t, m, at)
  PROVE  PromiseInv'
<1>1. /\ running_thread = t
      /\ mutex_queue' = [mutex_queue EXCEPT ![m] = Append(@, t)]
      /\ pc' = [pc EXCEPT ![t] = at]
      /\ arg' = [arg EXCEPT ![t] = m]
      /\ UNCHANGED <<join_queue, status, occupy_thread, held>>
  BY CallerFacts DEF Queue, mutexes
<1>2. /\ \A x \in Thread \ {t} : pc'[x] = pc[x] /\ arg'[x] = arg[x] /\ held'[x] = held[x]
      /\ pc'[t] = at /\ arg'[t] = m
  BY <1>1 DEF IInv, TypeOK
<1>3. Range(mutex_queue'[m]) = Range(mutex_queue[m]) \cup {t}
  BY <1>1, PushQueue DEF IInv, TypeOK
<1>4. \A n \in Mutex : Range(mutex_queue'[n]) \cup {t} = Range(mutex_queue[n]) \cup {t}
  <2> SUFFICES ASSUME NEW n \in Mutex
               PROVE  Range(mutex_queue'[n]) \cup {t} = Range(mutex_queue[n]) \cup {t}
    OBVIOUS
  <2>1. CASE n = m
    BY <1>3, <2>1
  <2>2. CASE n # m
    BY <1>1, <2>2 DEF IInv, TypeOK
  <2> QED BY <2>1, <2>2
<1>5. \A n \in Mutex : ~Awaited(t, n)'
  BY <1>2, <1>3 DEF Awaited
<1>6. BusyInv'
  BY <1>1 DEF PromiseInv, BusyInv
<1> QED BY <1>1, <1>2, <1>4, <1>5, <1>6, OwnStepKeepsPromise

\* Every call of a running thread.
LEMMA UserStepKeepsPromise ==
  ASSUME IInv, PromiseInv, NEW t \in Thread, UserStep(t)
  PROVE  PromiseInv'
<1> USE DEF IInv
<1>1. CASE ReturnAtOnce /\ UNCHANGED programVars
  BY <1>1 DEF programVars, queues, mutexes, PromiseInv, ArgInv, JoinInv, HandOverInv, BusyInv, Awaited
<1>2. ASSUME NEW u \in Thread, Create(t, u)
      PROVE  PromiseInv'
  <2>1. /\ pc[u] = "unborn" /\ pc' = [pc EXCEPT ![u] = "start"] /\ arg' = arg
        /\ UNCHANGED <<join_queue, mutex_queue, status, occupy_thread, held>>
    BY <1>2 DEF Create, mutexes
  <2>2. /\ \A x \in Thread \ {u} : pc'[x] = pc[x]
        /\ pc'[u] = "start" /\ arg'[u] = NoThread
    BY <2>1 DEF TypeOK, PromiseInv, ArgInv
  <2>3. BusyInv' /\ \A n \in Mutex : ~Awaited(u, n)'
    BY <2>1, <2>2 DEF PromiseInv, BusyInv, Awaited
  <2> QED BY <2>1, <2>2, <2>3, OwnStepKeepsPromise
<1>3. ASSUME NEW u \in Thread, Join(t, u)
      PROVE  PromiseInv'
  <2>1. /\ pc[t] = "user" /\ running_thread = t
        /\ pc' = [pc EXCEPT ![t] = "join"] /\ arg' = [arg EXCEPT ![t] = u]
        /\ join_queue' = [join_queue EXCEPT ![u] = Append(@, t)]
        /\ UNCHANGED <<mutex_queue, status, occupy_thread, held>>
    BY <1>3, CallerFacts DEF Join, InUser, mutexes
  <2>2. /\ \A x \in Thread \ {t} : pc'[x] = pc[x] /\ arg'[x] = arg[x]
        /\ pc'[t] = "join" /\ arg'[t] = u
    BY <2>1 DEF TypeOK
  <2>3. Range(join_queue'[u]) = Range(join_queue[u]) \cup {t}
    BY <2>1, PushQueue DEF TypeOK
  <2>4. \A v \in Thread : Range(join_queue[v]) \subseteq Range(join_queue'[v])
    <3> SUFFICES ASSUME NEW v \in Thread
                 PROVE  Range(join_queue[v]) \subseteq Range(join_queue'[v])
      OBVIOUS
    <3>1. CASE v = u
      BY <2>3, <3>1
    <3>2. CASE v # u
      BY <2>1, <3>2 DEF TypeOK
    <3> QED BY <3>1, <3>2
  <2>5. BusyInv' /\ \A n \in Mutex : ~Awaited(t, n)'
    BY <2>1, <2>2 DEF PromiseInv, BusyInv, Awaited
  <2> QED BY <2>1, <2>2, <2>3, <2>4, <2>5, OwnStepKeepsPromise
<1>4. ASSUME NEW m \in Mutex, LockFree(t, m)
      PROVE  PromiseInv'
  BY <1>4, TakeKeepsPromise DEF LockFree, InUser, queues
<1>5. ASSUME NEW m \in Mutex, LockBusy(t, m)
      PROVE  PromiseInv'
  BY <1>5, QueueKeepsPromise DEF LockBusy, InUser
<1>6. ASSUME NEW m \in Mutex, Unlock(t, m)
      PROVE  PromiseInv'
  <2>1. /\ InUser(t) /\ CheckOwnership(m) /\ Release(m) /\ pc[t] = "user"
        /\ held' = [held EXCEPT ![t] = @ \ {m}]
        /\ join_queue' = join_queue /\ pc' = pc /\ arg' = arg
    BY <1>6 DEF Unlock, InUser
  <2>2. arg[t] = NoThread
    BY <2>1 DEF PromiseInv, ArgInv
  <2> QED BY <2>1, <2>2, ReleaseKeepsPromise
<1>7. ASSUME NEW c \in Cv, NEW m \in Mutex, Wait(t, c, m)
      PROVE  PromiseInv'
  <2>1. /\ InUser(t) /\ CheckOwnership(m) /\ Release(m)
        /\ held' = [held EXCEPT ![t] = @ \ {m}] /\ join_queue' = join_queue
        /\ pc' = [pc EXCEPT ![t] = "wait"] /\ arg' = [arg EXCEPT ![t] = m]
    BY <1>7 DEF Wait
  <2>2. /\ \A x \in Thread \ {t} : pc'[x] = pc[x] /\ arg'[x] = arg[x]
        /\ pc'[t] = "wait"
    BY <2>1 DEF TypeOK
  <2> QED BY <2>1, <2>2, ReleaseKeepsPromise
<1>8. CASE \E c \in Cv : Signal(t, c) \/ Broadcast(t, c)
  BY <1>8 DEF Signal, Broadcast, mutexes, PromiseInv, ArgInv, JoinInv, HandOverInv, BusyInv,
              Awaited
<1>9. CASE Yield(t)
  <2>1. /\ pc[t] = "user" /\ pc' = [pc EXCEPT ![t] = "yield"] /\ arg' = arg
        /\ UNCHANGED <<join_queue, mutex_queue, status, occupy_thread, held>>
    BY <1>9 DEF Yield, InUser, mutexes
  <2>2. /\ \A x \in Thread \ {t} : pc'[x] = pc[x]
        /\ pc'[t] = "yield" /\ arg'[t] = NoThread
    BY <2>1 DEF TypeOK, PromiseInv, ArgInv
  <2>3. BusyInv' /\ \A n \in Mutex : ~Awaited(t, n)'
    BY <2>1, <2>2 DEF PromiseInv, BusyInv, Awaited
  <2> QED BY <2>1, <2>2, <2>3, OwnStepKeepsPromise
<1>10. CASE Finish(t)
  <2>1. /\ pc[t] = "user" /\ pc' = [pc EXCEPT ![t] = "done"] /\ arg' = arg
        /\ join_queue' = [join_queue EXCEPT ![t] = <<>>]
        /\ UNCHANGED <<mutex_queue, status, occupy_thread, held>>
    BY <1>10 DEF Finish, InUser, mutexes
  <2>2. /\ \A x \in Thread \ {t} : pc'[x] = pc[x] /\ join_queue'[x] = join_queue[x]
        /\ pc'[t] = "done" /\ arg'[t] = NoThread
    BY <2>1 DEF TypeOK, PromiseInv, ArgInv
  <2>3. BusyInv' /\ \A n \in Mutex : ~Awaited(t, n)'
    BY <2>1, <2>2 DEF PromiseInv, BusyInv, Awaited
  <2> QED BY <2>1, <2>2, <2>3, OwnStepKeepsPromise
<1> QED BY <1>1, <1>2, <1>3, <1>4, <1>5, <1>6, <1>7, <1>8, <1>9, <1>10
        DEF UserStep, JoinExpired, NotOwner, NobodyWaits, YieldAlone

\* Every return from a call that was suspended.
LEMMA LibraryStepKeepsPromise ==
  ASSUME IInv, PromiseInv, NEW t \in Thread, LibraryStep(t)
  PROVE  PromiseInv'
<1> USE DEF IInv
<1>1. CASE Return(t) \/ ReturnWithMutex(t)
  <2>1. /\ pc[t] # "done" /\ pc' = [pc EXCEPT ![t] = "user"]
        /\ arg' = [arg EXCEPT ![t] = NoThread]
        /\ UNCHANGED <<join_queue, mutex_queue, status, occupy_thread>>
        /\ held' = held \/ held' = [held EXCEPT ![t] = @ \cup {arg[t]}]
    BY <1>1 DEF Return, ReturnWithMutex, ReturnToUser, Resumed, queues, mutexes
  <2>2. /\ \A x \in Thread \ {t} : pc'[x] = pc[x] /\ arg'[x] = arg[x] /\ held'[x] = held[x]
        /\ pc'[t] = "user" /\ arg'[t] = NoThread
    BY <2>1 DEF TypeOK
  <2>3. BusyInv' /\ \A n \in Mutex : ~Awaited(t, n)'
    BY <2>1, <2>2 DEF PromiseInv, BusyInv, Awaited
  <2> QED BY <2>1, <2>2, <2>3, OwnStepKeepsPromise
<1>2. ASSUME Resumed(t, "wait")
      PROVE  context = t /\ switch_to = NoThread /\ pc[t] = "wait" /\ arg[t] \in Mutex
  BY <1>2 DEF Resumed, GrantInv
<1>3. CASE WakeFree(t)
  BY <1>2, <1>3, TakeKeepsPromise DEF WakeFree, queues
<1>4. CASE WakeBusy(t)
  BY <1>2, <1>4, QueueKeepsPromise DEF WakeBusy
<1> QED BY <1>1, <1>3, <1>4 DEF LibraryStep

\* What is promised to a thread stays promised until it runs.
LEMMA PromiseHolds == Spec => []PromiseInv
<1>1. Init => PromiseInv
  BY DEF Init, PromiseInv, ArgInv, JoinInv, HandOverInv, BusyInv, Awaited
<1>2. IInv /\ PromiseInv /\ [Next]_vars => PromiseInv'
  <2> SUFFICES ASSUME IInv, PromiseInv, [Next]_vars PROVE PromiseInv'
    OBVIOUS
  <2>1. CASE \E t \in Thread : UserStep(t) \/ LibraryStep(t)
    BY <2>1, UserStepKeepsPromise, LibraryStepKeepsPromise
  <2>2. CASE HostStep \/ Switch \/ UNCHANGED vars
    BY <2>2 DEF HostStep, HostDispatch, HostResumed, HostSuspend, Switch, vars, queues, mutexes,
                PromiseInv, ArgInv, JoinInv, HandOverInv, BusyInv, Awaited
  <2> QED BY <2>1, <2>2 DEF Next, Suspended
<1> QED BY <1>1, <1>2, InvariantHolds, PTL DEF Spec

-----------------------------------------------------------------------------
(* The mapped state *)

\* A list with its first element put back, or with one put in front.
LEMMA InFront ==
  ASSUME NEW S, NEW q \in Seq(S), NEW e \in S
  PROVE  /\ q # <<>> => <<Head(q)>> \o Tail(q) = q
         /\ <<e>> \o q # <<>>
         /\ Head(<<e>> \o q) = e
         /\ Tail(<<e>> \o q) = q
         /\ \A f \in S : <<e>> \o Append(q, f) = Append(<<e>> \o q, f)
  OBVIOUS

\* What the mapping shows of a thread: the call it is in.
MapPhase ==
  /\ PromisedPhase = [t \in Thread |-> PromisedPhase[t]]
  /\ \A t \in Thread :
       /\ pc[t] \in {"start", "yield", "user"} => PromisedPhase[t] = "active"
       /\ pc[t] \in {"lock", "relock"} => PromisedPhase[t] = "inline"
       /\ pc[t] = "join" => PromisedPhase[t] = "joining"
       /\ pc[t] = "wait" /\ (\E c \in Cv : t \in Range(cv_queue[c])) => PromisedPhase[t] = "waiting"
       /\ pc[t] = "wait" /\ (\A c \in Cv : t \notin Range(cv_queue[c])) => PromisedPhase[t] = "woken"
       /\ pc[t] = "unborn" => PromisedPhase[t] = "unborn"
       /\ pc[t] = "done" => PromisedPhase[t] = "done"

\* What it shows of a mutex: who has it, and who is next.
MapInv ==
  /\ MapPhase
  /\ PromisedHolder = [m \in Mutex |-> PromisedHolder[m]]
  /\ PromisedLine = [m \in Mutex |-> PromisedLine[m]]
  /\ \A m \in Mutex, t \in Thread : m \in held[t] => PromisedHolder[m] = t
  /\ \A m \in Mutex : (\A t \in Thread : m \notin held[t]) => PromisedHolder[m] = NoThread
  /\ \A m \in Mutex, t \in Thread : Awaited(t, m) => PromisedLine[m] = <<t>> \o mutex_queue[m]
  /\ \A m \in Mutex : (\A t \in Thread : ~Awaited(t, m)) => PromisedLine[m] = mutex_queue[m]

\* A mutex is held by, or promised to, one thread at most: the mapped state is well-defined.
LEMMA MapFacts == IInv => MapInv
<1> SUFFICES ASSUME IInv PROVE MapInv
  OBVIOUS
<1>1. \A m \in Mutex, t, u \in Thread : m \in held[t] /\ m \in held[u] => t = u
  BY DEF IInv, MutualExclusion
<1>2. \A m \in Mutex, t, u \in Thread : Awaited(t, m) /\ Awaited(u, m) => t = u
  BY DEF IInv, GrantInv, Awaited
<1>3. \A m \in Mutex, t \in Thread : t \in Granted(m) <=> Awaited(t, m)
  BY DEF Granted, Awaited
<1>4. ASSUME NEW m \in Mutex, NEW t \in Thread, m \in held[t]
      PROVE  PromisedHolder[m] = t
  BY <1>1, <1>4 DEF PromisedHolder
<1>5. ASSUME NEW m \in Mutex, NEW t \in Thread, Awaited(t, m)
      PROVE  PromisedLine[m] = <<t>> \o mutex_queue[m]
  <2>1. Granted(m) = {t}
    BY <1>2, <1>3, <1>5 DEF Granted
  <2>2. (CHOOSE x \in {t} : TRUE) = t
    OBVIOUS
  <2> QED BY <2>1, <2>2 DEF PromisedLine
<1>6. ASSUME NEW m \in Mutex, \A t \in Thread : ~Awaited(t, m)
      PROVE  PromisedLine[m] = mutex_queue[m]
  <2>1. Granted(m) = {}
    BY <1>3, <1>6 DEF Granted
  <2> QED BY <2>1 DEF PromisedLine
<1>7. MapPhase
  BY DEF MapPhase, PromisedPhase
<1>8. /\ PromisedHolder = [m \in Mutex |-> PromisedHolder[m]]
      /\ PromisedLine = [m \in Mutex |-> PromisedLine[m]]
      /\ \A m \in Mutex : (\A t \in Thread : m \notin held[t]) => PromisedHolder[m] = NoThread
  BY DEF PromisedHolder, PromisedLine
<1> QED BY <1>4, <1>5, <1>6, <1>7, <1>8 DEF MapInv

\* A step that leaves a mutex's owner, or its queue and hand-over, alone.
LEMMA SameHolder ==
  ASSUME MapInv, MapInv', NEW m \in Mutex,
         \A x \in Thread : m \in held'[x] <=> m \in held[x]
  PROVE  PromisedHolder'[m] = PromisedHolder[m]
<1>1. CASE \E x \in Thread : m \in held[x]
  BY <1>1 DEF MapInv
<1>2. CASE ~ \E x \in Thread : m \in held[x]
  BY <1>2 DEF MapInv
<1> QED BY <1>1, <1>2

\* A step that changes no queue and no promise leaves the line of a mutex as it was.
LEMMA SameLine ==
  ASSUME MapInv, MapInv', NEW m \in Mutex, mutex_queue'[m] = mutex_queue[m],
         \A x \in Thread : Awaited(x, m)' <=> Awaited(x, m)
  PROVE  PromisedLine'[m] = PromisedLine[m]
<1>1. ASSUME NEW x \in Thread, Awaited(x, m)
      PROVE  PromisedLine'[m] = PromisedLine[m]
  <2>1. PromisedLine[m] = <<x>> \o mutex_queue[m]
    BY <1>1 DEF MapInv
  <2>2. PromisedLine'[m] = <<x>> \o mutex_queue'[m]
    BY <1>1 DEF MapInv
  <2> QED BY <2>1, <2>2
<1>2. CASE ~ \E x \in Thread : Awaited(x, m)
  BY <1>2 DEF MapInv
<1> QED BY <1>1, <1>2

\* A step of one thread, as the program sees it.
LEMMA OnePhase ==
  ASSUME NEW t \in Thread, \A x \in Thread \ {t} : pc'[x] = pc[x],
         \A x \in Thread \ {t} : (\E c \in Cv : x \in Range(cv_queue'[c]))
                                   <=> (\E c \in Cv : x \in Range(cv_queue[c]))
  PROVE  PromisedPhase' = [PromisedPhase EXCEPT ![t] = PromisedPhase'[t]]
<1>1. /\ PromisedPhase' = [x \in Thread |-> PromisedPhase'[x]]
      /\ PromisedPhase = [x \in Thread |-> PromisedPhase[x]]
  BY DEF PromisedPhase
<1>2. ASSUME NEW x \in Thread \ {t}
      PROVE  PromisedPhase'[x] = PromisedPhase[x]
  <2>1. pc'[x] = pc[x]
    OBVIOUS
  <2>2. (\E c \in Cv : x \in Range(cv_queue'[c])) <=> (\E c \in Cv : x \in Range(cv_queue[c]))
    OBVIOUS
  <2>3. QED
    BY <2>1, <2>2 DEF PromisedPhase
<1> HIDE DEF PromisedPhase
<1>3. QED
  BY <1>1, <1>2

\* A step that is invisible to the program.
Invisible == UNCHANGED <<PromisedHolder, PromisedLine, cv_queue, PromisedPhase, arg>>

Implements == Promise!MNext \/ Invisible

\* Calls that leave mutexes and hand-overs alone.
LEMMA SameMutexes ==
  ASSUME MapInv, MapInv', held' = held, mutex_queue' = mutex_queue,
         \A x \in Thread, m \in Mutex : Awaited(x, m)' <=> Awaited(x, m)
  PROVE  UNCHANGED <<PromisedHolder, PromisedLine>>
<1>1. PromisedHolder' = PromisedHolder
  BY SameHolder DEF MapInv
<1>2. PromisedLine' = PromisedLine
  BY SameLine DEF MapInv
<1> QED BY <1>1, <1>2

-----------------------------------------------------------------------------
(* The calls, each as a step of the monitors *)

PInv == IInv /\ OwnerInv /\ StackInv /\ PromiseInv /\ MapInv

\* The mapping agrees with status about which mutexes are free, and shows a
\* held mutex's queue as its line.
LEMMA MutexSeen ==
  ASSUME PInv, NEW m \in Mutex
  PROVE  /\ ~status[m] => PromisedHolder[m] = NoThread /\ PromisedLine[m] = <<>>
         /\ status[m] => PromisedHolder[m] # NoThread \/ PromisedLine[m] # <<>>
         /\ \A t \in Thread : m \in held[t] => \A x \in Thread : ~Awaited(x, m)
         /\ \A t \in Thread : Awaited(t, m) => PromisedHolder[m] = NoThread
<1> USE DEF PInv
<1>1. ASSUME ~status[m]
      PROVE  PromisedHolder[m] = NoThread /\ PromisedLine[m] = <<>>
  <2>1. \A t \in Thread : m \notin held[t]
    BY <1>1 DEF IInv, MutualExclusion
  <2>2. \A t \in Thread : ~Awaited(t, m)
    BY <1>1 DEF IInv, GrantInv, Awaited
  <2>3. mutex_queue[m] = <<>>
    BY <1>1 DEF StackInv, BlockedForCause
  <2> QED BY <2>1, <2>2, <2>3 DEF MapInv
<1>2. ASSUME status[m]
      PROVE  PromisedHolder[m] # NoThread \/ PromisedLine[m] # <<>>
  <2>1. PICK t \in Thread : occupy_thread[m] = t
    BY <1>2 DEF PromiseInv, BusyInv
  <2>2. CASE m \in held[t]
    BY <2>2 DEF MapInv
  <2>3. CASE Awaited(t, m)
    <3>1. PromisedLine[m] = <<t>> \o mutex_queue[m] /\ mutex_queue[m] \in Seq(Thread)
      BY <2>3 DEF MapInv, IInv, TypeOK
    <3> QED BY <3>1, InFront
  <2> QED BY <1>2, <2>1, <2>2, <2>3 DEF OwnerInv
<1>3. ASSUME NEW t \in Thread, m \in held[t], NEW x \in Thread, Awaited(x, m)
      PROVE  FALSE
  <2>1. occupy_thread[m] = t /\ occupy_thread[m] = x
    BY <1>3 DEF IInv, MutualExclusion, GrantInv, Awaited
  <2> QED BY <1>3, <2>1 DEF PromiseInv, HandOverInv
<1>4. ASSUME NEW t \in Thread, Awaited(t, m)
      PROVE  PromisedHolder[m] = NoThread
  BY <1>3, <1>4 DEF MapInv
<1> QED BY <1>1, <1>2, <1>3, <1>4

\* A step of t, which is in no lock before or after it.
LEMMA SameHandOvers ==
  ASSUME NEW t \in Thread, pc[t] \notin {"lock", "relock"}, pc'[t] \notin {"lock", "relock"},
         \A x \in Thread \ {t} : pc'[x] = pc[x] /\ arg'[x] = arg[x],
         NEW m \in Mutex, mutex_queue'[m] = mutex_queue[m]
  PROVE  \A x \in Thread : Awaited(x, m)' <=> Awaited(x, m)
  BY DEF Awaited

\* A step of t that only changes its call.
LEMMA OwnStepSeen ==
  ASSUME PInv, MapInv', NEW t \in Thread,
         pc[t] \notin {"lock", "relock"}, pc'[t] \notin {"lock", "relock"},
         \A x \in Thread \ {t} : pc'[x] = pc[x] /\ arg'[x] = arg[x],
         UNCHANGED <<held, mutex_queue, cv_queue>>
  PROVE  /\ UNCHANGED <<PromisedHolder, PromisedLine, cv_queue>>
         /\ PromisedPhase' = [PromisedPhase EXCEPT ![t] = PromisedPhase'[t]]
<1>1. \A m \in Mutex, x \in Thread : Awaited(x, m)' <=> Awaited(x, m)
  BY SameHandOvers
<1>2. UNCHANGED <<PromisedHolder, PromisedLine>>
  BY <1>1, SameMutexes DEF PInv
<1>3. PromisedPhase' = [PromisedPhase EXCEPT ![t] = PromisedPhase'[t]]
  BY OnePhase
<1> QED BY <1>2, <1>3

\* lock on a free mutex, and wait that wakes to a free mutex: MTake.
LEMMA TakeImplements ==
  ASSUME PInv, MapInv', NEW t \in Thread, NEW m \in Mutex,
         context = t, switch_to = NoThread,
         pc[t] = "user" \/ (pc[t] = "wait" /\ arg[t] = m),
         Take(t, m), mutex_queue' = mutex_queue, cv_queue' = cv_queue
  PROVE  Promise!MTake(t, m)
<1> USE DEF PInv
<1>1. /\ held' = [held EXCEPT ![t] = @ \cup {m}]
      /\ pc' = [pc EXCEPT ![t] = "user"]
      /\ arg' = [arg EXCEPT ![t] = NoThread]
      /\ ~status[m]
  BY DEF Take, ReturnToUser
<1>2. /\ \A x \in Thread \ {t} : pc'[x] = pc[x] /\ arg'[x] = arg[x] /\ held'[x] = held[x]
      /\ pc'[t] = "user" /\ held'[t] = held[t] \cup {m}
  BY <1>1 DEF IInv, TypeOK
<1>3. Unqueued(t)
  BY CallerFacts
<1>4. PromisedHolder[m] = NoThread /\ PromisedLine[m] = <<>>
  BY <1>1, MutexSeen
<1>5. \/ PromisedPhase[t] = "active"
      \/ PromisedPhase[t] = "woken" /\ arg[t] = m
  BY <1>3 DEF MapInv, MapPhase, Unqueued
<1>6. PromisedPhase' = [PromisedPhase EXCEPT ![t] = "active"]
  <2>1. PromisedPhase'[t] = "active"
    BY <1>2 DEF MapInv, MapPhase
  <2> QED BY <1>2, <2>1, OnePhase
<1>7. PromisedHolder' = [PromisedHolder EXCEPT ![m] = t]
  <2>1. PromisedHolder'[m] = t
    BY <1>2 DEF MapInv
  <2>2. \A n \in Mutex \ {m} : PromisedHolder'[n] = PromisedHolder[n]
    <3> SUFFICES ASSUME NEW n \in Mutex \ {m}
                 PROVE  PromisedHolder'[n] = PromisedHolder[n]
      OBVIOUS
    <3>1. \A x \in Thread : n \in held'[x] <=> n \in held[x]
      BY <1>2
    <3> QED BY <3>1, SameHolder
  <2> QED BY <2>1, <2>2 DEF MapInv
<1>8. PromisedLine' = PromisedLine
  <2>1. \A n \in Mutex : PromisedLine'[n] = PromisedLine[n]
    BY <1>2, SameHandOvers, SameLine
  <2> QED BY <2>1 DEF MapInv
<1> QED BY <1>1, <1>4, <1>5, <1>6, <1>7, <1>8 DEF Promise!MTake, Promise!Becomes

\* lock on a busy mutex, and wait that wakes to a busy mutex: MQueue.
LEMMA QueueImplements ==
  ASSUME PInv, MapInv', NEW t \in Thread, NEW m \in Mutex, NEW at \in {"lock", "relock"},
         context = t, switch_to = NoThread,
         pc[t] = "user" \/ (pc[t] = "wait" /\ arg[t] = m),
         Queue(t, m, at)
  PROVE  Promise!MQueue(t, m)
<1> USE DEF PInv
<1>1. /\ running_thread = t /\ status[m] /\ Unqueued(t)
      /\ mutex_queue' = [mutex_queue EXCEPT ![m] = Append(@, t)]
      /\ pc' = [pc EXCEPT ![t] = at] /\ arg' = [arg EXCEPT ![t] = m]
      /\ UNCHANGED <<cv_queue, held>>
  BY CallerFacts DEF Queue
<1>2. /\ \A x \in Thread \ {t} : pc'[x] = pc[x] /\ arg'[x] = arg[x]
      /\ pc'[t] = at /\ arg'[t] = m
      /\ \A n \in Mutex \ {m} : mutex_queue'[n] = mutex_queue[n]
      /\ mutex_queue[m] \in Seq(Thread) /\ mutex_queue'[m] = Append(mutex_queue[m], t)
  BY <1>1 DEF IInv, TypeOK
<1>3. PromisedHolder[m] # NoThread \/ PromisedLine[m] # <<>>
  BY <1>1, MutexSeen
<1>4. \/ PromisedPhase[t] = "active"
      \/ PromisedPhase[t] = "woken" /\ arg[t] = m
  BY <1>1 DEF MapInv, MapPhase, Unqueued
<1>5. PromisedPhase' = [PromisedPhase EXCEPT ![t] = "inline"]
  <2>1. PromisedPhase'[t] = "inline"
    BY <1>2 DEF MapInv, MapPhase
  <2> QED BY <1>1, <1>2, <2>1, OnePhase
<1>6. PromisedHolder' = PromisedHolder
  BY <1>1, SameHolder DEF MapInv
<1>7. PromisedLine'[m] = Append(PromisedLine[m], t)
  <2>1. Range(mutex_queue'[m]) = Range(mutex_queue[m]) \cup {t}
    BY <1>2, PushQueue
  <2>2. \A x \in Thread : Awaited(x, m)' <=> Awaited(x, m)
    BY <1>2, <2>1 DEF Awaited
  <2>3. ASSUME NEW x \in Thread, Awaited(x, m)
        PROVE  PromisedLine'[m] = Append(PromisedLine[m], t)
    <3>1. PromisedLine[m] = <<x>> \o mutex_queue[m]
      BY <2>3 DEF MapInv
    <3>2. PromisedLine'[m] = <<x>> \o mutex_queue'[m]
      BY <2>2, <2>3 DEF MapInv
    <3> QED BY <1>2, <3>1, <3>2, InFront, SMTT(40)
  <2>4. CASE ~ \E x \in Thread : Awaited(x, m)
    BY <1>2, <2>2, <2>4 DEF MapInv
  <2> QED BY <2>3, <2>4
<1>8. \A n \in Mutex \ {m} : PromisedLine'[n] = PromisedLine[n]
  <2> SUFFICES ASSUME NEW n \in Mutex \ {m}
               PROVE  PromisedLine'[n] = PromisedLine[n]
    OBVIOUS
  <2>1. \A x \in Thread : Awaited(x, n)' <=> Awaited(x, n)
    BY <1>2 DEF Awaited
  <2> QED BY <1>2, <2>1, SameLine
<1>9. PromisedLine' = [PromisedLine EXCEPT ![m] = Append(@, t)]
  BY <1>7, <1>8 DEF MapInv
<1> QED BY <1>1, <1>3, <1>4, <1>5, <1>6, <1>9 DEF Promise!MQueue, Promise!Becomes

\* unlock, and the release in wait: the holder leaves, the line stays, with
\* its head now being handed the mutex.
LEMMA ReleaseSeen ==
  ASSUME PInv, MapInv', NEW t \in Thread, NEW m \in Mutex,
         InUser(t), CheckOwnership(m), Release(m), m \in held[t],
         held' = [held EXCEPT ![t] = @ \ {m}],
         \A x \in Thread \ {t} : pc'[x] = pc[x] /\ arg'[x] = arg[x],
         pc'[t] \in {"user", "wait"}
  PROVE  /\ PromisedHolder[m] = t
         /\ PromisedHolder' = [PromisedHolder EXCEPT ![m] = NoThread]
         /\ PromisedLine' = PromisedLine
<1> USE DEF PInv
<1>1. /\ pc[t] = "user" /\ Unqueued(t)
      /\ mutex_queue' = [mutex_queue EXCEPT ![m] = QueueAfterRelease(m)]
  BY CallerFacts DEF InUser, Release
<1>2. /\ mutex_queue'[m] = QueueAfterRelease(m)
      /\ \A n \in Mutex \ {m} : mutex_queue'[n] = mutex_queue[n]
      /\ mutex_queue[m] \in Seq(Thread)
  BY <1>1 DEF IInv, TypeOK
<1>3. /\ held'[t] = held[t] \ {m}
      /\ \A x \in Thread \ {t} : held'[x] = held[x] /\ m \notin held[x]
  BY DEF IInv, TypeOK, MutualExclusion
<1>4. PromisedHolder[m] = t
  BY DEF MapInv
<1>5. PromisedHolder' = [PromisedHolder EXCEPT ![m] = NoThread]
  <2>1. PromisedHolder'[m] = NoThread
    BY <1>3 DEF MapInv
  <2>2. \A n \in Mutex \ {m} : PromisedHolder'[n] = PromisedHolder[n]
    <3> SUFFICES ASSUME NEW n \in Mutex \ {m}
                 PROVE  PromisedHolder'[n] = PromisedHolder[n]
      OBVIOUS
    <3>1. \A x \in Thread : n \in held'[x] <=> n \in held[x]
      BY <1>3
    <3> QED BY <3>1, SameHolder
  <2> QED BY <2>1, <2>2 DEF MapInv
<1>6. PromisedLine'[m] = PromisedLine[m]
  <2>1. \A x \in Thread : ~Awaited(x, m)
    BY MutexSeen
  <2>2. PromisedLine[m] = mutex_queue[m]
    BY <2>1 DEF MapInv
  <2>3. CASE mutex_queue[m] = <<>>
    <3>1. mutex_queue'[m] = <<>>
      BY <1>2, <2>3 DEF QueueAfterRelease
    <3>2. \A x \in Thread : ~Awaited(x, m)'
      BY <1>1, <2>1, <2>3, <3>1 DEF Awaited
    <3> QED BY <2>2, <2>3, <3>1, <3>2 DEF MapInv
  <2>4. CASE mutex_queue[m] # <<>>
    <3>1. PICK h \in Thread : /\ h = Head(mutex_queue[m])
                              /\ h \in Range(mutex_queue[m])
                              /\ h \notin Range(Tail(mutex_queue[m]))
      BY <1>2, <2>4, PopQueue DEF IInv, WaitInv, MutexWait
    <3>2. mutex_queue'[m] = Tail(mutex_queue[m])
      BY <1>2, <2>4 DEF QueueAfterRelease
    <3>3. pc[h] \in {"lock", "relock"} /\ arg[h] = m /\ h # t
      BY <1>1, <3>1 DEF IInv, WaitInv, MutexWait
    <3>4. Awaited(h, m)'
      BY <3>1, <3>2, <3>3 DEF Awaited
    <3>5. PromisedLine'[m] = <<h>> \o mutex_queue'[m]
      BY <3>1, <3>4 DEF MapInv
    <3>6. <<h>> \o Tail(mutex_queue[m]) = mutex_queue[m]
      BY <1>2, <2>4, <3>1, InFront
    <3> QED BY <2>2, <3>2, <3>5, <3>6
  <2> QED BY <2>3, <2>4
<1>7. \A n \in Mutex \ {m} : PromisedLine'[n] = PromisedLine[n]
  <2> SUFFICES ASSUME NEW n \in Mutex \ {m}
               PROVE  PromisedLine'[n] = PromisedLine[n]
    OBVIOUS
  <2>1. \A x \in Thread : Awaited(x, n)' <=> Awaited(x, n)
    BY <1>1, <1>2 DEF Awaited
  <2> QED BY <1>2, <2>1, SameLine
<1> QED BY <1>4, <1>5, <1>6, <1>7 DEF MapInv

\* mutex::unlock releases the mutex for the monitor.
LEMMA UnlockImplements ==
  ASSUME PInv, MapInv', NEW t \in Thread, NEW m \in Mutex, Unlock(t, m)
  PROVE  Promise!MRelease(t, m)
<1>1. /\ InUser(t) /\ pc[t] = "user" /\ CheckOwnership(m) /\ Release(m)
      /\ held' = [held EXCEPT ![t] = @ \ {m}]
      /\ pc' = pc /\ arg' = arg /\ cv_queue' = cv_queue
  BY DEF Unlock, InUser
<1>2. m \in held[t]
  BY <1>1, CallerFacts DEF PInv, OwnerInv, CheckOwnership, InUser, Awaited
<1>3. /\ PromisedHolder[m] = t
      /\ PromisedHolder' = [PromisedHolder EXCEPT ![m] = NoThread]
      /\ PromisedLine' = PromisedLine
  BY <1>1, <1>2, ReleaseSeen
<1>4. PromisedPhase[t] = "active" /\ PromisedPhase' = PromisedPhase
  BY <1>1 DEF PInv, MapInv, MapPhase, PromisedPhase
<1> QED BY <1>1, <1>3, <1>4 DEF Promise!MRelease

\* cv::wait releases the mutex and joins the line of the cv in one step of the monitor.
LEMMA WaitImplements ==
  ASSUME PInv, MapInv', NEW t \in Thread, NEW c \in Cv, NEW m \in Mutex, Wait(t, c, m)
  PROVE  Promise!MWait(t, c, m)
<1>1. /\ InUser(t) /\ pc[t] = "user" /\ running_thread = t /\ CheckOwnership(m) /\ Release(m)
      /\ held' = [held EXCEPT ![t] = @ \ {m}]
      /\ pc' = [pc EXCEPT ![t] = "wait"] /\ arg' = [arg EXCEPT ![t] = m]
      /\ cv_queue' = [cv_queue EXCEPT ![c] = Append(@, t)]
  BY CallerFacts DEF PInv, Wait, InUser
<1>2. /\ \A x \in Thread \ {t} : pc'[x] = pc[x] /\ arg'[x] = arg[x]
      /\ pc'[t] = "wait"
  BY <1>1 DEF PInv, IInv, TypeOK
<1>3. m \in held[t]
  BY <1>1 DEF PInv, OwnerInv, CheckOwnership, Awaited
<1>4. /\ PromisedHolder[m] = t
      /\ PromisedHolder' = [PromisedHolder EXCEPT ![m] = NoThread]
      /\ PromisedLine' = PromisedLine
  BY <1>1, <1>2, <1>3, ReleaseSeen
<1>5. /\ Range(cv_queue'[c]) = Range(cv_queue[c]) \cup {t}
      /\ \A d \in Cv \ {c} : cv_queue'[d] = cv_queue[d]
  BY <1>1, PushQueue DEF PInv, IInv, TypeOK
<1>6. \A x \in Thread \ {t} : (\E d \in Cv : x \in Range(cv_queue'[d]))
                                <=> (\E d \in Cv : x \in Range(cv_queue[d]))
  BY <1>5
<1>7. PromisedPhase[t] = "active" /\ PromisedPhase'[t] = "waiting"
  BY <1>1, <1>2, <1>5 DEF PInv, MapInv, MapPhase
<1>8. PromisedPhase' = [PromisedPhase EXCEPT ![t] = "waiting"]
  BY <1>2, <1>6, <1>7, OnePhase
<1> QED BY <1>1, <1>4, <1>7, <1>8 DEF Promise!MWait, Promise!Becomes

\* The head of the line runs again, as the owner: MAcquire.
LEMMA ReturnWithMutexImplements ==
  ASSUME PInv, MapInv', NEW t \in Thread, ReturnWithMutex(t)
  PROVE  Promise!MAcquire(t, arg[t])
<1> USE DEF PInv
<1>1. /\ context = t /\ switch_to = NoThread /\ pc[t] \in {"lock", "relock"}
      /\ held' = [held EXCEPT ![t] = @ \cup {arg[t]}]
      /\ pc' = [pc EXCEPT ![t] = "user"] /\ arg' = [arg EXCEPT ![t] = NoThread]
      /\ UNCHANGED <<mutex_queue, cv_queue>>
  BY DEF ReturnWithMutex, ReturnToUser, Resumed, queues
<1>2. PICK m \in Mutex : m = arg[t] /\ Awaited(t, m) /\ mutex_queue[m] \in Seq(Thread)
  BY <1>1, CallerFacts DEF IInv, GrantInv, Awaited, Unqueued, TypeOK
<1>3. /\ \A x \in Thread \ {t} : pc'[x] = pc[x] /\ arg'[x] = arg[x] /\ held'[x] = held[x]
      /\ pc'[t] = "user" /\ held'[t] = held[t] \cup {m}
  BY <1>1, <1>2 DEF IInv, TypeOK
<1>4. PromisedHolder[m] = NoThread /\ PromisedLine[m] = <<t>> \o mutex_queue[m]
  BY <1>2, MutexSeen DEF MapInv
<1>5. /\ PromisedLine[m] # <<>> /\ Head(PromisedLine[m]) = t
      /\ Tail(PromisedLine[m]) = mutex_queue[m]
  BY <1>2, <1>4, InFront
<1>6. PromisedPhase' = [PromisedPhase EXCEPT ![t] = "active"]
  <2>1. PromisedPhase'[t] = "active"
    BY <1>3 DEF MapInv, MapPhase
  <2> QED BY <1>1, <1>3, <2>1, OnePhase
<1>7. PromisedHolder' = [PromisedHolder EXCEPT ![m] = t]
  <2>1. PromisedHolder'[m] = t
    BY <1>2, <1>3 DEF MapInv
  <2>2. \A n \in Mutex \ {m} : PromisedHolder'[n] = PromisedHolder[n]
    <3> SUFFICES ASSUME NEW n \in Mutex \ {m}
                 PROVE  PromisedHolder'[n] = PromisedHolder[n]
      OBVIOUS
    <3>1. \A x \in Thread : n \in held'[x] <=> n \in held[x]
      BY <1>3
    <3> QED BY <3>1, SameHolder
  <2> QED BY <2>1, <2>2 DEF MapInv
<1>8. PromisedLine'[m] = mutex_queue[m]
  <2>1. \A x \in Thread : Awaited(x, m) => x = t
    BY <1>2 DEF IInv, GrantInv, Awaited
  <2>2. \A x \in Thread : ~Awaited(x, m)'
    BY <1>1, <1>3, <2>1 DEF Awaited
  <2> QED BY <1>1, <1>2, <2>2 DEF MapInv
<1>9. \A n \in Mutex \ {m} : PromisedLine'[n] = PromisedLine[n]
  <2> SUFFICES ASSUME NEW n \in Mutex \ {m}
               PROVE  PromisedLine'[n] = PromisedLine[n]
    OBVIOUS
  <2>1. \A x \in Thread : Awaited(x, n)' <=> Awaited(x, n)
    BY <1>1, <1>2, <1>3 DEF Awaited
  <2> QED BY <1>1, <2>1, SameLine
<1>10. PromisedLine' = [PromisedLine EXCEPT ![m] = Tail(@)]
  BY <1>5, <1>8, <1>9 DEF MapInv
<1>11. Promise!MAcquire(t, m)
  BY <1>1, <1>4, <1>5, <1>6, <1>7, <1>10 DEF Promise!MAcquire, Promise!Becomes
<1> QED BY <1>2, <1>11

\* What is left of a queue after its first member, or all of them, went.
LEMMA AfterWake ==
  ASSUME NEW S, NEW q \in Seq(S), q # <<>>
  PROVE  /\ Len(q) \in Nat \ {0}
         /\ SubSeq(q, 1 + 1, Len(q)) = Tail(q)
         /\ SubSeq(q, Len(q) + 1, Len(q)) = <<>>
         /\ \A x : (\E i \in 1..1 : q[i] = x) <=> x = Head(q)
         /\ \A x : (\E i \in 1..Len(q) : q[i] = x) <=> x \in Range(q)
<1>1. /\ Len(q) \in Nat \ {0} /\ DOMAIN q = 1..Len(q) /\ Head(q) = q[1]
      /\ SubSeq(q, 1 + 1, Len(q)) = Tail(q)
      /\ SubSeq(q, Len(q) + 1, Len(q)) = <<>>
  OBVIOUS
<1>2. \A x : (\E i \in 1..1 : q[i] = x) <=> x = Head(q)
  BY <1>1
<1>3. \A x : (\E i \in 1..Len(q) : q[i] = x) <=> x \in Range(q)
  BY <1>1 DEF Range
<1> QED BY <1>1, <1>2, <1>3

\* signal and broadcast wake the first waiter, and all of them: MWake.
LEMMA WakeImplements ==
  ASSUME PInv, MapInv', NEW t \in Thread, NEW c \in Cv, Signal(t, c) \/ Broadcast(t, c)
  PROVE  Promise!MWake(c)
<1> USE DEF PInv
<1> DEFINE q == cv_queue[c]
<1>1. /\ pc[t] = "user" /\ q # <<>> /\ q \in Seq(Thread) /\ IsInjective(q)
      /\ UNCHANGED <<mutex_queue, pc, arg, held>>
  BY DEF Signal, Broadcast, InUser, IInv, TypeOK, WaitInv, CvWait
<1>2. /\ Range(q) = {Head(q)} \cup Range(Tail(q)) /\ Head(q) \notin Range(Tail(q))
      /\ \A x \in Range(q) : pc[x] = "wait"
      /\ \A d \in Cv \ {c}, x \in Range(q) : x \notin Range(cv_queue[d])
  BY <1>1, PopQueue DEF IInv, WaitInv, CvWait, CvApart
<1>3. \E u \in Thread : PromisedPhase[u] = "active"
  BY <1>1 DEF MapInv, MapPhase
<1>4. UNCHANGED <<PromisedHolder, PromisedLine>>
  <2>1. \A x \in Thread, m \in Mutex : Awaited(x, m)' <=> Awaited(x, m)
    BY <1>1 DEF Awaited
  <2> QED BY <1>1, <2>1, SameMutexes
<1>5. PICK k \in {1, Len(q)} :
        /\ cv_queue' = [cv_queue EXCEPT ![c] = SubSeq(q, k + 1, Len(q))]
        /\ \A x : (\E i \in 1..k : q[i] = x) => x \in Range(q)
        /\ \A x : x \in Range(SubSeq(q, k + 1, Len(q)))
                    <=> x \in Range(q) /\ ~ \E i \in 1..k : q[i] = x
  <2>1. CASE Signal(t, c)
    <3>1. cv_queue' = [cv_queue EXCEPT ![c] = Tail(q)]
      BY <2>1 DEF Signal
    <3>2. cv_queue' = [cv_queue EXCEPT ![c] = SubSeq(q, 1 + 1, Len(q))]
      BY <1>1, <3>1, AfterWake
    <3>3. \A x : x \in Range(SubSeq(q, 1 + 1, Len(q))) <=> x \in Range(q) /\ x # Head(q)
      BY <1>1, <1>2, AfterWake
    <3> QED BY <1>1, <1>2, <3>2, <3>3, AfterWake
  <2>2. CASE Broadcast(t, c)
    <3>1. cv_queue' = [cv_queue EXCEPT ![c] = <<>>]
      BY <2>2 DEF Broadcast
    <3>2. cv_queue' = [cv_queue EXCEPT ![c] = SubSeq(q, Len(q) + 1, Len(q))]
      BY <1>1, <3>1, AfterWake
    <3> QED BY <1>1, <3>2, AfterWake, EmptyQueue
  <2> QED BY <2>1, <2>2
<1>6. PromisedPhase' = [x \in Thread |-> IF \E i \in 1..k : q[i] = x THEN "woken"
                                         ELSE PromisedPhase[x]]
  <2>1. /\ cv_queue'[c] = SubSeq(q, k + 1, Len(q))
        /\ \A d \in Cv \ {c} : cv_queue'[d] = cv_queue[d]
    BY <1>5 DEF IInv, TypeOK
  <2>2. ASSUME NEW x \in Thread, \E i \in 1..k : q[i] = x
        PROVE  PromisedPhase'[x] = "woken"
    <3>1. x \in Range(q) /\ pc'[x] = "wait"
      BY <1>1, <1>2, <1>5, <2>2
    <3>2. \A d \in Cv : x \notin Range(cv_queue'[d])
      BY <1>2, <1>5, <2>1, <2>2, <3>1
    <3> QED BY <3>1, <3>2 DEF MapInv, MapPhase
  <2>3. ASSUME NEW x \in Thread, ~ \E i \in 1..k : q[i] = x
        PROVE  PromisedPhase'[x] = PromisedPhase[x]
    <3>1. (\E d \in Cv : x \in Range(cv_queue'[d])) <=> (\E d \in Cv : x \in Range(cv_queue[d]))
      BY <1>5, <2>1, <2>3
    <3> QED BY <1>1, <3>1 DEF PromisedPhase
  <2> QED BY <2>2, <2>3 DEF MapInv, MapPhase
<1>7. \E kk \in {1, Len(cv_queue[c])} :
        /\ PromisedPhase' = [x \in Thread |-> IF \E i \in 1..kk : cv_queue[c][i] = x
                                              THEN "woken" ELSE PromisedPhase[x]]
        /\ cv_queue' = [cv_queue EXCEPT ![c] = SubSeq(@, kk + 1, Len(@))]
  BY <1>5, <1>6
<1> QED BY <1>1, <1>3, <1>4, <1>7 DEF Promise!MWake

\* thread::thread, join, and the end of a thread and of a join.
LEMMA CreateImplements ==
  ASSUME PInv, MapInv', NEW t \in Thread, NEW u \in Thread, Create(t, u)
  PROVE  Promise!MCreate(t, u)
<1>1. /\ pc[t] = "user" /\ pc[u] = "unborn" /\ pc' = [pc EXCEPT ![u] = "start"]
      /\ UNCHANGED <<arg, held, mutex_queue, cv_queue>>
  BY DEF Create, InUser
<1>2. /\ \A x \in Thread \ {u} : pc'[x] = pc[x]
      /\ pc'[u] = "start" /\ arg[u] = NoThread
  BY <1>1 DEF PInv, IInv, TypeOK, PromiseInv, ArgInv
<1>3. /\ UNCHANGED <<PromisedHolder, PromisedLine, cv_queue>>
      /\ PromisedPhase' = [PromisedPhase EXCEPT ![u] = PromisedPhase'[u]]
  BY <1>1, <1>2, OwnStepSeen
<1>4. PromisedPhase[t] = "active" /\ PromisedPhase[u] = "unborn" /\ PromisedPhase'[u] = "active"
  BY <1>1, <1>2 DEF PInv, MapInv, MapPhase
<1>5. arg' = [arg EXCEPT ![u] = NoThread]
  BY <1>1, <1>2 DEF PInv, IInv, TypeOK
<1> QED BY <1>3, <1>4, <1>5 DEF Promise!MCreate, Promise!Becomes

\* thread::join of a thread that has not finished begins to wait for it.
LEMMA JoinImplements ==
  ASSUME PInv, MapInv', NEW t \in Thread, NEW u \in Thread, Join(t, u)
  PROVE  Promise!MJoin(t, u)
<1>1. /\ InUser(t) /\ pc[t] = "user" /\ pc[u] # "unborn" /\ ~Expired(u)
      /\ pc' = [pc EXCEPT ![t] = "join"] /\ arg' = [arg EXCEPT ![t] = u]
      /\ UNCHANGED <<held, mutex_queue, cv_queue>>
  BY DEF Join, InUser
<1>2. /\ \A x \in Thread \ {t} : pc'[x] = pc[x] /\ arg'[x] = arg[x]
      /\ pc'[t] = "join"
  BY <1>1 DEF PInv, IInv, TypeOK
<1>3. pc[u] # "done" /\ pc[u] \in Phase
  BY <1>1, FinishedAreExpired DEF PInv, IInv, TypeOK
<1>4. PromisedPhase[u] \notin {"unborn", "done"}
  BY <1>1, <1>3 DEF PromisedPhase, Phase, Resumable
<1>5. /\ UNCHANGED <<PromisedHolder, PromisedLine, cv_queue>>
      /\ PromisedPhase' = [PromisedPhase EXCEPT ![t] = PromisedPhase'[t]]
  BY <1>1, <1>2, OwnStepSeen
<1>6. PromisedPhase[t] = "active" /\ PromisedPhase'[t] = "joining"
  BY <1>1, <1>2 DEF PInv, MapInv, MapPhase
<1> QED BY <1>1, <1>4, <1>5, <1>6 DEF Promise!MJoin, Promise!Becomes

\* The end of a thread.
LEMMA FinishImplements ==
  ASSUME PInv, MapInv', NEW t \in Thread, Finish(t)
  PROVE  Promise!MExit(t)
<1>1. /\ pc[t] = "user" /\ pc' = [pc EXCEPT ![t] = "done"]
      /\ UNCHANGED <<arg, held, mutex_queue, cv_queue>>
  BY DEF Finish, InUser
<1>2. /\ \A x \in Thread \ {t} : pc'[x] = pc[x]
      /\ pc'[t] = "done" /\ arg[t] = NoThread
  BY <1>1 DEF PInv, IInv, TypeOK, PromiseInv, ArgInv
<1>3. /\ UNCHANGED <<PromisedHolder, PromisedLine, cv_queue>>
      /\ PromisedPhase' = [PromisedPhase EXCEPT ![t] = PromisedPhase'[t]]
  BY <1>1, <1>2, OwnStepSeen
<1>4. PromisedPhase[t] = "active" /\ PromisedPhase'[t] = "done"
  BY <1>1, <1>2 DEF PInv, MapInv, MapPhase
<1>5. arg' = [arg EXCEPT ![t] = NoThread]
  BY <1>1, <1>2 DEF PInv, IInv, TypeOK
<1> QED BY <1>3, <1>4, <1>5 DEF Promise!MExit, Promise!Becomes

\* The program sees a join end, but not a start or a yield.
LEMMA ReturnImplements ==
  ASSUME PInv, MapInv', NEW t \in Thread, Return(t)
  PROVE  Promise!MJoined(t) \/ Invisible
<1>1. /\ context = t /\ switch_to = NoThread /\ pc[t] \in {"start", "yield", "join"}
      /\ pc' = [pc EXCEPT ![t] = "user"] /\ arg' = [arg EXCEPT ![t] = NoThread]
      /\ UNCHANGED <<held, mutex_queue, cv_queue>>
  BY DEF Return, Resumed, ReturnToUser, queues
<1>2. /\ \A x \in Thread \ {t} : pc'[x] = pc[x] /\ arg'[x] = arg[x]
      /\ pc'[t] = "user"
  BY <1>1 DEF PInv, IInv, TypeOK
<1>3. /\ UNCHANGED <<PromisedHolder, PromisedLine, cv_queue>>
      /\ PromisedPhase' = [PromisedPhase EXCEPT ![t] = PromisedPhase'[t]]
  BY <1>1, <1>2, OwnStepSeen
<1>4. PromisedPhase'[t] = "active"
  BY <1>2 DEF MapInv, MapPhase
<1>5. CASE pc[t] = "join"
  <2>1. arg[t] \in Thread /\ t \notin Range(join_queue[arg[t]])
    BY <1>1, <1>5, CallerFacts DEF PInv, Unqueued, PromiseInv, JoinInv
  <2>2. pc[arg[t]] = "done"
    BY <1>5, <2>1 DEF PInv, PromiseInv, JoinInv
  <2>3. PromisedPhase[t] = "joining" /\ PromisedPhase[arg[t]] = "done"
    BY <1>5, <2>1, <2>2 DEF PInv, MapInv, MapPhase
  <2> QED BY <1>1, <1>3, <1>4, <2>3 DEF Promise!MJoined, Promise!Becomes
<1>6. CASE pc[t] \in {"start", "yield"}
  <2>1. arg' = arg
    BY <1>1, <1>6 DEF PInv, PromiseInv, ArgInv, IInv, TypeOK
  <2>2. PromisedPhase' = PromisedPhase
    BY <1>3, <1>4, <1>6 DEF PInv, MapInv, MapPhase
  <2> QED BY <1>3, <2>1, <2>2 DEF Invisible
<1> QED BY <1>1, <1>5, <1>6

\* thread::yield is invisible: only the ready queue changes.
LEMMA YieldImplements ==
  ASSUME PInv, MapInv', NEW t \in Thread, Yield(t)
  PROVE  Invisible
<1>1. /\ pc[t] = "user" /\ pc' = [pc EXCEPT ![t] = "yield"]
      /\ UNCHANGED <<arg, held, mutex_queue, cv_queue>>
  BY DEF Yield, InUser
<1>2. (\A x \in Thread \ {t} : pc'[x] = pc[x]) /\ pc'[t] = "yield"
  BY <1>1 DEF PInv, IInv, TypeOK
<1>3. /\ UNCHANGED <<PromisedHolder, PromisedLine, cv_queue>>
      /\ PromisedPhase' = [PromisedPhase EXCEPT ![t] = PromisedPhase'[t]]
  BY <1>1, <1>2, OwnStepSeen
<1>4. PromisedPhase' = PromisedPhase
  BY <1>1, <1>2, <1>3 DEF PInv, MapInv, MapPhase
<1> QED BY <1>1, <1>3, <1>4 DEF Invisible

\* Switches, and the host's steps, move no thread from one call to another.
LEMMA HostImplements ==
  ASSUME PInv, MapInv', UNCHANGED <<pc, arg, held, mutex_queue, cv_queue>>
  PROVE  Invisible
<1>1. \A x \in Thread, m \in Mutex : Awaited(x, m)' <=> Awaited(x, m)
  BY DEF Awaited
<1>2. UNCHANGED <<PromisedHolder, PromisedLine>>
  BY <1>1, SameMutexes DEF PInv
<1>3. PromisedPhase' = PromisedPhase
  BY DEF PromisedPhase
<1> QED BY <1>2, <1>3 DEF Invisible

-----------------------------------------------------------------------------
(* The refinement *)

\* Every call of a running thread is a step of the monitor or invisible.
LEMMA UserStepImplements ==
  ASSUME PInv, MapInv', NEW t \in Thread, UserStep(t)
  PROVE  Implements
<1> USE DEF Implements
<1>1. CASE ReturnAtOnce /\ UNCHANGED programVars
  <2>1. UNCHANGED <<pc, arg, held, mutex_queue, cv_queue>>
    BY <1>1 DEF programVars, queues
  <2> QED BY <2>1, HostImplements
<1>2. CASE \E u \in Thread : Create(t, u) \/ Join(t, u)
  BY <1>2, CreateImplements, JoinImplements DEF Promise!MNext
<1>3. ASSUME NEW m \in Mutex, LockFree(t, m)
      PROVE  Implements
  <2>1. Promise!MTake(t, m)
    BY <1>3, TakeImplements DEF LockFree, InUser, queues
  <2> QED BY <2>1 DEF Promise!MNext
<1>4. ASSUME NEW m \in Mutex, LockBusy(t, m)
      PROVE  Implements
  <2>1. Promise!MQueue(t, m)
    BY <1>4, QueueImplements DEF LockBusy, InUser
  <2> QED BY <2>1 DEF Promise!MNext
<1>5. CASE \E m \in Mutex : Unlock(t, m)
  BY <1>5, UnlockImplements DEF Promise!MNext
<1>6. CASE \E c \in Cv, m \in Mutex : Wait(t, c, m)
  BY <1>6, WaitImplements DEF Promise!MNext
<1>7. CASE \E c \in Cv : Signal(t, c) \/ Broadcast(t, c)
  BY <1>7, WakeImplements DEF Promise!MNext
<1>8. CASE Yield(t)
  BY <1>8, YieldImplements
<1>9. CASE Finish(t)
  BY <1>9, FinishImplements DEF Promise!MNext
<1> QED BY <1>1, <1>2, <1>3, <1>4, <1>5, <1>6, <1>7, <1>8, <1>9
        DEF UserStep, JoinExpired, NotOwner, NobodyWaits, YieldAlone

\* So is every return from a call that was suspended.
LEMMA LibraryStepImplements ==
  ASSUME PInv, MapInv', NEW t \in Thread, LibraryStep(t)
  PROVE  Implements
<1> USE DEF Implements
<1>1. CASE Return(t)
  BY <1>1, ReturnImplements DEF Promise!MNext
<1>2. CASE ReturnWithMutex(t)
  <2>1. arg[t] \in Mutex
    BY <1>2 DEF ReturnWithMutex, Resumed, PInv, IInv, GrantInv
  <2>2. Promise!MAcquire(t, arg[t])
    BY <1>2, ReturnWithMutexImplements
  <2> QED BY <2>1, <2>2 DEF Promise!MNext
<1>3. ASSUME Resumed(t, "wait")
      PROVE  context = t /\ switch_to = NoThread /\ pc[t] = "wait" /\ arg[t] \in Mutex
  BY <1>3 DEF Resumed, PInv, IInv, GrantInv
<1>4. CASE WakeFree(t)
  <2>1. Promise!MTake(t, arg[t])
    BY <1>3, <1>4, TakeImplements DEF WakeFree, queues
  <2> QED BY <1>3, <1>4, <2>1 DEF Promise!MNext, WakeFree
<1>5. CASE WakeBusy(t)
  <2>1. Promise!MQueue(t, arg[t])
    BY <1>3, <1>5, QueueImplements DEF WakeBusy
  <2> QED BY <1>3, <1>5, <2>1 DEF Promise!MNext, WakeBusy
<1> QED BY <1>1, <1>2, <1>4, <1>5 DEF LibraryStep

\* The first thread is the only one, and no call has been made.
LEMMA InitImplements == Init /\ IInv => Promise!MInit
<1> SUFFICES ASSUME Init, IInv PROVE Promise!MInit
  OBVIOUS
<1>1. MapInv
  BY MapFacts
<1>2. \A m \in Mutex : PromisedHolder[m] = NoThread
  BY <1>1 DEF Init, MapInv
<1>3. \A m \in Mutex : PromisedLine[m] = <<>>
  BY <1>1 DEF Init, MapInv, Awaited
<1>4. PromisedPhase = [t \in Thread |-> IF t = Main THEN "active" ELSE "unborn"]
  BY <1>1 DEF Init, MapInv, MapPhase
<1>5. PromisedHolder = [m \in Mutex |-> NoThread] /\ PromisedLine = [m \in Mutex |-> <<>>]
  BY <1>1, <1>2, <1>3 DEF MapInv
<1> QED BY <1>4, <1>5 DEF Init, Promise!MInit

\* And every step of the CPU.
LEMMA NextImplements ==
  ASSUME PInv, MapInv', [Next]_vars
  PROVE  Implements
<1>1. CASE \E t \in Thread : UserStep(t) \/ LibraryStep(t)
  BY <1>1, UserStepImplements, LibraryStepImplements
<1>2. CASE HostStep \/ Switch \/ UNCHANGED vars
  <2>1. UNCHANGED <<pc, arg, held, mutex_queue, cv_queue>>
    BY <1>2 DEF HostStep, HostDispatch, HostResumed, HostSuspend, Switch, vars, queues
  <2> QED BY <2>1, HostImplements DEF Implements
<1> QED BY <1>1, <1>2 DEF Next, Suspended

\* The library keeps what it promises: every behaviour of its scheduler,
\* queues and switches is, seen from the program, one of Mesa monitors with
\* first-come-first-served mutexes (mutex.cpp, cv.cpp, thread_lib.cpp).
THEOREM LibraryImplementsMonitor == Spec => ImplementsMonitor
<1>1. PInv /\ MapInv' /\ [Next]_vars => [Promise!MNext]_(Promise!mvars)
  <2> SUFFICES ASSUME PInv, MapInv', [Next]_vars
               PROVE  [Promise!MNext]_(Promise!mvars)
    OBVIOUS
  <2>1. Implements
    BY NextImplements
  <2> QED BY <2>1 DEF Implements, Invisible, Promise!mvars
<1>2. IInv /\ OwnerInv /\ StackInv /\ PromiseInv /\ MapInv => PInv
  BY DEF PInv
<1>3. Init => IInv
  BY InitEstablishesIInv
<1> QED BY <1>1, <1>2, <1>3, InitImplements, MapFacts, OwnersHold, StackHolds, PromiseHolds, PTL
        DEF Spec, ImplementsMonitor, Promise!MSpec

=============================================================================
