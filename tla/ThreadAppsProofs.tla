--------------------------- MODULE ThreadAppsProofs ---------------------------
(***************************************************************************)
(* Theorems about programs on the thread library: every step of a program  *)
(* is one of the library or changes nothing of it, so what ThreadLibProofs *)
(* proves of the library holds of programs; and no increment of a shared   *)
(* variable is lost, wherever the timer interrupts.  The second rests on   *)
(* the invariant of the library (a mutex has one holder) and on what a     *)
(* thread has of the mutexes that its text has locked so far.              *)
(***************************************************************************)
EXTENDS ThreadApps, ThreadLibProofs

USE MainAssumption, HostAssumption, NoThreadAssumption

-----------------------------------------------------------------------------
(* The invariant *)

\* What of the program's own state has to be known of its shape.
AppTypes ==
  /\ program \in Chosen
  /\ next_call \in [Thread -> Nat \ {0}]
  /\ "g" \in DOMAIN value
  /\ loaded = [t \in Thread |-> loaded[t]]

\* t has m, or is in a call that will return with it.
Promised(t, m) == m \in held[t] \/ (pc[t] \in {"lock", "wait", "relock"} /\ arg[t] = m)

\* A thread has, or will have when it goes on, what its text has locked.
HeldInv ==
  \A t \in Thread, m \in Mutex :
    next_call[t] <= Len(Text(t)) /\ Behind(Text(t), next_call[t], m) => Promised(t, m)

\* Where a thread is that has read x and not yet written it: at x++, and if the
\* timer does not interrupt the program it still has the CPU.
Between(t) ==
  /\ next_call[t] <= Len(Text(t)) /\ Instruction(t)[1] = "inc"
  /\ program \in Preempted => pc[t] \in {"user", "yield"}
  /\ program \notin Preempted => InUser(t)

\* What a thread has read of g is still its value.
LoadInv ==
  \A t \in Thread : loaded[t] # <<>> =>
    Between(t) /\ (Instruction(t)[2] = "g" => loaded[t][1] = value["g"])

\* The property, of numbers.
CountInv == IsFiniteSet(Increments) /\ NoLostUpdate

AppInv == IInv /\ AppTypes /\ HeldInv /\ LoadInv /\ CountInv

-----------------------------------------------------------------------------
(* Texts *)

\* What the assumptions say of the texts of the program that runs.
LEMMA TextFacts ==
  ASSUME program \in Chosen, NEW t
  PROVE  /\ Len(Text(t)) \in Nat /\ DOMAIN Text(t) = 1 .. Len(Text(t))
         /\ \A i \in 1 .. Len(Text(t)) :
              /\ Text(t)[i][1] \in {"create", "join"} => Text(t)[i][2] \in Thread
              /\ Text(t)[i][1] \in {"lock", "unlock", "wait"} => Text(t)[i][2] \in Mutex
              /\ Text(t)[i][1] = "await" => Text(t)[i][4] \in Mutex
              /\ Text(t)[i][1] \in {"try", "unlock", "wait", "await"} => MutexOf(Text(t)[i]) \in Mutex
              /\ ~(Text(t)[i][1] = "set" /\ Text(t)[i][2] = "g")
              /\ Text(t)[i][1] \in {"until", "again"} =>
                   \A j \in 1 .. Len(Text(t)) : ~IncrementAt(Text(t), j)
<1>1. CASE t \in DOMAIN Texts[program]
  <2>1. PICK text : text = Texts[program][t] /\ text = Text(t)
    BY <1>1 DEF Text
  <2>2. /\ text \in Seq(Range(text))
        /\ \A i \in DOMAIN text :
            /\ text[i][1] \in {"create", "join"} => text[i][2] \in Thread
            /\ text[i][1] \in {"lock", "unlock", "wait"} => text[i][2] \in Mutex
            /\ text[i][1] = "await" => text[i][4] \in Mutex
            /\ text[i][1] \in {"try", "unlock", "wait", "await"} => MutexOf(text[i]) \in Mutex
    BY <1>1, <2>1, ObjectsAssumption
  <2>3. \A i \in DOMAIN text :
           /\ ~(text[i][1] = "set" /\ text[i][2] = "g")
           /\ text[i][1] \in {"until", "again"} => \A j \in DOMAIN text : ~IncrementAt(text, j)
    BY <1>1, <2>1, IncrementsAssumption
  <2>4. Len(text) \in Nat /\ DOMAIN text = 1 .. Len(text)
    BY <2>2, LenProperties
  <2> QED
    BY <2>1, <2>2, <2>3, <2>4
<1>2. CASE t \notin DOMAIN Texts[program]
  <2>1. Text(t) = <<>>
    BY <1>2 DEF Text
  <2> QED
    BY <2>1
<1> QED
  BY <1>1, <1>2

\* In a program that the timer interrupts the increments are behind one mutex.
LEMMA OneMutex ==
  ASSUME program \in Chosen, program \in Preempted
  PROVE  \E m \in Mutex : \A t : \A i \in 1 .. Len(Text(t)) :
           IncrementAt(Text(t), i) => Behind(Text(t), i, m)
<1>1. PICK m \in Mutex : \A t \in DOMAIN Texts[program] : \A i \in DOMAIN Texts[program][t] :
           IncrementAt(Texts[program][t], i) => Behind(Texts[program][t], i, m)
  BY IncrementsAssumption
<1>2. ASSUME NEW t, NEW i \in 1 .. Len(Text(t)), IncrementAt(Text(t), i)
      PROVE  Behind(Text(t), i, m)
  <2>1. i \in DOMAIN Text(t)
    BY TextFacts
  <2>2. CASE t \in DOMAIN Texts[program]
    BY <1>1, <1>2, <2>1, <2>2 DEF Text
  <2>3. CASE t \notin DOMAIN Texts[program]
    <3>1. Text(t) = <<>>
      BY <2>3 DEF Text
    <3> QED
      BY <3>1
  <2> QED
    BY <2>2, <2>3
<1> QED
  BY <1>2

\* Behind an instruction the same mutexes are locked as in front of it, but for
\* the one that it locks or unlocks.
LEMMA BehindNext ==
  ASSUME NEW text, NEW i \in Nat \ {0}, NEW m, Behind(text, i + 1, m)
  PROVE  /\ ~(text[i][1] = "unlock" /\ text[i][2] = m)
         /\ Behind(text, i, m) \/ (text[i][1] = "lock" /\ text[i][2] = m)
<1>1. PICK j \in 1 .. i :
        /\ text[j][1] = "lock" /\ text[j][2] = m
        /\ \A k \in (j + 1) .. i : ~(text[k][1] = "unlock" /\ text[k][2] = m)
  BY DEF Behind
<1>2. CASE j = i
  BY <1>1, <1>2
<1>3. CASE j # i
  <2>1. j \in 1 .. (i - 1) /\ i \in (j + 1) .. i /\ \A k \in (j + 1) .. (i - 1) : k \in (j + 1) .. i
    BY <1>3
  <2>2. Behind(text, i, m)
    BY <1>1, <2>1 DEF Behind
  <2> QED
    BY <1>1, <2>1, <2>2
<1> QED
  BY <1>2, <1>3

-----------------------------------------------------------------------------
(* Every step of a program is one of the library, or none *)

\* The instruction that a thread is at.
LEMMA AtFacts ==
  ASSUME AppTypes, NEW t \in Thread, NEW ops, At(t, ops)
  PROVE  next_call[t] \in 1 .. Len(Text(t)) /\ Instruction(t) = Text(t)[next_call[t]] /\ Instruction(t)[1] \in ops
  BY TextFacts DEF AppTypes, At, Instruction

\* What the instructions stand for are calls.
LEMMA CallIsUserStep ==
  ASSUME AppTypes, NEW t \in Thread, LibraryCall(t)
  PROVE  [UserStep(t)]_vars
<1>1. PICK call : call = Instruction(t)
  OBVIOUS
<1>2. /\ call[1] \in {"create", "join", "follow", "lock", "unlock", "wait", "yield", "signal", "broadcast"}
      /\ call[1] \in {"create", "join"} => call[2] \in Thread
      /\ call[1] \in {"lock", "unlock", "wait"} => call[2] \in Mutex
      /\ "cv1" \in Cv
  BY <1>1, AtFacts, TextFacts, ObjectsAssumption DEF LibraryCall, AppTypes
<1>3. CASE call[1] = "create"
  BY <1>1, <1>2, <1>3 DEF LibraryCall, UserStep
<1>4. CASE call[1] = "join"
  BY <1>1, <1>2, <1>4 DEF LibraryCall, UserStep
<1>5. CASE call[1] = "lock"
  BY <1>1, <1>2, <1>5 DEF LibraryCall, UserStep
<1>6. CASE call[1] = "unlock"
  BY <1>1, <1>2, <1>6 DEF LibraryCall, UserStep
<1>7. CASE call[1] = "wait"
  BY <1>1, <1>2, <1>7 DEF LibraryCall, UserStep
<1>8. CASE call[1] = "yield"
  BY <1>1, <1>8 DEF LibraryCall, UserStep
<1>9. CASE call[1] = "signal"
  BY <1>1, <1>2, <1>9 DEF LibraryCall, UserStep
<1>10. CASE call[1] = "broadcast"
  BY <1>1, <1>2, <1>10 DEF LibraryCall, UserStep
<1>11. CASE call[1] = "follow"
  BY <1>1, <1>11 DEF LibraryCall, UserStep
<1> QED
  BY <1>2, <1>3, <1>4, <1>5, <1>6, <1>7, <1>8, <1>9, <1>10, <1>11

\* A step of a thread of the program.
LEMMA ThreadStepIsUserStep ==
  ASSUME AppTypes, NEW t \in Thread, ThreadStep(t)
  PROVE  [UserStep(t)]_vars
<1>1. CASE LibraryCall(t)
  BY <1>1, CallIsUserStep
<1>2. CASE WaitLoop(t)
  <2>1. Instruction(t)[4] \in Mutex /\ "cv1" \in Cv
    BY <1>2, AtFacts, TextFacts, ObjectsAssumption DEF WaitLoop, AppTypes
  <2> QED
    BY <1>2, <2>1 DEF WaitLoop, UserStep, Own
<1>3. CASE Load(t) \/ Store(t) \/ Jump(t) \/ FollowNull(t) \/ Exit(t)
  BY <1>3 DEF Load, Store, Jump, FollowNull, Exit, Own
<1>4. CASE Throw(t)
  <2>1. MutexOf(Instruction(t)) \in Mutex
    BY <1>4, AtFacts, TextFacts DEF Throw, AppTypes
  <2> QED
    BY <1>4, <2>1 DEF Throw, UserStep
<1>5. CASE FunctionReturns(t)
  BY <1>5 DEF FunctionReturns, UserStep
<1> QED
  BY <1>1, <1>2, <1>3, <1>4, <1>5 DEF ThreadStep

\* A step of anything.
LEMMA AppStepIsStep ==
  ASSUME AppTypes, [AppNext]_avars
  PROVE  [Next]_vars
<1>1. CASE Library
  BY <1>1 DEF Library, Next
<1>2. ASSUME NEW t \in Thread, ThreadStep(t) PROVE [Next]_vars
  BY <1>2, ThreadStepIsUserStep DEF Next
<1>3. CASE Timer
  BY <1>3 DEF Timer, Next, UserStep
<1>4. CASE Over
  BY <1>4 DEF Over, Suspended
<1>5. CASE UNCHANGED avars
  BY <1>5 DEF avars
<1> QED
  BY <1>1, <1>2, <1>3, <1>4, <1>5 DEF AppNext

\* The places in the texts stay numbers, and the rest its shape.
LEMMA TypesKept ==
  ASSUME AppTypes, [AppNext]_avars
  PROVE  AppTypes'
<1>1. ASSUME UNCHANGED <<program, next_call, value, loaded>> PROVE AppTypes'
  BY <1>1 DEF AppTypes
<1>2. CASE Library \/ Timer \/ Over \/ UNCHANGED avars
  BY <1>1, <1>2 DEF Library, Timer, Over, avars, appVars
<1>3. ASSUME NEW t \in Thread, ThreadStep(t) PROVE AppTypes'
  <2>1. program' = program
    BY <1>3 DEF ThreadStep, LibraryCall, WaitLoop, Load, Store, Jump, Throw, FollowNull, Exit, FunctionReturns, appVars
  <2>2. \A i \in Nat \ {0} : [next_call EXCEPT ![t] = i] \in [Thread -> Nat \ {0}]
    BY DEF AppTypes
  <2>3. next_call[t] + 1 \in Nat \ {0} /\ Len(Text(t)) + 1 \in Nat \ {0} /\ 1 \in Nat \ {0}
    BY TextFacts DEF AppTypes
  <2>4. Advance(t) => next_call' \in [Thread -> Nat \ {0}]
    BY <2>2, <2>3 DEF Advance
  <2>5. UNCHANGED next_call => next_call' \in [Thread -> Nat \ {0}]
    BY DEF AppTypes
  <2>6. Jump(t) => next_call' \in [Thread -> Nat \ {0}]
    <3>1. SUFFICES ASSUME Jump(t) PROVE next_call' \in [Thread -> Nat \ {0}]
      OBVIOUS
    <3>2. PICK i \in Nat \ {0} : next_call' = [next_call EXCEPT ![t] = i]
      BY <2>3, <3>1 DEF Jump
    <3> QED
      BY <2>2, <3>2
  <2>7. next_call' \in [Thread -> Nat \ {0}]
    BY <1>3, <2>4, <2>5, <2>6
       DEF ThreadStep, LibraryCall, WaitLoop, Load, Store, Throw, FollowNull, Exit, FunctionReturns, appVars
  <2>8. "g" \in DOMAIN value'
    BY <1>3 DEF ThreadStep, LibraryCall, WaitLoop, Load, Store, Jump, Throw, FollowNull, Exit, FunctionReturns, appVars, AppTypes
  <2>9. loaded' = [x \in Thread |-> loaded'[x]]
    BY <1>3 DEF ThreadStep, LibraryCall, WaitLoop, Load, Store, Jump, Throw, FollowNull, Exit, FunctionReturns, appVars, AppTypes
  <2> QED
    BY <2>1, <2>7, <2>8, <2>9 DEF AppTypes
<1> QED
  BY <1>2, <1>3 DEF AppNext

\* The initial state.
LEMMA TypesInit == AppInit => AppTypes
  BY DEF AppInit, AppTypes, Shared

\* What a program does on the library is what the library does: all that is
\* proved of ThreadLib holds of programs, with timer interrupts or without
\* (cpu.h:41-53).
THEOREM ProgramsRunOnTheLibrary == AppSpec => Spec
<1>1. AppInit => Init
  BY DEF AppInit
<1>2. AppTypes /\ [AppNext]_avars => [Next]_vars
  BY AppStepIsStep
<1>3. AppTypes /\ [AppNext]_avars => AppTypes'
  BY TypesKept
<1> QED
  BY <1>1, <1>2, <1>3, TypesInit, PTL DEF AppSpec, Spec

-----------------------------------------------------------------------------
(* What a thread has locked *)

\* What a step of thread t leaves to thread x.
Leaves(x) ==
  /\ \A m \in Mutex : Promised(x, m) => Promised(x, m)'
  /\ pc[x] \in {"user", "yield"} => pc'[x] = pc[x]

\* A step that changes the call and the mutexes of t only.
LEMMA OwnChange ==
  ASSUME TypeOK, NEW t \in Thread, NEW x \in Thread \ {t},
         pc' = pc \/ (\E p : pc' = [pc EXCEPT ![t] = p]),
         arg' = arg \/ (\E a : arg' = [arg EXCEPT ![t] = a]),
         held' = held \/ (\E h : held' = [held EXCEPT ![t] = h])
  PROVE  Leaves(x)
<1>1. pc'[x] = pc[x] /\ arg'[x] = arg[x] /\ held'[x] = held[x]
  BY DEF TypeOK
<1> QED
  BY <1>1 DEF Leaves, Promised

\* A call of t takes nothing from another thread.
LEMMA CallLeaves ==
  ASSUME TypeOK, NEW t \in Thread, UserStep(t), NEW x \in Thread \ {t}
  PROVE  Leaves(x)
<1>1. ASSUME NEW u \in Thread, Create(t, u) PROVE Leaves(x)
  <2>1. pc[u] = "unborn" /\ pc' = [pc EXCEPT ![u] = "start"] /\ arg' = arg /\ held' = held
    BY <1>1 DEF Create
  <2>2. CASE x = u
    BY <2>1, <2>2 DEF Leaves, Promised
  <2>3. CASE x # u
    BY <2>1, <2>3 DEF Leaves, Promised, TypeOK
  <2> QED
    BY <2>2, <2>3
<1>2. ASSUME NEW u \in Thread, Join(t, u) PROVE Leaves(x)
  BY <1>2, OwnChange DEF Join
<1>3. ASSUME UNCHANGED programVars PROVE Leaves(x)
  BY <1>3, OwnChange DEF programVars
<1>4. ASSUME NEW m \in Mutex, LockFree(t, m) PROVE Leaves(x)
  BY <1>4, OwnChange DEF LockFree, Take, ReturnToUser
<1>5. ASSUME NEW m \in Mutex, LockBusy(t, m) PROVE Leaves(x)
  BY <1>5, OwnChange DEF LockBusy, Queue
<1>6. ASSUME NEW m \in Mutex, Unlock(t, m) PROVE Leaves(x)
  BY <1>6, OwnChange DEF Unlock
<1>7. ASSUME NEW c \in Cv, NEW m \in Mutex, Wait(t, c, m) PROVE Leaves(x)
  BY <1>7, OwnChange DEF Wait
<1>8. ASSUME NEW c \in Cv, Signal(t, c) \/ Broadcast(t, c) PROVE Leaves(x)
  BY <1>8, OwnChange DEF Signal, Broadcast
<1>9. ASSUME Yield(t) PROVE Leaves(x)
  BY <1>9, OwnChange DEF Yield
<1>10. ASSUME Finish(t) PROVE Leaves(x)
  BY <1>10, OwnChange DEF Finish
<1> QED
  BY <1>1, <1>2, <1>3, <1>4, <1>5, <1>6, <1>7, <1>8, <1>9, <1>10
     DEF UserStep, JoinExpired, NotOwner, NobodyWaits, YieldAlone

\* Nor does the code that runs when t's context is switched to, and t has then
\* what it was promised.
LEMMA ResumeLeaves ==
  ASSUME TypeOK, NEW t \in Thread, LibraryStep(t), NEW x \in Thread
  PROVE  (\A m \in Mutex : Promised(x, m) => Promised(x, m)')
         /\ (pc[x] \in {"user", "yield"} => pc'[x] \in {"user", "yield"})
<1>1. CASE x # t
  <2>1. CASE Return(t)
    BY <1>1, <2>1, OwnChange DEF Return, ReturnToUser, Leaves
  <2>2. CASE ReturnWithMutex(t)
    BY <1>1, <2>2, OwnChange DEF ReturnWithMutex, ReturnToUser, Leaves
  <2>3. CASE WakeFree(t)
    BY <1>1, <2>3, OwnChange DEF WakeFree, Take, ReturnToUser, Leaves
  <2>4. CASE WakeBusy(t)
    BY <1>1, <2>4, OwnChange DEF WakeBusy, Queue, Leaves
  <2> QED
    BY <2>1, <2>2, <2>3, <2>4 DEF LibraryStep
<1>2. CASE x = t
  <2>1. CASE Return(t)
    BY <1>2, <2>1 DEF Return, Resumed, ReturnToUser, Promised, TypeOK
  <2>2. CASE ReturnWithMutex(t)
    BY <1>2, <2>2 DEF ReturnWithMutex, Resumed, ReturnToUser, Promised, TypeOK
  <2>3. CASE WakeFree(t)
    BY <1>2, <2>3 DEF WakeFree, Resumed, Take, ReturnToUser, Promised, TypeOK
  <2>4. CASE WakeBusy(t)
    BY <1>2, <2>4 DEF WakeBusy, Resumed, Queue, Promised, TypeOK
  <2> QED
    BY <2>1, <2>2, <2>3, <2>4 DEF LibraryStep
<1> QED
  BY <1>1, <1>2

\* A call of t itself: only unlock takes a mutex from it, and a lock promises one.
LEMMA CallPromises ==
  ASSUME TypeOK, AppTypes, NEW t \in Thread, LibraryCall(t), NEW m \in Mutex
  PROVE  /\ Promised(t, m) /\ ~(Instruction(t)[1] = "unlock" /\ Instruction(t)[2] = m) => Promised(t, m)'
         /\ Instruction(t)[1] = "lock" /\ Instruction(t)[2] = m => Promised(t, m)'
<1>1. PICK call : call = Instruction(t)
  OBVIOUS
<1>2. /\ call[1] \in {"create", "join", "follow", "lock", "unlock", "wait", "yield", "signal", "broadcast"}
      /\ call[1] \in {"create", "join"} => call[2] \in Thread
      /\ call[1] \in {"lock", "unlock", "wait"} => call[2] \in Mutex
  BY <1>1, AtFacts, TextFacts DEF LibraryCall, AppTypes
<1>3. CASE call[1] = "create"
  <2>1. Create(t, call[2])
    BY <1>1, <1>3 DEF LibraryCall
  <2> QED
    BY <1>1, <1>2, <1>3, <2>1 DEF Create, InUser, Promised, TypeOK
<1>4. CASE call[1] = "join"
  <2>1. Join(t, call[2]) \/ JoinExpired(t, call[2])
    BY <1>1, <1>4 DEF LibraryCall
  <2> QED
    BY <1>1, <1>2, <1>4, <2>1 DEF Join, JoinExpired, InUser, Promised, TypeOK, programVars
<1>5. CASE call[1] = "lock"
  <2>1. LockFree(t, call[2]) \/ LockBusy(t, call[2])
    BY <1>1, <1>5 DEF LibraryCall
  <2>2. CASE LockFree(t, call[2])
    BY <1>1, <1>2, <1>5, <2>2 DEF LockFree, Take, ReturnToUser, InUser, Promised, TypeOK
  <2>3. CASE LockBusy(t, call[2])
    BY <1>1, <1>2, <1>5, <2>3 DEF LockBusy, Queue, InUser, Promised, TypeOK
  <2> QED
    BY <2>1, <2>2, <2>3
<1>6. CASE call[1] = "unlock"
  <2>1. Unlock(t, call[2])
    BY <1>1, <1>6 DEF LibraryCall
  <2> QED
    BY <1>1, <1>2, <1>6, <2>1 DEF Unlock, InUser, Promised, TypeOK
<1>7. CASE call[1] = "wait"
  <2>1. Wait(t, "cv1", call[2])
    BY <1>1, <1>7 DEF LibraryCall
  <2> QED
    BY <1>1, <1>2, <1>7, <2>1 DEF Wait, InUser, Promised, TypeOK
<1>8. CASE call[1] = "yield"
  <2>1. Yield(t) \/ YieldAlone(t)
    BY <1>1, <1>8 DEF LibraryCall
  <2> QED
    BY <1>1, <1>8, <2>1 DEF Yield, YieldAlone, InUser, Promised, TypeOK, programVars
<1>9. CASE call[1] \in {"signal", "broadcast"}
  <2>1. Signal(t, "cv1") \/ Broadcast(t, "cv1") \/ NobodyWaits(t, "cv1")
    BY <1>1, <1>9 DEF LibraryCall
  <2> QED
    BY <1>1, <1>9, <2>1 DEF Signal, Broadcast, NobodyWaits, Promised, programVars
<1>10. CASE call[1] = "follow"
  <2>1. PICK u \in Thread : Join(t, u) \/ JoinExpired(t, u)
    BY <1>1, <1>10 DEF LibraryCall
  <2> QED
    BY <1>1, <1>10, <2>1 DEF Join, JoinExpired, InUser, Promised, TypeOK, programVars
<1> QED
  BY <1>2, <1>3, <1>4, <1>5, <1>6, <1>7, <1>8, <1>9, <1>10

\* A step in which no thread goes on to another instruction.
LEMMA NobodyAdvances ==
  ASSUME HeldInv, UNCHANGED <<program, next_call>>,
         \A x \in Thread, m \in Mutex : Promised(x, m) => Promised(x, m)'
  PROVE  HeldInv'
<1> SUFFICES ASSUME NEW x \in Thread, NEW m \in Mutex,
                    next_call'[x] <= Len(Text(x)'), Behind(Text(x)', next_call'[x], m)
             PROVE  Promised(x, m)'
  BY DEF HeldInv
<1>1. next_call'[x] = next_call[x] /\ Text(x)' = Text(x)
  BY DEF Text
<1> QED
  BY <1>1 DEF HeldInv

\* A step in which t goes on to its next instruction.
LEMMA OneAdvances ==
  ASSUME AppTypes, HeldInv, NEW t \in Thread, next_call[t] \in 1 .. Len(Text(t)),
         UNCHANGED program, Advance(t),
         \A x \in Thread \ {t}, m \in Mutex : Promised(x, m) => Promised(x, m)',
         \A m \in Mutex :
           /\ Promised(t, m) /\ ~(Instruction(t)[1] = "unlock" /\ Instruction(t)[2] = m) => Promised(t, m)'
           /\ Instruction(t)[1] = "lock" /\ Instruction(t)[2] = m => Promised(t, m)'
  PROVE  HeldInv'
<1> SUFFICES ASSUME NEW x \in Thread, NEW m \in Mutex,
                    next_call'[x] <= Len(Text(x)'), Behind(Text(x)', next_call'[x], m)
             PROVE  Promised(x, m)'
  BY DEF HeldInv
<1>1. Text(x)' = Text(x)
  BY DEF Text
<1>2. CASE x # t
  <2>1. next_call'[x] = next_call[x]
    BY <1>2 DEF Advance, AppTypes
  <2> QED
    BY <1>1, <1>2, <2>1 DEF HeldInv
<1>3. CASE x = t
  <2>1. PICK i \in Nat \ {0} : i = next_call[t] /\ next_call'[t] = i + 1 /\ i <= Len(Text(t))
    BY DEF Advance, AppTypes
  <2>2. PICK text : text = Text(t)
    OBVIOUS
  <2>3. Behind(text, i + 1, m)
    BY <1>1, <1>3, <2>1, <2>2
  <2>4. /\ ~(text[i][1] = "unlock" /\ text[i][2] = m)
        /\ Behind(text, i, m) \/ (text[i][1] = "lock" /\ text[i][2] = m)
    BY <2>3, BehindNext
  <2>5. Instruction(t) = text[i]
    BY <2>1, <2>2 DEF Instruction
  <2>6. Behind(text, i, m) => Promised(t, m)
    BY <2>1, <2>2 DEF HeldInv
  <2> QED
    BY <1>3, <2>4, <2>5, <2>6
<1> QED
  BY <1>2, <1>3

\* What a thread has locked it has, whatever it and the others do.
LEMMA HeldKept ==
  ASSUME IInv, AppTypes, HeldInv, [AppNext]_avars
  PROVE  HeldInv'
<1> USE DEF IInv
<1>1. CASE Library
  <2>1. UNCHANGED <<program, next_call>>
    BY <1>1 DEF Library, appVars
  <2>2. CASE HostStep \/ Switch
    <3>1. UNCHANGED <<pc, arg, held>>
      BY <2>2 DEF HostStep, HostDispatch, HostResumed, HostSuspend, Switch
    <3> QED
      BY <2>1, <3>1, NobodyAdvances DEF Promised
  <2>3. ASSUME NEW t \in Thread, LibraryStep(t) PROVE HeldInv'
    BY <2>1, <2>3, ResumeLeaves, NobodyAdvances
  <2> QED
    BY <1>1, <2>2, <2>3 DEF Library
<1>2. CASE Timer
  <2>1. PICK t \in Thread : Yield(t)
    BY <1>2 DEF Timer
  <2>2. UserStep(t)
    BY <2>1 DEF UserStep
  <2>3. \A m \in Mutex : Promised(t, m) => Promised(t, m)'
    BY <2>1 DEF Yield, InUser, Promised, TypeOK
  <2>4. \A x \in Thread \ {t}, m \in Mutex : Promised(x, m) => Promised(x, m)'
    BY <2>2, CallLeaves DEF Leaves
  <2>5. UNCHANGED <<program, next_call>>
    BY <1>2 DEF Timer, appVars
  <2> QED
    BY <2>3, <2>4, <2>5, NobodyAdvances
<1>3. CASE Over \/ UNCHANGED avars
  <2>1. UNCHANGED <<pc, arg, held, program, next_call>>
    BY <1>3 DEF Over, Suspended, avars, vars, appVars
  <2> QED
    BY <2>1, NobodyAdvances DEF Promised
<1>4. ASSUME NEW t \in Thread, LibraryCall(t) PROVE HeldInv'
  <2>1. \A x \in Thread \ {t}, m \in Mutex : Promised(x, m) => Promised(x, m)'
    <3>1. CASE UserStep(t)
      BY <3>1, CallLeaves DEF Leaves
    <3>2. CASE UNCHANGED vars
      BY <3>2 DEF vars, Promised
    <3> QED
      BY <1>4, <3>1, <3>2, CallIsUserStep
  <2>2. next_call[t] \in 1 .. Len(Text(t)) /\ Advance(t) /\ UNCHANGED program
    BY <1>4, AtFacts DEF LibraryCall
  <2>3. \A m \in Mutex :
           /\ Promised(t, m) /\ ~(Instruction(t)[1] = "unlock" /\ Instruction(t)[2] = m) => Promised(t, m)'
           /\ Instruction(t)[1] = "lock" /\ Instruction(t)[2] = m => Promised(t, m)'
    BY <1>4, CallPromises
  <2> QED
    BY <2>1, <2>2, <2>3, OneAdvances
<1>5. ASSUME NEW t \in Thread, WaitLoop(t) PROVE HeldInv'
  <2>1. Instruction(t)[1] = "await" /\ Instruction(t)[4] \in Mutex /\ "cv1" \in Cv
        /\ next_call[t] \in 1 .. Len(Text(t)) /\ UNCHANGED program
    BY <1>5, AtFacts, TextFacts, ObjectsAssumption DEF WaitLoop, AppTypes
  <2>2. CASE Wait(t, "cv1", Instruction(t)[4]) /\ UNCHANGED next_call
    <3>1. UserStep(t)
      BY <2>1, <2>2 DEF UserStep
    <3>2. \A x \in Thread \ {t}, m \in Mutex : Promised(x, m) => Promised(x, m)'
      BY <3>1, CallLeaves DEF Leaves
    <3>3. \A m \in Mutex : Promised(t, m) => Promised(t, m)'
      BY <2>1, <2>2 DEF Wait, InUser, Promised, TypeOK
    <3> QED
      BY <2>1, <2>2, <3>2, <3>3, NobodyAdvances
  <2>3. CASE Own(t) /\ Advance(t)
    <3>1. \A x \in Thread, m \in Mutex : Promised(x, m) => Promised(x, m)'
      BY <2>3 DEF Own, vars, Promised
    <3> QED
      BY <2>1, <2>3, <3>1, OneAdvances
  <2> QED
    BY <1>5, <2>2, <2>3 DEF WaitLoop
<1>6. ASSUME NEW t \in Thread, Load(t) \/ Store(t) \/ Throw(t) \/ FollowNull(t) \/ Exit(t)
      PROVE  HeldInv'
  <2>1. UNCHANGED <<pc, arg, held, program>> /\ (UNCHANGED next_call \/ Advance(t))
    BY <1>6 DEF Load, Store, Throw, FollowNull, Exit, Own, NotOwner, vars, programVars
  <2>2. \A x \in Thread, m \in Mutex : Promised(x, m) => Promised(x, m)'
    BY <2>1 DEF Promised
  <2>3. next_call[t] \in 1 .. Len(Text(t)) /\ Instruction(t)[1] # "lock"
    BY <1>6, AtFacts DEF Load, Store, Throw, FollowNull, Exit
  <2> QED
    BY <2>1, <2>2, <2>3, NobodyAdvances, OneAdvances
<1>7. ASSUME NEW t \in Thread, Jump(t) PROVE HeldInv'
  <2>1. UNCHANGED vars /\ UNCHANGED program
    BY <1>7 DEF Jump, Own
  <2>2. \A x \in Thread, m \in Mutex : Promised(x, m) => Promised(x, m)'
    BY <2>1 DEF vars, Promised
  <2>3. next_call[t] \in 1 .. Len(Text(t)) /\ Instruction(t)[1] # "lock"
    BY <1>7, AtFacts DEF Jump
  <2>4. CASE Advance(t)
    BY <2>1, <2>2, <2>3, <2>4, OneAdvances
  <2>5. CASE \E i \in {1, Len(Text(t)) + 1} : next_call' = [next_call EXCEPT ![t] = i]
    <3>1. PICK i \in {1, Len(Text(t)) + 1} : next_call' = [next_call EXCEPT ![t] = i]
      BY <2>5
    <3> SUFFICES ASSUME NEW x \in Thread, NEW m \in Mutex,
                        next_call'[x] <= Len(Text(x)'), Behind(Text(x)', next_call'[x], m)
                 PROVE  Promised(x, m)'
      BY DEF HeldInv
    <3>2. Text(x)' = Text(x) /\ Len(Text(t)) \in Nat
      BY <2>1, TextFacts DEF Text, AppTypes
    <3>3. CASE x # t
      <4>1. next_call'[x] = next_call[x]
        BY <3>1, <3>3 DEF AppTypes
      <4> QED
        BY <2>2, <3>2, <4>1 DEF HeldInv
    <3>4. CASE x = t
      <4>1. next_call'[t] = 1
        BY <3>1, <3>2, <3>4 DEF AppTypes
      <4>2. ~Behind(Text(t), 1, m)
        BY DEF Behind
      <4> QED
        BY <3>2, <3>4, <4>1, <4>2
    <3> QED
      BY <3>3, <3>4
  <2> QED
    BY <1>7, <2>4, <2>5 DEF Jump, Advance
<1>8. ASSUME NEW t \in Thread, FunctionReturns(t) PROVE HeldInv'
  <2>1. Finish(t) /\ UserStep(t) /\ UNCHANGED <<program, next_call>>
    BY <1>8 DEF FunctionReturns, UserStep, appVars
  <2>2. \A x \in Thread \ {t}, m \in Mutex : Promised(x, m) => Promised(x, m)'
    BY <2>1, CallLeaves DEF Leaves
  <2>3. \A m \in Mutex : Promised(t, m) => Promised(t, m)'
    BY <2>1 DEF Finish, InUser, Promised, TypeOK
  <2> QED
    BY <2>1, <2>2, <2>3, NobodyAdvances
<1> QED
  BY <1>1, <1>2, <1>3, <1>4, <1>5, <1>6, <1>7, <1>8 DEF AppNext, ThreadStep


-----------------------------------------------------------------------------
(* What a thread has read *)

\* A thread that the step leaves between its read and its write.
LEMMA StillLoaded ==
  ASSUME LoadInv, NEW x \in Thread, loaded[x] # <<>>,
         UNCHANGED program, loaded'[x] = loaded[x], next_call'[x] = next_call[x],
         program \in Preempted /\ pc[x] \in {"user", "yield"} => pc'[x] \in {"user", "yield"},
         program \notin Preempted /\ InUser(x) => InUser(x)',
         Instruction(x)[2] = "g" => value'["g"] = value["g"]
  PROVE  Between(x)' /\ (Instruction(x)'[2] = "g" => loaded'[x][1] = value'["g"])
<1>1. Text(x)' = Text(x)
  BY DEF Text
<1>2. Instruction(x)' = Instruction(x)
  BY <1>1 DEF Instruction
<1>3. Between(x) /\ (Instruction(x)[2] = "g" => loaded[x][1] = value["g"])
  BY DEF LoadInv
<1>4. Between(x)'
  BY <1>1, <1>2, <1>3 DEF Between
<1> QED
  BY <1>2, <1>3, <1>4

\* A step of the CPU, the host or the thread that is switched to.
LEMMA LoadKeptByLibrary ==
  ASSUME TypeOK, LoadInv, UNCHANGED appVars, HostStep \/ Switch \/ \E t \in Thread : LibraryStep(t)
  PROVE  LoadInv'
<1> SUFFICES ASSUME NEW x \in Thread, loaded'[x] # <<>>
             PROVE  Between(x)' /\ (Instruction(x)'[2] = "g" => loaded'[x][1] = value'["g"])
  BY DEF LoadInv
<1>1. loaded[x] # <<>> /\ UNCHANGED <<program, next_call, value, loaded>>
  BY DEF appVars
<1>2. CASE HostStep \/ Switch
  <2>1. pc' = pc
    BY <1>2 DEF HostStep, HostDispatch, HostResumed, HostSuspend, Switch
  <2>2. ~InUser(x)
    BY <1>2 DEF HostStep, HostDispatch, HostResumed, HostSuspend, Switch, InUser
  <2> QED
    BY <1>1, <2>1, <2>2, StillLoaded
<1>3. ASSUME NEW t \in Thread, LibraryStep(t)
      PROVE  Between(x)' /\ (Instruction(x)'[2] = "g" => loaded'[x][1] = value'["g"])
  <2>1. pc[x] \in {"user", "yield"} => pc'[x] \in {"user", "yield"}
    BY <1>3, ResumeLeaves
  <2>2. ~InUser(x)
    BY <1>3 DEF LibraryStep, Return, ReturnWithMutex, WakeFree, WakeBusy, Resumed, InUser
  <2> QED
    BY <1>1, <2>1, <2>2, StillLoaded
<1> QED
  BY <1>2, <1>3

\* A call of one of the threads: the others do not have the CPU.
LEMMA LoadKeptByCall ==
  ASSUME TypeOK, LoadInv, NEW t \in Thread, [UserStep(t)]_vars, InUser(t),
         UNCHANGED <<program, value, loaded>>, \A x \in Thread \ {t} : next_call'[x] = next_call[x],
         loaded[t] # <<>> => next_call'[t] = next_call[t]
                             /\ pc'[t] \in {"user", "yield"}
                             /\ (program \notin Preempted => InUser(t)')
  PROVE  LoadInv'
<1> SUFFICES ASSUME NEW x \in Thread, loaded'[x] # <<>>
             PROVE  Between(x)' /\ (Instruction(x)'[2] = "g" => loaded'[x][1] = value'["g"])
  BY DEF LoadInv
<1>1. CASE x = t
  BY <1>1, StillLoaded
<1>2. CASE x # t
  <2>1. ~InUser(x)
    BY <1>2 DEF InUser
  <2>2. pc[x] \in {"user", "yield"} => pc'[x] = pc[x]
    <3>1. CASE UserStep(t)
      BY <1>2, <3>1, CallLeaves DEF Leaves
    <3>2. CASE UNCHANGED vars
      BY <3>2 DEF vars
    <3> QED
      BY <3>1, <3>2
  <2> QED
    BY <1>2, <2>1, <2>2, StillLoaded
<1> QED
  BY <1>1, <1>2

\* A thread that has read g, and is to write it, keeps all others from it: in
\* a program that the timer interrupts it has their common mutex, in another
\* it has the CPU.
LEMMA OneAtATime ==
  ASSUME IInv, AppTypes, HeldInv, LoadInv,
         NEW t \in Thread, loaded[t] # <<>>, Instruction(t)[2] = "g",
         NEW x \in Thread, loaded[x] # <<>>, Instruction(x)[2] = "g"
  PROVE  x = t
<1>1. Between(t) /\ Between(x)
  BY DEF LoadInv
<1>2. CASE program \notin Preempted
  BY <1>1, <1>2 DEF Between, InUser
<1>3. CASE program \in Preempted
  <2>1. PICK m \in Mutex : \A y : \A i \in 1 .. Len(Text(y)) : IncrementAt(Text(y), i) => Behind(Text(y), i, m)
    BY <1>3, OneMutex DEF AppTypes
  <2>2. ASSUME NEW y \in Thread, Between(y), Instruction(y)[2] = "g" PROVE m \in held[y]
    <3>1. next_call[y] \in 1 .. Len(Text(y))
      BY <2>2, TextFacts DEF Between, AppTypes
    <3>2. IncrementAt(Text(y), next_call[y])
      BY <2>2 DEF Between, Instruction, IncrementAt
    <3>3. Behind(Text(y), next_call[y], m)
      BY <2>1, <3>1, <3>2
    <3>4. next_call[y] <= Len(Text(y))
      BY <2>2 DEF Between
    <3>5. Promised(y, m)
      BY <3>3, <3>4 DEF HeldInv
    <3> QED
      BY <1>3, <2>2, <3>5 DEF Promised, Between
  <2>3. m \in held[t] /\ m \in held[x]
    BY <1>1, <2>2
  <2> QED
    BY <2>3 DEF IInv, MutualExclusion
<1> QED
  BY <1>2, <1>3

\* A write changes what no other thread has read.
LEMMA LoadKeptByStore ==
  ASSUME IInv, AppTypes, HeldInv, LoadInv, NEW t \in Thread, Store(t)
  PROVE  LoadInv'
<1> SUFFICES ASSUME NEW x \in Thread, loaded'[x] # <<>>
             PROVE  Between(x)' /\ (Instruction(x)'[2] = "g" => loaded'[x][1] = value'["g"])
  BY DEF LoadInv
<1>1. /\ UNCHANGED vars /\ UNCHANGED program
      /\ loaded' = [loaded EXCEPT ![t] = <<>>] /\ Advance(t)
  BY DEF Store, Own
<1>2. x # t
  BY <1>1 DEF AppTypes
<1>3. loaded'[x] = loaded[x] /\ next_call'[x] = next_call[x]
  BY <1>1, <1>2 DEF Advance, AppTypes
<1>4. UNCHANGED pc /\ (InUser(x) => InUser(x)')
  BY <1>1 DEF vars, cpuVars, InUser
<1>5. Instruction(x)[2] = "g" => value'["g"] = value["g"]
  <2>1. CASE At(t, {"inc"}) /\ loaded[t] # <<>> /\ value' = [value EXCEPT ![Instruction(t)[2]] = loaded[t][1] + 1]
    <3>1. ~(Instruction(t)[2] = "g" /\ Instruction(x)[2] = "g")
      BY <1>2, <1>3, <2>1, OneAtATime
    <3> QED
      BY <2>1, <3>1 DEF AppTypes
  <2>2. CASE At(t, {"set"}) /\ value' = [value EXCEPT ![Instruction(t)[2]] = Instruction(t)[3]]
    <3>1. Instruction(t)[2] # "g"
      BY <2>2, AtFacts, TextFacts DEF AppTypes
    <3> QED
      BY <2>2, <3>1 DEF AppTypes
  <2> QED
    BY <2>1, <2>2 DEF Store
<1> QED
  BY <1>1, <1>3, <1>4, <1>5, StillLoaded

\* What a thread has read it writes before the variable changes.
LEMMA LoadKept ==
  ASSUME IInv, AppTypes, HeldInv, LoadInv, [AppNext]_avars
  PROVE  LoadInv'
<1>0. TypeOK
  BY DEF IInv
<1>1. CASE Library
  BY <1>0, <1>1, LoadKeptByLibrary DEF Library
<1>2. CASE Timer
  <2>1. PICK t \in Thread : Yield(t)
    BY <1>2 DEF Timer
  <2>2. UserStep(t) /\ InUser(t) /\ pc'[t] = "yield"
    BY <1>0, <2>1 DEF UserStep, Yield, TypeOK
  <2>3. UNCHANGED <<program, next_call, value, loaded>> /\ program \in Preempted
    BY <1>2 DEF Timer, appVars
  <2> QED
    BY <1>0, <2>2, <2>3, LoadKeptByCall
<1>3. CASE Over \/ UNCHANGED avars
  <2>1. UNCHANGED vars /\ UNCHANGED <<program, next_call, value, loaded>>
    BY <1>3 DEF Over, Suspended, avars, appVars
  <2>2. UNCHANGED pc /\ \A x \in Thread : InUser(x) => InUser(x)'
    BY <2>1 DEF vars, cpuVars, InUser
  <2>3. ASSUME NEW x \in Thread, loaded'[x] # <<>>
        PROVE  Between(x)' /\ (Instruction(x)'[2] = "g" => loaded'[x][1] = value'["g"])
    BY <2>1, <2>2, <2>3, StillLoaded
  <2> QED
    BY <2>3 DEF LoadInv
<1>4. ASSUME NEW t \in Thread,
             LibraryCall(t) \/ WaitLoop(t) \/ Jump(t) \/ Throw(t) \/ FollowNull(t) \/ Exit(t)
             \/ FunctionReturns(t)
      PROVE  LoadInv'
  <2>1. [UserStep(t)]_vars
    BY <1>4, ThreadStepIsUserStep DEF ThreadStep
  <2>2. loaded[t] = <<>>
    <3>1. loaded[t] # <<>> => next_call[t] <= Len(Text(t)) /\ Instruction(t)[1] = "inc"
      BY DEF LoadInv, Between
    <3>2. CASE FunctionReturns(t)
      <4>1. next_call[t] > Len(Text(t)) /\ next_call[t] \in Nat /\ Len(Text(t)) \in Nat
        BY <3>2, TextFacts DEF FunctionReturns, AppTypes
      <4> QED
        BY <3>1, <4>1
    <3>3. CASE ~FunctionReturns(t)
      <4>1. Instruction(t)[1] # "inc"
        BY <1>4, <3>3 DEF LibraryCall, WaitLoop, Jump, Throw, FollowNull, Exit, At
      <4> QED
        BY <3>1, <4>1
    <3> QED
      BY <3>2, <3>3
  <2>3. UNCHANGED <<program, value, loaded>>
    BY <1>4 DEF LibraryCall, WaitLoop, Jump, Throw, FollowNull, Exit, FunctionReturns, appVars
  <2>4. \A x \in Thread \ {t} : next_call'[x] = next_call[x]
    BY <1>4 DEF LibraryCall, WaitLoop, Jump, Throw, FollowNull, Exit, FunctionReturns, appVars, Advance, AppTypes
  <2>5. InUser(t)
    <3>1. CASE LibraryCall(t)
      <4>1. PICK call : call = Instruction(t)
        OBVIOUS
      <4>2. call[1] \in {"create", "join", "follow", "lock", "unlock", "wait", "yield", "signal", "broadcast"}
        BY <3>1, <4>1 DEF LibraryCall, At
      <4> QED
        BY <3>1, <4>1, <4>2
           DEF LibraryCall, Create, Join, JoinExpired, LockFree, LockBusy, Unlock, Wait, Yield, YieldAlone, Signal,
               NobodyWaits, Broadcast
    <3>2. CASE ~LibraryCall(t)
      BY <1>4, <3>2 DEF WaitLoop, Wait, Own, Jump, Throw, FollowNull, NotOwner, Exit, FunctionReturns, Finish
    <3> QED
      BY <3>1, <3>2
  <2> QED
    BY <1>0, <2>1, <2>2, <2>3, <2>4, <2>5, LoadKeptByCall
<1>5. ASSUME NEW t \in Thread, Load(t) PROVE LoadInv'
  <2>1. /\ UNCHANGED vars /\ UNCHANGED <<program, next_call, value>> /\ InUser(t) /\ At(t, {"inc"})
        /\ loaded' = [loaded EXCEPT ![t] = <<value[Instruction(t)[2]]>>]
    BY <1>5 DEF Load, Own
  <2>2. UNCHANGED pc /\ \A x \in Thread : InUser(x) => InUser(x)'
    BY <2>1 DEF vars, cpuVars, InUser
  <2> SUFFICES ASSUME NEW x \in Thread, loaded'[x] # <<>>
               PROVE  Between(x)' /\ (Instruction(x)'[2] = "g" => loaded'[x][1] = value'["g"])
    BY DEF LoadInv
  <2>3. CASE x # t
    <3>1. loaded'[x] = loaded[x]
      BY <2>1, <2>3 DEF AppTypes
    <3> QED
      BY <2>1, <2>2, <3>1, StillLoaded
  <2>4. CASE x = t
    <3>1. Text(t)' = Text(t)
      BY <2>1 DEF Text
    <3>2. Instruction(t)' = Instruction(t)
      BY <2>1, <3>1 DEF Instruction
    <3>3. Between(t)'
      BY <2>1, <2>2, <3>1, <3>2 DEF Between, At, InUser
    <3>4. loaded'[t] = <<value[Instruction(t)[2]]>>
      BY <2>1 DEF AppTypes
    <3> QED
      BY <2>1, <2>4, <3>2, <3>3, <3>4
  <2> QED
    BY <2>3, <2>4
<1>6. ASSUME NEW t \in Thread, Store(t) PROVE LoadInv'
  BY <1>6, LoadKeptByStore
<1> QED
  BY <1>1, <1>2, <1>3, <1>4, <1>5, <1>6 DEF AppNext, ThreadStep

-----------------------------------------------------------------------------
(* How often g was incremented *)

\* The increments made are the places that threads have gone past.
LEMMA IncrementsMember ==
  /\ \A t, i : <<t, i>> \in Increments <=>
       t \in Thread /\ i \in 1 .. (next_call[t] - 1) /\ IncrementAt(Text(t), i)
  /\ \A e \in Increments : e = <<e[1], e[2]>>
  BY DEF Increments

\* The increments after a step, of the places gone past then.
LEMMA IncrementsMemberNext ==
  /\ \A t, i : <<t, i>> \in Increments' <=>
       t \in Thread /\ i \in 1 .. (next_call'[t] - 1) /\ IncrementAt(Text(t)', i)
  /\ \A e \in Increments' : e = <<e[1], e[2]>>
  BY DEF Increments, IncrementAt

\* A step in which no thread goes past an increment.
LEMMA SameCount ==
  ASSUME CountInv, UNCHANGED program, value'["g"] = value["g"],
         \A x \in Thread : \A i :
           i \in 1 .. (next_call'[x] - 1) /\ IncrementAt(Text(x), i)
             <=> i \in 1 .. (next_call[x] - 1) /\ IncrementAt(Text(x), i)
  PROVE  CountInv'
<1>1. \A x : Text(x)' = Text(x)
  BY DEF Text
<1>2. \A x, i : <<x, i>> \in Increments' <=> <<x, i>> \in Increments
  BY <1>1, IncrementsMember, IncrementsMemberNext
<1>3. Increments' = Increments
  BY <1>2, IncrementsMember, IncrementsMemberNext
<1> QED
  BY <1>3 DEF CountInv, NoLostUpdate

\* A step in which no thread goes on.
LEMMA CountIdle ==
  ASSUME CountInv, UNCHANGED <<program, value, next_call>>
  PROVE  CountInv'
  BY SameCount

\* A step in which t goes past an instruction that does not increment g.
LEMMA CountPast ==
  ASSUME AppTypes, CountInv, NEW t \in Thread, next_call[t] \in 1 .. Len(Text(t)),
         UNCHANGED program, Advance(t), value'["g"] = value["g"],
         ~IncrementAt(Text(t), next_call[t])
  PROVE  CountInv'
<1>1. ASSUME NEW x \in Thread, NEW i
      PROVE  i \in 1 .. (next_call'[x] - 1) /\ IncrementAt(Text(x), i)
               <=> i \in 1 .. (next_call[x] - 1) /\ IncrementAt(Text(x), i)
  <2>1. CASE x # t
    BY <2>1 DEF Advance, AppTypes
  <2>2. CASE x = t
    <3>1. next_call'[t] = next_call[t] + 1 /\ next_call[t] \in Nat \ {0}
      BY DEF Advance, AppTypes
    <3>2. i \in 1 .. (next_call'[t] - 1) <=> i \in 1 .. (next_call[t] - 1) \/ i = next_call[t]
      BY <3>1
    <3> QED
      BY <2>2, <3>2
  <2> QED
    BY <2>1, <2>2
<1> QED
  BY <1>1, SameCount

\* A step in which t goes past an increment of g, and g is one more.
LEMMA CountOne ==
  ASSUME AppTypes, CountInv, NEW t \in Thread, next_call[t] \in 1 .. Len(Text(t)),
         UNCHANGED program, Advance(t), value'["g"] = value["g"] + 1,
         IncrementAt(Text(t), next_call[t])
  PROVE  CountInv'
<1>1. PICK n : n = next_call[t] /\ n \in Nat \ {0} /\ next_call'[t] = n + 1
  BY DEF Advance, AppTypes
<1>2. \A x : Text(x)' = Text(x)
  BY DEF Text
<1>3. \A x \in Thread \ {t} : next_call'[x] = next_call[x]
  BY DEF Advance, AppTypes
<1>4. \A i : i \in 1 .. (next_call'[t] - 1) <=> i \in 1 .. (next_call[t] - 1) \/ i = n
  BY <1>1
<1>5. \A x, i : <<x, i>> \in Increments' <=> <<x, i>> \in Increments \/ (x = t /\ i = n)
  BY <1>1, <1>2, <1>3, <1>4, IncrementsMember, IncrementsMemberNext
<1>6. Increments' = Increments \cup {<<t, n>>}
  <2>1. \A e : e \in Increments' => e \in Increments \cup {<<t, n>>}
    BY <1>5, IncrementsMemberNext
  <2>2. \A e : e \in Increments \cup {<<t, n>>} => e \in Increments'
    BY <1>5, IncrementsMember
  <2> QED
    BY <2>1, <2>2
<1>7. <<t, n>> \notin Increments
  BY <1>1, IncrementsMember
<1>8. IsFiniteSet(Increments') /\ Cardinality(Increments') = Cardinality(Increments) + 1
  BY <1>6, <1>7, FS_AddElement DEF CountInv
<1> QED
  BY <1>8 DEF CountInv, NoLostUpdate

\* Only a write counts, and it counts as one.
LEMMA CountKept ==
  ASSUME AppTypes, LoadInv, CountInv, [AppNext]_avars
  PROVE  CountInv'
<1>1. CASE Library \/ Timer \/ Over \/ UNCHANGED avars
  BY <1>1, CountIdle DEF Library, Timer, Over, avars, appVars
<1>2. ASSUME NEW t \in Thread, LibraryCall(t) \/ WaitLoop(t) \/ Load(t) \/ Throw(t) \/ FollowNull(t) \/ Exit(t)
                             \/ FunctionReturns(t)
      PROVE  CountInv'
  <2>1. UNCHANGED <<program, value>> /\ (UNCHANGED next_call \/ Advance(t))
    BY <1>2 DEF LibraryCall, WaitLoop, Load, Throw, FollowNull, Exit, FunctionReturns, appVars
  <2>2. CASE UNCHANGED next_call
    BY <2>1, <2>2, CountIdle
  <2>3. CASE Advance(t)
    <3>1. next_call'[t] # next_call[t]
      BY <2>3 DEF Advance, AppTypes
    <3>2. CASE LibraryCall(t) \/ WaitLoop(t) \/ Throw(t)
      <4>1. PICK ops : At(t, ops) /\ "inc" \notin ops
        <5>1. \/ At(t, {"create", "join", "follow", "lock", "unlock", "wait", "yield", "signal", "broadcast"})
              \/ At(t, {"await"}) \/ At(t, {"try", "unlock", "wait"})
          BY <3>2 DEF LibraryCall, WaitLoop, Throw
        <5> QED
          BY <5>1
      <4>2. next_call[t] \in 1 .. Len(Text(t)) /\ Instruction(t)[1] # "inc"
        BY <4>1, AtFacts
      <4>3. ~IncrementAt(Text(t), next_call[t])
        BY <4>2 DEF IncrementAt, Instruction
      <4> QED
        BY <2>1, <2>3, <4>2, <4>3, CountPast
    <3> QED
      BY <1>2, <3>1, <3>2 DEF Load, FollowNull, Exit, FunctionReturns, appVars
  <2> QED
    BY <2>1, <2>2, <2>3
<1>3. ASSUME NEW t \in Thread, Jump(t) PROVE CountInv'
  <2>1. /\ next_call[t] \in 1 .. Len(Text(t)) /\ Instruction(t)[1] \in {"until", "again"}
        /\ UNCHANGED <<program, value>>
    BY <1>3, AtFacts DEF Jump
  <2>2. \A j \in 1 .. Len(Text(t)) : ~IncrementAt(Text(t), j)
    BY <2>1, TextFacts DEF Instruction, AppTypes
  <2>3. Len(Text(t)) \in Nat /\ next_call[t] \in Nat
    BY TextFacts DEF AppTypes
  <2>4. PICK n \in 1 .. (Len(Text(t)) + 1) : next_call' = [next_call EXCEPT ![t] = n]
    <3>1. next_call' \in {[next_call EXCEPT ![t] = Len(Text(t)) + 1], [next_call EXCEPT ![t] = next_call[t] + 1],
                          [next_call EXCEPT ![t] = 1]}
      BY <1>3 DEF Jump
    <3>2. Len(Text(t)) + 1 \in 1 .. (Len(Text(t)) + 1) /\ next_call[t] + 1 \in 1 .. (Len(Text(t)) + 1)
          /\ 1 \in 1 .. (Len(Text(t)) + 1)
      BY <2>1, <2>3
    <3> QED
      BY <3>1, <3>2
  <2>5. ASSUME NEW x \in Thread, NEW i
        PROVE  i \in 1 .. (next_call'[x] - 1) /\ IncrementAt(Text(x), i)
                 <=> i \in 1 .. (next_call[x] - 1) /\ IncrementAt(Text(x), i)
    <3>1. CASE x # t
      BY <2>4, <3>1 DEF AppTypes
    <3>2. CASE x = t
      <4>1. next_call'[t] = n
        BY <2>4 DEF AppTypes
      <4>2. i \in 1 .. (n - 1) \/ i \in 1 .. (next_call[t] - 1) => i \in 1 .. Len(Text(t))
        BY <2>1, <2>3
      <4> QED
        BY <2>2, <3>2, <4>1, <4>2
    <3> QED
      BY <3>1, <3>2
  <2> QED
    BY <2>1, <2>5, SameCount
<1>4. ASSUME NEW t \in Thread, Store(t) PROVE CountInv'
  <2>1. next_call[t] \in 1 .. Len(Text(t)) /\ Advance(t) /\ UNCHANGED program
    BY <1>4, AtFacts DEF Store
  <2>2. CASE At(t, {"inc"}) /\ loaded[t] # <<>> /\ value' = [value EXCEPT ![Instruction(t)[2]] = loaded[t][1] + 1]
    <3>1. Instruction(t) = Text(t)[next_call[t]] /\ Instruction(t)[1] = "inc"
      BY <2>2, AtFacts
    <3>2. CASE Instruction(t)[2] = "g"
      <4>1. loaded[t][1] = value["g"]
        BY <2>2, <3>2 DEF LoadInv
      <4>2. value'["g"] = value["g"] + 1
        BY <2>2, <3>2, <4>1 DEF AppTypes
      <4>3. IncrementAt(Text(t), next_call[t])
        BY <3>1, <3>2 DEF IncrementAt
      <4> QED
        BY <2>1, <4>2, <4>3, CountOne
    <3>3. CASE Instruction(t)[2] # "g"
      <4>1. value'["g"] = value["g"]
        BY <2>2, <3>3 DEF AppTypes
      <4>2. ~IncrementAt(Text(t), next_call[t])
        BY <3>1, <3>3 DEF IncrementAt
      <4> QED
        BY <2>1, <4>1, <4>2, CountPast
    <3> QED
      BY <3>2, <3>3
  <2>3. CASE At(t, {"set"}) /\ value' = [value EXCEPT ![Instruction(t)[2]] = Instruction(t)[3]]
    <3>1. Instruction(t) = Text(t)[next_call[t]] /\ Instruction(t)[1] = "set"
      BY <2>3, AtFacts
    <3>2. Instruction(t)[2] # "g"
      BY <2>1, <3>1, TextFacts DEF AppTypes
    <3>3. value'["g"] = value["g"]
      BY <2>3, <3>2 DEF AppTypes
    <3>4. ~IncrementAt(Text(t), next_call[t])
      BY <3>1 DEF IncrementAt
    <3> QED
      BY <2>1, <3>3, <3>4, CountPast
  <2> QED
    BY <1>4, <2>2, <2>3 DEF Store
<1> QED
  BY <1>1, <1>2, <1>3, <1>4 DEF AppNext, ThreadStep

-----------------------------------------------------------------------------
(* The invariant *)

\* The initial state of every program.
LEMMA AppInvInit == AppInit => AppInv
<1> SUFFICES ASSUME AppInit PROVE AppInv
  OBVIOUS
<1>1. IInv
  BY InitEstablishesIInv DEF AppInit
<1>2. \A text, m : ~Behind(text, 1, m)
  BY DEF Behind
<1>3. HeldInv
  BY <1>2 DEF AppInit, HeldInv
<1>4. LoadInv
  BY DEF AppInit, LoadInv
<1>5. Increments = {}
  BY DEF AppInit, Increments
<1>6. CountInv
  BY <1>5, FS_EmptySet DEF AppInit, CountInv, NoLostUpdate, Shared
<1> QED
  BY <1>1, <1>3, <1>4, <1>6, TypesInit DEF AppInv

\* Every step of a program keeps it.
LEMMA AppInvKept == AppInv /\ [AppNext]_avars => AppInv'
<1> SUFFICES ASSUME AppInv, [AppNext]_avars PROVE AppInv'
  OBVIOUS
<1>1. IInv'
  BY AppStepIsStep, NextKeepsIInv DEF AppInv
<1>2. AppTypes'
  BY TypesKept DEF AppInv
<1>3. HeldInv'
  BY HeldKept DEF AppInv
<1>4. LoadInv'
  BY LoadKept DEF AppInv
<1>5. CountInv'
  BY CountKept DEF AppInv
<1> QED
  BY <1>1, <1>2, <1>3, <1>4, <1>5 DEF AppInv

\* No increment of g is lost, whenever the timer interrupts a program: a thread
\* writes what it has read before another reads it, because the mutex that the
\* program puts around its increments is exclusive (test1.cpp:21-32), or because
\* the thread has the CPU from the read to the write.
THEOREM IncrementsKept == AppSpec => []NoLostUpdate
<1>1. AppInv => NoLostUpdate
  BY DEF AppInv, CountInv
<1> QED
  BY <1>1, AppInvInit, AppInvKept, PTL DEF AppSpec
=============================================================================
