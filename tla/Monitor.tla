------------------------------- MODULE Monitor -------------------------------
(***************************************************************************)
(* What the thread library promises a program (thread.h, mutex.h and cv.h, *)
(* and the error and order rules the tests of Project2 rely on), without   *)
(* any scheduling: Mesa monitors whose mutexes serve their waiters in      *)
(* order, condition variables that wake their waiters in order, and joins  *)
(* that end only after the thread they wait for.                           *)
(***************************************************************************)
EXTENDS Naturals, Sequences

CONSTANTS Thread, Mutex, Cv, Main, Nobody

VARIABLES holder,    \* the thread a lock() or wait() of the mutex last returned to
          line,      \* threads that asked for the mutex and do not have it yet, in order
          waiting,   \* threads waiting on the condition variable, in order
          phase,     \* what each thread is doing
          object     \* the mutex or thread a blocked thread asks for

mvars == <<holder, line, waiting, phase, object>>

MInit ==
  /\ holder = [m \in Mutex |-> Nobody]
  /\ line = [m \in Mutex |-> <<>>]
  /\ waiting = [c \in Cv |-> <<>>]
  /\ phase = [t \in Thread |-> IF t = Main THEN "active" ELSE "unborn"]
  /\ object = [t \in Thread |-> Nobody]

Becomes(t, p, o) ==
  /\ phase' = [phase EXCEPT ![t] = p]
  /\ object' = [object EXCEPT ![t] = o]

MCreate(t, u) ==
  /\ phase[t] = "active" /\ phase[u] = "unborn"
  /\ Becomes(u, "active", Nobody)
  /\ UNCHANGED <<holder, line, waiting>>

MExit(t) ==
  /\ phase[t] = "active"
  /\ Becomes(t, "done", Nobody)
  /\ UNCHANGED <<holder, line, waiting>>

\* A free mutex nobody is in line for is taken at once.
MTake(t, m) ==
  /\ \/ phase[t] = "active"
     \/ phase[t] = "woken" /\ object[t] = m
  /\ holder[m] = Nobody /\ line[m] = <<>>
  /\ holder' = [holder EXCEPT ![m] = t]
  /\ Becomes(t, "active", Nobody)
  /\ UNCHANGED <<line, waiting>>

\* Otherwise the thread gets in line, with the mutex held or about to be.
MQueue(t, m) ==
  /\ \/ phase[t] = "active"
     \/ phase[t] = "woken" /\ object[t] = m
  /\ holder[m] # Nobody \/ line[m] # <<>>
  /\ line' = [line EXCEPT ![m] = Append(@, t)]
  /\ Becomes(t, "inline", m)
  /\ UNCHANGED <<holder, waiting>>

MAcquire(t, m) ==
  /\ holder[m] = Nobody /\ line[m] # <<>> /\ Head(line[m]) = t
  /\ holder' = [holder EXCEPT ![m] = t]
  /\ line' = [line EXCEPT ![m] = Tail(@)]
  /\ Becomes(t, "active", Nobody)
  /\ UNCHANGED waiting

MRelease(t, m) ==
  /\ phase[t] = "active" /\ holder[m] = t
  /\ holder' = [holder EXCEPT ![m] = Nobody]
  /\ UNCHANGED <<line, waiting, phase, object>>

MWait(t, c, m) ==
  /\ phase[t] = "active" /\ holder[m] = t
  /\ holder' = [holder EXCEPT ![m] = Nobody]
  /\ waiting' = [waiting EXCEPT ![c] = Append(@, t)]
  /\ Becomes(t, "waiting", m)
  /\ UNCHANGED line

\* Signal wakes the first waiter, broadcast all of them, and no other step does.
MWake(c) ==
  /\ \E t \in Thread : phase[t] = "active"
  /\ waiting[c] # <<>>
  /\ \E k \in {1, Len(waiting[c])} :
       /\ phase' = [t \in Thread |-> IF \E i \in 1..k : waiting[c][i] = t
                                     THEN "woken" ELSE phase[t]]
       /\ waiting' = [waiting EXCEPT ![c] = SubSeq(@, k + 1, Len(@))]
  /\ UNCHANGED <<holder, line, object>>

MJoin(t, u) ==
  /\ phase[t] = "active" /\ phase[u] \notin {"unborn", "done"}
  /\ Becomes(t, "joining", u)
  /\ UNCHANGED <<holder, line, waiting>>

MJoined(t) ==
  /\ phase[t] = "joining" /\ phase[object[t]] = "done"
  /\ Becomes(t, "active", Nobody)
  /\ UNCHANGED <<holder, line, waiting>>

MNext ==
  \/ \E t, u \in Thread : MCreate(t, u) \/ MJoin(t, u)
  \/ \E t \in Thread : MExit(t) \/ MJoined(t)
  \/ \E t \in Thread, m \in Mutex : MTake(t, m) \/ MQueue(t, m) \/ MAcquire(t, m) \/ MRelease(t, m)
  \/ \E t \in Thread, c \in Cv, m \in Mutex : MWait(t, c, m)
  \/ \E c \in Cv : MWake(c)

MSpec == MInit /\ [][MNext]_mvars
=============================================================================
