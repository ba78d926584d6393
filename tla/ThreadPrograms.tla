---------------------------- MODULE ThreadPrograms ----------------------------
(***************************************************************************)
(* The programs of Project2 that use the thread library: test1 to test21   *)
(* and app.  A program gives each of its threads the list of the calls and *)
(* the accesses to shared variables its function makes, loops unrolled.    *)
(* What is printed is left out.  test6 is not here: its threads use        *)
(* pointers to thread objects on the stack of a parent that has returned.  *)
(***************************************************************************)
EXTENDS Naturals, Sequences

LOCAL INSTANCE SequencesExt

CONSTANT Rounds    \* how often a loop of 5 rounds in the tests is repeated

ASSUME RoundsAssumption == Rounds \in Nat \ {0}

-----------------------------------------------------------------------------
(* Instructions *)

lock(m)        == <<"lock", m>>
unlock(m)      == <<"unlock", m>>
wait(m)        == <<"wait", m>>
create(t)      == <<"create", t>>
join(t)        == <<"join", t>>
inc(x)         == <<"inc", x>>
set(x, n)      == <<"set", x, n>>
point(p, t)    == <<"set", p, t>>        \* p = &t, for a global pointer to a thread
follow(p)      == <<"follow", p>>        \* p->join()
await(x, n, m) == <<"await", x, n, m>>   \* while (x < n) cv1.wait(m);
until(x, n)    == <<"until", x, n>>      \* leave the function if x >= n
caught(call)   == <<"try", call[1], call[2]>>
yield          == <<"yield">>
signal         == <<"signal">>
broadcast      == <<"broadcast">>
again          == <<"again">>            \* back to the function's first instruction
exit           == <<"exit">>             \* the process ends
lock1          == lock("mutex1")
lock2          == lock("mutex2")
unlock1        == unlock("mutex1")
unlock2        == unlock("mutex2")
wait1          == wait("mutex1")
g_inc          == inc("g")

Times(n, body) == FlattenSeq([i \in 1..n |-> body])

\* The loop most tests run in one or more threads, and the same behind a lock.
Iterate(m) == Times(Rounds, <<unlock(m), yield, lock(m), g_inc>>) \o <<unlock(m)>>
Loop       == <<lock1>> \o Iterate("mutex1")

\* The first lines of most parents.
Hello == <<lock1, unlock1>>

-----------------------------------------------------------------------------
(* Programs: the instructions of each thread *)

\* Two children and then the parent run the loop.
test1 ==
  [parent |-> Hello \o <<create("t1"), create("t2"), join("t1"), join("t2")>> \o Loop,
   t1     |-> Loop,
   t2     |-> Loop]

\* The parent ends with a mutex locked.
test2 ==
  [parent |-> <<create("t1"), join("t1")>> \o Loop \o <<lock2>>,
   t1     |-> Loop]

\* Two waiters that a third thread wakes; the parent is gone by then.
test3 ==
  [parent |-> Hello \o <<create("t1"), create("t2"), create("t3")>>,
   t1     |-> <<lock1, g_inc, g_inc, wait1, yield, unlock1>>,
   t2     |-> <<lock1, wait1, g_inc, yield, g_inc, yield, g_inc, unlock1>>,
   t3     |-> <<lock1, g_inc, broadcast, g_inc, unlock1>>]

\* A train of joins, through pointers that the parent sets when it has created
\* all of the threads.
test4 ==
  [parent |-> Hello \o <<create("t1"), create("t2"), create("t3"), point("t4", "t1"),
                         point("t5", "t2"), point("t6", "t3"), yield, follow("t4")>>,
   t1     |-> <<follow("t5")>>,
   t2     |-> <<follow("t6")>>,
   t3     |-> <<yield, yield, yield>>]

\* Threads that join t1 while they have the mutex t1 needs.
test5 ==
  LET loop == <<lock1, follow("t0")>> \o Iterate("mutex1") IN
  [parent |-> <<lock1, create("t1"), point("t0", "t1"), unlock1, create("t2"), create("t3"),
                join("t2"), join("t3")>> \o loop,
   t1     |-> Loop,
   t2     |-> loop,
   t3     |-> loop]

\* A join on a thread that ended before an earlier join on it returned.
test7 ==
  [parent |-> Hello \o <<create("t1"), create("t2"), join("t1")>> \o Loop \o <<join("t1")>>,
   t1     |-> Loop,
   t2     |-> Loop]

\* One condition variable with two mutexes.
test8 ==
  [parent |-> Hello \o <<create("t1"), create("t2"), yield, broadcast>>,
   t1     |-> <<lock1, wait1>> \o Iterate("mutex1"),
   t2     |-> <<lock2, wait("mutex2")>> \o Iterate("mutex2")]

\* The wait loop of test9 and test19, and the thread that makes it end.
Waiter == <<lock1>> \o Times(Rounds, <<await("hg", 3, "mutex1"), inc("hg"), signal, g_inc>>)
                    \o <<unlock1>>
Waker  == <<lock1>> \o Times(Rounds, <<inc("hg"), unlock1, yield, lock1, signal, g_inc>>)
                    \o <<unlock1>>

test9 ==
  [parent |-> Hello \o <<create("t1"), create("t2")>> \o Waker,
   t1     |-> Waiter,
   t2     |-> Waiter]

\* A waiter that is signalled once and waits again.
test10 ==
  [parent |-> Hello \o <<create("t1"), create("t2")>>
                    \o Times(3, <<lock1, inc("print_num"), yield, unlock1>>),
   t1     |-> <<lock2>> \o Times(Rounds, <<yield, wait("mutex2"), set("print_num", 0), unlock2,
                                           lock2, g_inc>>) \o <<unlock2>>,
   t2     |-> Times(3, <<lock2, inc("print_num"), unlock2>>) \o <<signal>>]

\* A thread joins another that needs the mutex it has.
test11 ==
  [parent |-> <<lock1, create("t1"), point("t3", "t1"), create("t2"), point("t4", "t2"), unlock1,
                follow("t3")>>,
   t1     |-> <<lock1, wait1, follow("t4")>> \o Iterate("mutex1"),
   t2     |-> <<lock1, signal, yield>> \o Iterate("mutex1")]

\* Two printers broadcast until two loops are done; t2 and t3 print.
test12 ==
  LET loop  == <<lock1>> \o Times(Rounds, <<await("print_done", 1, "mutex1"),
                                            set("print_done", 0), unlock1, lock1, g_inc>>)
                         \o <<inc("loop_done"), unlock1>>
      print == <<until("loop_done", 2), lock1, set("print_done", 1), unlock1, broadcast,
                 yield, again>> IN
  [parent |-> Hello \o <<create("t2"), create("t3"), create("t1")>> \o loop,
   t1     |-> loop,
   t2     |-> print,
   t3     |-> print]

\* wait and unlock without the mutex, with the exception caught.
test13 == [parent |-> <<caught(wait1), exit>>]
test14 == [parent |-> <<caught(unlock1)>>]

\* A thread ends with the mutex, another one unlocks it and catches nothing.
test15 ==
  [parent |-> <<create("t1"), join("t1"), create("t2")>>,
   t1     |-> <<lock1>>,
   t2     |-> <<unlock1>>]

\* A waiter and a broadcast among threads that yield.
test16 ==
  [parent |-> Hello \o <<create("t1"), create("t2"), create("t3"), yield, yield, yield>> \o Loop,
   t1     |-> <<g_inc, lock1, yield, g_inc, unlock1>>,
   t2     |-> <<g_inc, lock1, wait1, g_inc, unlock1>>,
   t3     |-> <<g_inc, lock1, broadcast, g_inc, yield, g_inc, unlock1>>]

\* The order in which waiters wake.
test17 ==
  LET loop == <<lock1, g_inc, g_inc, wait1, g_inc, signal, g_inc, unlock1>> IN
  [parent |-> Hello \o <<create("t1"), create("t2"), yield, signal, lock1, wait1, unlock1,
                         g_inc, broadcast>> \o loop,
   t1     |-> loop,
   t2     |-> loop]

\* One condition variable for two mutexes; the parent locks mutex2 twice, when
\* the waiters have ended if their loops are the shorter ones, as they are.
test18 ==
  LET waiter(m) == <<lock(m), await("g", 1, m)>>
                     \o Times(3, <<unlock(m), yield, lock(m), g_inc>>) \o <<unlock(m)>> IN
  [parent |-> <<create("t1"), create("t2"), lock1, lock2, broadcast>>
                \o Times(5, <<unlock2, g_inc, yield, lock2, unlock1, g_inc, yield, lock1,
                                   g_inc>>)
                \o <<lock2, unlock1>>,
   t1     |-> waiter("mutex1"),
   t2     |-> waiter("mutex2")]

\* test9 with six waiters.
test19 ==
  [parent |-> Hello \o <<create("t1"), create("t2"), create("t3"), create("t4"), create("t5"),
                         create("t6")>> \o Waker,
   t1 |-> Waiter, t2 |-> Waiter, t3 |-> Waiter, t4 |-> Waiter, t5 |-> Waiter, t6 |-> Waiter]

\* As test17, with another order of signals.
test20 ==
  LET loop == <<lock1, g_inc, signal, g_inc, wait1, g_inc, signal, g_inc, unlock1>> IN
  [parent |-> Hello \o <<create("t1"), create("t2"), lock1, wait1, unlock1, g_inc, signal>>
                    \o loop,
   t1     |-> loop,
   t2     |-> loop]

\* As test11, but the mutex is released before the join.
test21 ==
  [parent |-> <<lock1, create("t1"), point("t3", "t1"), create("t2"), point("t4", "t2"), unlock1,
                follow("t3")>>,
   t1     |-> Hello \o <<follow("t4")>> \o Loop,
   t2     |-> <<lock1, yield>> \o Iterate("mutex1")]

\* A child creates a child of its own and joins it twice; so does the parent.
app ==
  LET loop(t) == <<lock1, create(t)>> \o Times(2, <<unlock1, join(t), yield, lock1, g_inc>>)
                                      \o <<unlock1>> IN
  [parent |-> Hello \o <<create("t1"), join("t1")>> \o loop("t3"),
   t1     |-> loop("t2"),
   t2     |-> Loop,
   t3     |-> Loop]
=============================================================================
