------------------------- MODULE DiskSchedulerProofs -------------------------
(***************************************************************************)
(* Proofs about the disk scheduler, for any number of requesters, any      *)
(* queue and any files: the types, FullMeansFull, FilesInOrder and         *)
(* ShortestSeekFirst.  They all follow from one inductive invariant, which *)
(* says what requester_done and disk_queue_full stand for.  At the end:    *)
(* requesters and server never all wait for each other.                    *)
(***************************************************************************)
EXTENDS DiskScheduler, QueueFacts

Requests == Requester \X Nat

\* The types, in the form the steps need them.
TypeInv ==
  /\ files \in [Requester -> Seq(Nat) \ {<<>>}]
  /\ tracks \in [Requester -> Seq(Nat)]
  /\ cur_track \in Nat
  /\ requester_num \in Nat
  /\ disk_queue \in Seq(Requests)
  /\ served \in Seq(Requests)
  /\ disk_queue_full \in BOOLEAN
  /\ requester_done \in [Requester -> {-1, 0, 1}]
  /\ pc \in [Requester -> {"ready", "waiting", "done"}]
  /\ server \in {"ready", "waiting", "unlocked", "done"}

\* requester_done is 1 without a request in the queue; with one, it is 0 while
\* there are more to come, and -1 with the last.  A requester ends with its file.
DoneInv ==
  \A i \in Requester :
    /\ requester_done[i] = 1 <=> \A n \in DOMAIN disk_queue : disk_queue[n][1] # i
    /\ requester_done[i] = -1 => tracks[i] = <<>>
    /\ requester_done[i] = 0 => tracks[i] # <<>>
    /\ pc[i] = "done" <=> tracks[i] = <<>>

\* No two requests in the queue are of one requester.
DistinctInv ==
  \A n, m \in DOMAIN disk_queue : disk_queue[n][1] = disk_queue[m][1] => n = m

\* The server only looks at the queue while somebody is left to fill it.
CountInv ==
  /\ requester_num = Cardinality(Live)
  /\ Len(disk_queue) <= Capacity(requester_num)
  /\ disk_queue_full <=> Len(disk_queue) = Capacity(requester_num)
  /\ server \in {"ready", "waiting"} => requester_num # 0

\* How many tracks of its file requester i has posted.
Posted(i) == Served(i) + (IF requester_done[i] = 1 THEN 0 ELSE 1)

\* What has become of the tracks of each file.
OrderInv ==
  \A i \in Requester :
    /\ \A n \in DOMAIN served : served[n][1] = i => served[n][2] = files[i][Turn(i, n)]
    /\ \A n \in DOMAIN disk_queue : disk_queue[n][1] = i => disk_queue[n][2] = files[i][Served(i) + 1]
    /\ Posted(i) + Len(tracks[i]) = Len(files[i])
    /\ \A k \in 1 .. Len(tracks[i]) : tracks[i][k] = files[i][Posted(i) + k]

IInv == TypeInv /\ DoneInv /\ DistinctInv /\ CountInv /\ OrderInv

-----------------------------------------------------------------------------
(* The queue *)

\* The server finds a request, and none is nearer (the first of the nearest).
LEMMA NearestExists ==
  ASSUME TypeInv, disk_queue # <<>>
  PROVE  /\ Nearest \in 1 .. Len(disk_queue)
         /\ \A k \in 1 .. Len(disk_queue) :
              Distance(cur_track, disk_queue[Nearest][2]) <= Distance(cur_track, disk_queue[k][2])
<1>1. /\ Len(disk_queue) \in Nat \ {0} /\ DOMAIN disk_queue = 1 .. Len(disk_queue)
      /\ \A k \in DOMAIN disk_queue : disk_queue[k] \in Requests
  BY EmptySeq, LenProperties DEF TypeInv
<1> DEFINE d(k) == Distance(cur_track, disk_queue[k][2])
<1>2. \A k \in DOMAIN disk_queue : d(k) \in Nat
  <2>1. SUFFICES ASSUME NEW k \in DOMAIN disk_queue PROVE d(k) \in Nat
    OBVIOUS
  <2>2. disk_queue[k][2] \in Nat /\ cur_track \in Nat
    BY <1>1 DEF TypeInv, Requests
  <2>3. QED
    BY <2>2 DEF Distance
<1> HIDE DEF d
<1>3. PICK m \in {d(k) : k \in DOMAIN disk_queue} : \A x \in {d(k) : k \in DOMAIN disk_queue} : m <= x
  <2>1. {d(k) : k \in DOMAIN disk_queue} # {} /\ {d(k) : k \in DOMAIN disk_queue} \subseteq Nat
    BY <1>1, <1>2
  <2>2. QED
    BY <2>1, LeastNatural
<1>4. PICK n \in {k \in DOMAIN disk_queue : d(k) = m} : \A k \in {k \in DOMAIN disk_queue : d(k) = m} : n <= k
  <2>1. {k \in DOMAIN disk_queue : d(k) = m} # {} /\ {k \in DOMAIN disk_queue : d(k) = m} \subseteq Nat
    BY <1>1, <1>3
  <2>2. QED
    BY <2>1, LeastNatural
<1> DEFINE Best(x) == \A k \in DOMAIN disk_queue :
                        /\ d(x) <= d(k)
                        /\ k < x => d(x) < d(k)
<1>5. Best(n)
  <2>1. SUFFICES ASSUME NEW k \in DOMAIN disk_queue
                 PROVE  d(n) <= d(k) /\ (k < n => d(n) < d(k))
    BY Zenon
  <2>2. d(n) = m /\ d(n) <= d(k) /\ d(k) \in Nat /\ m \in Nat
    BY <1>2, <1>3, <1>4
  <2>3. d(k) = m => n <= k
    BY <1>4
  <2>4. QED
    BY <1>1, <1>4, <2>2, <2>3
<1>6. Nearest = CHOOSE x \in DOMAIN disk_queue : Best(x)
  BY Zenon DEF Nearest, d
<1> HIDE DEF Best
<1>7. Nearest \in DOMAIN disk_queue /\ Best(Nearest)
  BY <1>4, <1>5, <1>6, Zenon
<1>8. QED
  BY <1>1, <1>7 DEF Best, d

-----------------------------------------------------------------------------
(* Counting *)

\* There are finitely many requesters left, at most N.
LEMMA LiveFinite == IsFiniteSet(Live) /\ Cardinality(Live) \in 0 .. N
<1>1. IsFiniteSet(Requester) /\ Cardinality(Requester) = N /\ N \in Nat
  BY FS_Interval, CapacityAssumption DEF Requester
<1>2. Live \in SUBSET Requester
  BY DEF Live
<1>3. IsFiniteSet(Live) /\ Cardinality(Live) <= N
  BY <1>1, <1>2, FS_Subset
<1>4. QED
  BY <1>1, <1>3, FS_CardinalityType

\* A count of turns is a natural number.
LEMMA TurnType ==
  ASSUME NEW i, NEW n \in Nat
  PROVE  /\ IsFiniteSet({k \in 1 .. n : served[k][1] = i})
         /\ Turn(i, n) \in Nat
<1>1. IsFiniteSet(1 .. n)
  BY FS_Interval
<1>2. {k \in 1 .. n : served[k][1] = i} \in SUBSET (1 .. n)
  OBVIOUS
<1>3. QED
  BY <1>1, <1>2, FS_Subset, FS_CardinalityType DEF Turn

\* Len of a queue that holds at most one request of each requester is at most
\* the number of those that are left.
LEMMA CapacityType ==
  ASSUME NEW num \in Nat
  PROVE  /\ Capacity(num) \in Nat
         /\ num # 0 => Capacity(num) # 0
         /\ num # 0 => Capacity(num) - 1 <= Capacity(num - 1)
  BY CapacityAssumption DEF Capacity

-----------------------------------------------------------------------------
(* The initial states *)

\* All files are still to be posted.
LEMMA InitIInv == Init => IInv
<1> SUFFICES ASSUME Init PROVE IInv
  OBVIOUS
<1>1. TypeInv
  <2>1. files \in [Requester -> Seq(Track) \ {<<>>}]
    BY FilesAssumption DEF Init
  <2>2. \A s \in Seq(Track) : s \in Seq(Nat)
    <3>1. SUFFICES ASSUME NEW s \in Seq(Track) PROVE s \in Seq(Nat)
      OBVIOUS
    <3>2. Track \subseteq Nat
      BY DEF Track
    <3>3. QED
      BY <3>2, SeqMonotonic, Zenon
  <2>3. files \in [Requester -> Seq(Nat) \ {<<>>}]
    BY <2>1, <2>2
  <2>4. <<>> \in Seq(Requests)
    BY EmptySeq
  <2>5. QED
    BY <2>3, <2>4, CapacityAssumption DEF Init, TypeInv
<1>2. DOMAIN disk_queue = {} /\ Len(disk_queue) = 0 /\ Len(served) = 0 /\ DOMAIN served = {}
  BY DEF Init
<1>3. \A i \in Requester : files[i] \in Seq(Nat) /\ files[i] # <<>> /\ tracks[i] = files[i]
  BY <1>1 DEF Init, TypeInv
<1>4. DoneInv /\ DistinctInv
  BY <1>2, <1>3 DEF Init, DoneInv, DistinctInv
<1>5. CountInv
  <2>1. Live = Requester
    BY <1>3 DEF Live
  <2>2. Cardinality(Live) = N
    BY <2>1, FS_Interval, CapacityAssumption DEF Requester
  <2>3. QED
    BY <1>2, <2>2, CapacityType, CapacityAssumption DEF CountInv, Init
<1>6. OrderInv
  <2>1. SUFFICES ASSUME NEW i \in Requester
                 PROVE  /\ Posted(i) + Len(tracks[i]) = Len(files[i])
                        /\ \A k \in 1 .. Len(tracks[i]) : tracks[i][k] = files[i][Posted(i) + k]
    BY <1>2 DEF OrderInv
  <2>2. {k \in 1 .. Len(served) : served[k][1] = i} = {}
    BY <1>2
  <2>3. Posted(i) = 0
    <3>1. Served(i) = 0
      BY <2>2, FS_EmptySet DEF Served, Turn
    <3>2. requester_done[i] = 1
      BY DEF Init
    <3>3. QED
      BY <3>1, <3>2 DEF Posted
  <2>4. Len(files[i]) \in Nat
    BY <1>3, LenProperties
  <2>5. QED
    BY <1>3, <2>3, <2>4
<1>7. QED
  BY <1>1, <1>4, <1>5, <1>6 DEF IInv

-----------------------------------------------------------------------------
(* Steps that leave the queue alone *)

\* A requester or the server begins to wait, or the server goes on.
LEMMA QuietStep ==
  ASSUME IInv,
         UNCHANGED <<files, cur_track, requester_num, disk_queue, disk_queue_full, requester_done,
                     tracks, served>>,
         pc' \in [Requester -> {"ready", "waiting", "done"}],
         \A i \in Requester : pc'[i] = "done" <=> pc[i] = "done",
         server' \in {"ready", "waiting", "unlocked", "done"},
         server' \in {"ready", "waiting"} => requester_num # 0
  PROVE  IInv'
<1>1. TypeInv'
  BY DEF IInv, TypeInv
<1>2. DoneInv' /\ DistinctInv'
  BY DEF IInv, DoneInv, DistinctInv
<1>3. CountInv'
  <2>1. Live' = Live
    BY DEF Live, Outstanding
  <2>2. QED
    BY <2>1 DEF IInv, CountInv
<1>4. OrderInv'
  <2>1. \A i, n : Turn(i, n)' = Turn(i, n)
    BY DEF Turn
  <2>2. \A i : Served(i)' = Served(i) /\ Posted(i)' = Posted(i)
    BY <2>1 DEF Served, Posted
  <2>3. QED
    BY <2>1, <2>2 DEF IInv, OrderInv
<1>5. QED
  BY <1>1, <1>2, <1>3, <1>4 DEF IInv

\* requester_func finds its last request still in the queue, or the queue full.
LEMMA RequesterWaitKeeps ==
  ASSUME IInv, NEW i \in Requester, RequesterWait(i)
  PROVE  IInv'
<1>1. pc' \in [Requester -> {"ready", "waiting", "done"}]
      /\ \A k \in Requester : pc'[k] = "done" <=> pc[k] = "done"
  BY DEF IInv, TypeInv, RequesterWait
<1>2. server' = server /\ server \in {"ready", "waiting", "unlocked", "done"}
      /\ (server \in {"ready", "waiting"} => requester_num # 0)
  BY DEF IInv, TypeInv, CountInv, RequesterWait
<1>3. QED
  BY <1>1, <1>2, QuietStep DEF RequesterWait

\* server_func finds the queue not full, or reads requester_num and loops.
LEMMA ServerQuietKeeps ==
  ASSUME IInv, ServerWait \/ ServerLeave
  PROVE  IInv'
<1>1. pc' = pc /\ pc \in [Requester -> {"ready", "waiting", "done"}]
  BY DEF IInv, TypeInv, ServerWait, ServerLeave
<1>2. server' \in {"ready", "waiting", "unlocked", "done"}
      /\ (server' \in {"ready", "waiting"} => requester_num # 0)
  BY DEF IInv, TypeInv, CountInv, ServerWait, ServerLeave
<1>3. QED
  BY <1>1, <1>2, QuietStep DEF ServerWait, ServerLeave

\* Nothing happens.
LEMMA StutterKeeps ==
  ASSUME IInv, UNCHANGED vars
  PROVE  IInv'
<1>1. pc' = pc /\ pc \in [Requester -> {"ready", "waiting", "done"}]
  BY DEF IInv, TypeInv, vars
<1>2. server' = server /\ server \in {"ready", "waiting", "unlocked", "done"}
      /\ (server \in {"ready", "waiting"} => requester_num # 0)
  BY DEF IInv, TypeInv, CountInv, vars
<1>3. QED
  BY <1>1, <1>2, QuietStep DEF vars

-----------------------------------------------------------------------------
(* A request is posted *)

\* requester_func posts the next track of its file: it has none in the queue.
LEMMA PostKeeps ==
  ASSUME IInv, NEW i \in Requester, Post(i)
  PROVE  IInv'
<1> DEFINE request == <<i, Head(tracks[i])>>
           len     == Len(disk_queue)
<1>1. tracks[i] \in Seq(Nat) /\ tracks[i] # <<>>
  BY DEF IInv, TypeInv, DoneInv, Post
<1>2. requester_done[i] = 1
  BY <1>1 DEF IInv, TypeInv, DoneInv, Post, MustWait
<1>3. \A n \in DOMAIN disk_queue : disk_queue[n][1] # i
  BY <1>2 DEF IInv, DoneInv
<1>4. /\ Head(tracks[i]) \in Nat /\ Tail(tracks[i]) \in Seq(Nat)
      /\ Len(tracks[i]) \in Nat \ {0}
      /\ Head(tracks[i]) = tracks[i][1]
      /\ Len(Tail(tracks[i])) = Len(tracks[i]) - 1
      /\ \A k \in 1 .. Len(tracks[i]) - 1 : Tail(tracks[i])[k] = tracks[i][k + 1]
  BY <1>1, HeadTailProperties, EmptySeq
<1>5. /\ disk_queue \in Seq(Requests) /\ len \in Nat /\ DOMAIN disk_queue = 1 .. len
      /\ served \in Seq(Requests) /\ Len(served) \in Nat /\ DOMAIN served = 1 .. Len(served)
  BY LenProperties DEF IInv, TypeInv
<1>6. request \in Requests /\ request[1] = i /\ request[2] = tracks[i][1]
  BY <1>4 DEF Requests
<1>7. /\ disk_queue' \in Seq(Requests) /\ Len(disk_queue') = len + 1
      /\ \A n \in 1 .. len : disk_queue'[n] = disk_queue[n]
      /\ disk_queue'[len + 1] = request
      /\ DOMAIN disk_queue' = 1 .. len + 1
  <2>1. disk_queue' = Append(disk_queue, request)
    BY DEF Post
  <2> HIDE DEF request
  <2>2. QED
    BY <1>5, <1>6, <2>1, AppendProperties, LenProperties
<1> HIDE DEF request, len
<1>8. \A n \in 1 .. len + 1 : n # len + 1 => n \in 1 .. len
  BY <1>5
<1>9. /\ tracks' \in [Requester -> Seq(Nat)] /\ tracks'[i] = Tail(tracks[i])
      /\ \A k \in Requester : k # i => tracks'[k] = tracks[k]
  BY <1>1, <1>4 DEF Post, IInv, TypeInv
<1>10. /\ requester_done' \in [Requester -> {-1, 0, 1}]
       /\ requester_done'[i] = IF Len(tracks[i]) = 1 THEN -1 ELSE 0
       /\ \A k \in Requester : k # i => requester_done'[k] = requester_done[k]
  BY DEF Post, DoneAfterPost, IInv, TypeInv
<1>11. /\ pc' \in [Requester -> {"ready", "waiting", "done"}]
       /\ pc'[i] = IF tracks'[i] = <<>> THEN "done" ELSE "ready"
       /\ \A k \in Requester : k # i => pc'[k] = pc[k]
  BY DEF Post, IInv, TypeInv
<1>12. tracks'[i] = <<>> <=> Len(tracks[i]) = 1
  <2>1. Tail(tracks[i]) = <<>> <=> Len(Tail(tracks[i])) = 0
    BY <1>4, EmptySeq
  <2>2. QED
    BY <1>4, <1>9, <2>1
<1>13. TypeInv'
  <2>1. server' \in {"ready", "waiting", "unlocked", "done"}
    BY DEF Post, Signalled, IInv, TypeInv
  <2>2. disk_queue_full' \in BOOLEAN
    BY DEF Post, IInv, TypeInv
  <2>3. QED
    BY <1>7, <1>9, <1>10, <1>11, <2>1, <2>2 DEF Post, IInv, TypeInv
<1>14. DoneInv'
  <2>1. SUFFICES ASSUME NEW k \in Requester
                 PROVE  /\ requester_done'[k] = 1 <=> \A n \in DOMAIN disk_queue' : disk_queue'[n][1] # k
                        /\ requester_done'[k] = -1 => tracks'[k] = <<>>
                        /\ requester_done'[k] = 0 => tracks'[k] # <<>>
                        /\ pc'[k] = "done" <=> tracks'[k] = <<>>
    BY DEF DoneInv
  <2>2. CASE k = i
    <3>1. disk_queue'[len + 1][1] = i /\ len + 1 \in DOMAIN disk_queue'
      BY <1>5, <1>6, <1>7
    <3>2. QED
      BY <1>10, <1>11, <1>12, <2>2, <3>1
  <2>3. CASE k # i
    <3>1. (\A n \in DOMAIN disk_queue' : disk_queue'[n][1] # k)
            <=> \A n \in DOMAIN disk_queue : disk_queue[n][1] # k
      BY <1>5, <1>6, <1>7, <1>8, <2>3
    <3>2. /\ requester_done[k] = 1 <=> \A n \in DOMAIN disk_queue : disk_queue[n][1] # k
          /\ requester_done[k] = -1 => tracks[k] = <<>>
          /\ requester_done[k] = 0 => tracks[k] # <<>>
          /\ pc[k] = "done" <=> tracks[k] = <<>>
      BY DEF IInv, DoneInv
    <3>3. tracks'[k] = tracks[k] /\ requester_done'[k] = requester_done[k] /\ pc'[k] = pc[k]
      BY <1>9, <1>10, <1>11, <2>3
    <3>4. QED
      BY <3>1, <3>2, <3>3
  <2>4. QED
    BY <2>2, <2>3
<1>15. DistinctInv'
  BY <1>3, <1>5, <1>6, <1>7, <1>8 DEF IInv, DistinctInv
<1>16. CountInv'
  <2>1. Live' = Live
    <3>1. ASSUME NEW k \in Requester
          PROVE  (Outstanding(k)' # {} \/ tracks'[k] # <<>>) <=> (Outstanding(k) # {} \/ tracks[k] # <<>>)
      <4>1. CASE k = i
        <5>1. len + 1 \in Outstanding(i)'
          BY <1>5, <1>6, <1>7 DEF Outstanding
        <5>2. QED
          BY <1>1, <4>1, <5>1
      <4>2. CASE k # i
        <5>1. Outstanding(k)' = Outstanding(k)
          BY <1>5, <1>6, <1>7, <1>8, <4>2 DEF Outstanding
        <5>2. QED
          BY <1>9, <4>2, <5>1
      <4>3. QED
        BY <4>1, <4>2
    <3>2. QED
      BY <3>1 DEF Live
  <2>2. requester_num' = requester_num /\ requester_num \in Nat /\ Capacity(requester_num) \in Nat
    BY CapacityType DEF Post, IInv, TypeInv
  <2>3. ~disk_queue_full
    BY DEF Post, MustWait
  <2>4. len < Capacity(requester_num)
    BY <1>5, <2>2, <2>3 DEF IInv, CountInv, len
  <2>5. requester_num # 0
    <3>1. i \in Live
      BY <1>1 DEF Live
    <3>2. QED
      BY <3>1, LiveFinite, FS_EmptySet DEF IInv, CountInv
  <2>6. disk_queue_full' <=> Len(disk_queue') = Capacity(requester_num)
    BY <2>3 DEF Post
  <2>7. QED
    BY <1>5, <1>7, <2>1, <2>2, <2>4, <2>5, <2>6 DEF IInv, CountInv
<1>17. OrderInv'
  <2>1. \A k, n : Turn(k, n)' = Turn(k, n) /\ Served(k)' = Served(k)
    BY DEF Post, Turn, Served
  <2>2. SUFFICES ASSUME NEW k \in Requester
                 PROVE  /\ \A n \in DOMAIN disk_queue' : disk_queue'[n][1] = k
                             => disk_queue'[n][2] = files[k][Served(k) + 1]
                        /\ Posted(k)' + Len(tracks'[k]) = Len(files[k])
                        /\ \A m \in 1 .. Len(tracks'[k]) : tracks'[k][m] = files[k][Posted(k)' + m]
    BY <2>1 DEF OrderInv, IInv, Post
  <2>3. /\ \A n \in DOMAIN disk_queue : disk_queue[n][1] = k => disk_queue[n][2] = files[k][Served(k) + 1]
        /\ Posted(k) + Len(tracks[k]) = Len(files[k])
        /\ \A m \in 1 .. Len(tracks[k]) : tracks[k][m] = files[k][Posted(k) + m]
    BY DEF IInv, OrderInv
  <2>4. CASE k = i
    <3>1. Served(i) \in Nat
      BY <1>5, TurnType DEF Served
    <3>2. Posted(i) = Served(i) /\ Posted(i)' = Served(i) + 1
      BY <1>2, <1>10, <2>1, <3>1 DEF Posted
    <3>3. tracks[i][1] = files[i][Served(i) + 1]
      BY <1>4, <2>3, <2>4, <3>1, <3>2
    <3>4. \A n \in DOMAIN disk_queue' : disk_queue'[n][1] = i => disk_queue'[n] = request
      BY <1>3, <1>5, <1>7, <1>8
    <3>5. \A n \in DOMAIN disk_queue' : disk_queue'[n][1] = i => disk_queue'[n][2] = files[i][Served(i) + 1]
      BY <1>6, <3>3, <3>4
    <3>6. Len(tracks'[i]) = Len(tracks[i]) - 1
      BY <1>4, <1>9
    <3>7. ASSUME NEW m \in 1 .. Len(tracks'[i])
          PROVE  tracks'[i][m] = files[i][Posted(i)' + m]
      <4>1. m + 1 \in 1 .. Len(tracks[i]) /\ m \in 1 .. Len(tracks[i]) - 1
        BY <1>4, <3>6
      <4>2. tracks'[i][m] = tracks[i][m + 1]
        BY <1>4, <1>9, <4>1
      <4>3. tracks[i][m + 1] = files[i][Served(i) + (m + 1)]
        BY <2>3, <2>4, <3>2, <4>1
      <4>4. Served(i) + (m + 1) = Posted(i)' + m
        BY <3>1, <3>2, <4>1
      <4>5. QED
        BY <4>2, <4>3, <4>4
    <3>8. Posted(i)' + Len(tracks'[i]) = Len(files[i])
      BY <1>4, <2>3, <2>4, <3>1, <3>2, <3>6
    <3>9. QED
      BY <2>4, <3>5, <3>7, <3>8
  <2>5. CASE k # i
    <3>1. Posted(k)' = Posted(k) /\ tracks'[k] = tracks[k]
      BY <1>9, <1>10, <2>1, <2>5 DEF Posted
    <3>2. \A n \in DOMAIN disk_queue' : disk_queue'[n][1] = k
            => n \in DOMAIN disk_queue /\ disk_queue'[n] = disk_queue[n]
      BY <1>5, <1>6, <1>7, <1>8, <2>5
    <3>3. QED
      BY <2>3, <3>1, <3>2
  <2>6. QED
    BY <2>4, <2>5
<1>18. QED
  BY <1>13, <1>14, <1>15, <1>16, <1>17 DEF IInv

-----------------------------------------------------------------------------
(* A request is served *)

\* The server never looks for a request in an empty queue.
LEMMA FullIsNotEmpty ==
  ASSUME IInv, server \in {"ready", "waiting"}, disk_queue_full
  PROVE  /\ Len(disk_queue) \in Nat \ {0}
         /\ disk_queue # <<>>
<1>1. requester_num \in Nat \ {0} /\ Len(disk_queue) = Capacity(requester_num)
  BY DEF IInv, TypeInv, CountInv
<1>2. Len(disk_queue) # 0 /\ Len(disk_queue) \in Nat
  BY <1>1, CapacityType
<1>3. QED
  BY <1>2, EmptySeq

\* server_func serves the nearest request and erases it; its requester may have
\* been waiting for that.
LEMMA ServeKeeps ==
  ASSUME IInv, Serve
  PROVE  IInv'
<1> DEFINE place   == Nearest
           request == disk_queue[place]
           len     == Len(disk_queue)
<1>1. len \in Nat \ {0} /\ disk_queue # <<>>
  BY FullIsNotEmpty DEF Serve
<1>2. /\ disk_queue \in Seq(Requests) /\ DOMAIN disk_queue = 1 .. len
      /\ \A n \in 1 .. len : disk_queue[n] \in Requests
      /\ served \in Seq(Requests) /\ Len(served) \in Nat /\ DOMAIN served = 1 .. Len(served)
  BY LenProperties DEF IInv, TypeInv
<1>3. place \in 1 .. len
  BY <1>1, NearestExists DEF IInv
<1>4. /\ cur_track' = request[2] /\ served' = Append(served, request)
      /\ disk_queue' = RemoveAt(disk_queue, place)
      /\ requester_num' = StillActive(request[1])
      /\ disk_queue_full' = (Len(disk_queue') = Capacity(requester_num'))
      /\ requester_done' = [requester_done EXCEPT ![request[1]] = 1]
      /\ pc' = [k \in Requester |-> IF pc[k] = "waiting" THEN "ready" ELSE pc[k]]
      /\ server' = "unlocked" /\ files' = files /\ tracks' = tracks
  BY DEF Serve, QueueAfterService, FullAfterService
<1> HIDE DEF place
<1>5. request \in Requests /\ request[1] \in Requester /\ request[2] \in Nat
  BY <1>2, <1>3 DEF Requests
<1>5a. PICK i \in Requester : i = request[1]
  BY <1>5
<1>6. /\ disk_queue' \in Seq(Requests) /\ Len(disk_queue') = len - 1
      /\ \A k \in 1 .. len - 1 : disk_queue'[k] = disk_queue[IF k < place THEN k ELSE k + 1]
      /\ DOMAIN disk_queue' = 1 .. len - 1
  BY <1>1, <1>2, <1>3, <1>4, RemoveAtProperties, LenProperties
<1> HIDE DEF request, len
\* Where the other requests are afterwards.
<1>7. /\ \A k \in 1 .. len - 1 : \E n \in 1 .. len : n # place /\ disk_queue'[k] = disk_queue[n]
      /\ \A n \in 1 .. len : n # place => \E k \in 1 .. len - 1 : disk_queue'[k] = disk_queue[n]
  <2>1. ASSUME NEW k \in 1 .. len - 1
        PROVE  \E n \in 1 .. len : n # place /\ disk_queue'[k] = disk_queue[n]
    <3>1. (IF k < place THEN k ELSE k + 1) \in 1 .. len
          /\ (IF k < place THEN k ELSE k + 1) # place
      BY <1>1, <1>3
    <3>2. QED
      BY <1>6, <3>1
  <2>2. ASSUME NEW n \in 1 .. len, n # place
        PROVE  \E k \in 1 .. len - 1 : disk_queue'[k] = disk_queue[n]
    <3>1. CASE n < place
      <4>1. n \in 1 .. len - 1
        BY <1>1, <1>3, <3>1
      <4>2. QED
        BY <1>6, <3>1, <4>1
    <3>2. CASE ~(n < place)
      <4>1. n - 1 \in 1 .. len - 1 /\ ~(n - 1 < place) /\ (n - 1) + 1 = n
        BY <1>1, <1>3, <2>2, <3>2
      <4>2. QED
        BY <1>6, <4>1
    <3>3. QED
      BY <3>1, <3>2
  <2>3. QED
    BY <2>1, <2>2
<1>8. \A n \in 1 .. len : disk_queue[n][1] = i <=> n = place
  BY <1>2, <1>3, <1>5a DEF IInv, DistinctInv, request
<1>9. \A k \in 1 .. len - 1 : disk_queue'[k][1] # i
  BY <1>7, <1>8
<1>10. /\ requester_done' \in [Requester -> {-1, 0, 1}] /\ requester_done'[i] = 1
       /\ \A k \in Requester : k # i => requester_done'[k] = requester_done[k]
  BY <1>4, <1>5a DEF IInv, TypeInv
<1>11. requester_done[i] # 1 /\ requester_done[i] \in {-1, 0, 1}
  BY <1>2, <1>3, <1>5, <1>8 DEF IInv, TypeInv, DoneInv
<1>12. tracks[i] = <<>> <=> requester_done[i] = -1
  <2>1. (requester_done[i] = -1 => tracks[i] = <<>>) /\ (requester_done[i] = 0 => tracks[i] # <<>>)
    BY <1>5 DEF IInv, DoneInv
  <2>2. QED
    BY <1>11, <2>1
<1>13. i \in Live
  <2>1. place \in Outstanding(i)
    BY <1>2, <1>3, <1>8 DEF Outstanding
  <2>2. QED
    BY <1>5, <2>1 DEF Live
<1>14. Live' = IF requester_done[i] = -1 THEN Live \ {i} ELSE Live
  <2>1. ASSUME NEW k \in Requester, k # i
        PROVE  Outstanding(k)' # {} <=> Outstanding(k) # {}
    <3>1. Outstanding(k)' # {} <=> \E n \in 1 .. len - 1 : disk_queue'[n][1] = k
      BY <1>6 DEF Outstanding
    <3>2. Outstanding(k) # {} <=> \E n \in 1 .. len : disk_queue[n][1] = k
      BY <1>2 DEF Outstanding
    <3>3. QED
      BY <1>7, <1>8, <2>1, <3>1, <3>2
  <2>2. Outstanding(i)' = {}
    BY <1>6, <1>9 DEF Outstanding
  <2>3. \A k \in Requester : k \in Live' <=> (Outstanding(k)' # {} \/ tracks[k] # <<>>)
    BY <1>4 DEF Live
  <2>4. \A k \in Requester : k \in Live <=> (Outstanding(k) # {} \/ tracks[k] # <<>>)
    BY DEF Live
  <2>5. \A k \in Requester : k \in Live' <=> (k \in Live /\ ~(k = i /\ requester_done[i] = -1))
    BY <1>12, <1>13, <2>1, <2>2, <2>3, <2>4
  <2>6. Live \subseteq Requester /\ Live' \subseteq Requester
    BY DEF Live
  <2>7. QED
    BY <2>5, <2>6
<1>15. /\ requester_num \in Nat \ {0}
       /\ requester_num' = Cardinality(Live')
       /\ requester_num' \in {requester_num, requester_num - 1}
       /\ requester_num' \in Nat
  <2>1. requester_num = Cardinality(Live) /\ requester_num \in Nat \ {0}
    BY DEF IInv, TypeInv, CountInv, Serve
  <2>2. requester_num' = IF requester_done[i] = -1 THEN requester_num - 1 ELSE requester_num
    BY <1>4, <1>5a, <2>1 DEF StillActive
  <2>3. Cardinality(Live \ {i}) = Cardinality(Live) - 1
    BY <1>13, LiveFinite, FS_RemoveElement
  <2>4. CASE requester_done[i] = -1
    BY <1>14, <2>1, <2>2, <2>3, <2>4
  <2>5. CASE requester_done[i] # -1
    BY <1>14, <2>1, <2>2, <2>5
  <2>6. QED
    BY <2>4, <2>5
<1>16. TypeInv'
  <2>1. served' \in Seq(Requests)
    BY <1>2, <1>4, <1>5, AppendProperties
  <2>2. pc' \in [Requester -> {"ready", "waiting", "done"}]
    BY <1>4 DEF IInv, TypeInv
  <2>3. QED
    BY <1>4, <1>5, <1>6, <1>10, <1>15, <2>1, <2>2 DEF IInv, TypeInv
<1>17. DoneInv'
  <2>1. SUFFICES ASSUME NEW k \in Requester
                 PROVE  /\ requester_done'[k] = 1 <=> \A n \in DOMAIN disk_queue' : disk_queue'[n][1] # k
                        /\ requester_done'[k] = -1 => tracks'[k] = <<>>
                        /\ requester_done'[k] = 0 => tracks'[k] # <<>>
                        /\ pc'[k] = "done" <=> tracks'[k] = <<>>
    BY DEF DoneInv
  <2>2. pc'[k] = "done" <=> pc[k] = "done"
    BY <1>4
  <2>3. /\ requester_done[k] = 1 <=> \A n \in DOMAIN disk_queue : disk_queue[n][1] # k
        /\ requester_done[k] = -1 => tracks[k] = <<>>
        /\ requester_done[k] = 0 => tracks[k] # <<>>
        /\ pc[k] = "done" <=> tracks[k] = <<>>
    BY DEF IInv, DoneInv
  <2>4. CASE k = i
    <3>1. requester_done'[k] = 1 /\ \A n \in DOMAIN disk_queue' : disk_queue'[n][1] # k
      BY <1>6, <1>9, <1>10, <2>4
    <3>2. QED
      BY <1>4, <2>2, <2>3, <3>1
  <2>5. CASE k # i
    <3>1. (\A n \in DOMAIN disk_queue' : disk_queue'[n][1] # k)
            <=> \A n \in DOMAIN disk_queue : disk_queue[n][1] # k
      BY <1>2, <1>6, <1>7, <1>8, <2>5
    <3>2. requester_done'[k] = requester_done[k]
      BY <1>10, <2>5
    <3>3. QED
      BY <1>4, <2>2, <2>3, <3>1, <3>2
  <2>6. QED
    BY <2>4, <2>5
<1>18. DistinctInv'
  <2>1. SUFFICES ASSUME NEW n \in 1 .. len - 1, NEW m \in 1 .. len - 1,
                        disk_queue'[n][1] = disk_queue'[m][1]
                 PROVE  n = m
    BY <1>6 DEF DistinctInv
  <2> DEFINE a == IF n < place THEN n ELSE n + 1
             b == IF m < place THEN m ELSE m + 1
  <2>2. a \in 1 .. len /\ b \in 1 .. len
    BY <1>1, <1>3
  <2>3. disk_queue[a][1] = disk_queue[b][1]
    BY <1>6, <2>1
  <2>4. a = b
    BY <1>2, <2>2, <2>3 DEF IInv, DistinctInv
  <2>5. QED
    BY <1>1, <1>3, <2>4
<1>19. CountInv'
  <2>1. len = Capacity(requester_num)
    BY DEF IInv, CountInv, Serve, len
  <2>2. Capacity(requester_num - 1) \in Nat /\ Capacity(requester_num) - 1 <= Capacity(requester_num - 1)
    BY <1>15, CapacityType
  <2>3. len - 1 <= Capacity(requester_num')
    BY <1>1, <1>15, <2>1, <2>2
  <2>4. QED
    BY <1>4, <1>6, <1>15, <2>3 DEF CountInv
<1>20. OrderInv'
  <2>1. /\ Len(served') = Len(served) + 1 /\ DOMAIN served' = 1 .. Len(served) + 1
        /\ \A n \in 1 .. Len(served) : served'[n] = served[n]
        /\ served'[Len(served) + 1] = request
    <3>1. served' \in Seq(Requests)
      BY <1>16 DEF TypeInv
    <3>2. QED
      BY <1>2, <1>4, <1>5, <3>1, AppendProperties, LenProperties
  <2>2. \A k, n : n \in 1 .. Len(served) => Turn(k, n)' = Turn(k, n)
    <3>1. SUFFICES ASSUME NEW k, NEW n \in 1 .. Len(served) PROVE Turn(k, n)' = Turn(k, n)
      BY Zenon
    <3>2. {m \in 1 .. n : served'[m][1] = k} = {m \in 1 .. n : served[m][1] = k}
      BY <1>2, <2>1
    <3>3. QED
      BY <3>2 DEF Turn
  <2>3. /\ Served(i)' = Served(i) + 1
        /\ \A k : k # i => Served(k)' = Served(k)
    <3>1. ASSUME NEW k
          PROVE  Served(k)' = IF k = i THEN Served(k) + 1 ELSE Served(k)
      <4> DEFINE mine == {m \in 1 .. Len(served) : served[m][1] = k}
      <4>1. Served(k) = Cardinality(mine) /\ IsFiniteSet(mine)
        BY <1>2, TurnType DEF Served, Turn
      <4>2. Len(served) + 1 \notin mine
        BY <1>2
      <4>3. {m \in 1 .. Len(served) + 1 : served'[m][1] = k}
              = IF k = i THEN mine \cup {Len(served) + 1} ELSE mine
        <5>1. 1 .. Len(served) + 1 = (1 .. Len(served)) \cup {Len(served) + 1}
          BY <1>2
        <5>2. QED
          BY <1>5a, <2>1, <5>1
      <4>4. Served(k)' = Cardinality({m \in 1 .. Len(served) + 1 : served'[m][1] = k})
        BY <2>1 DEF Served, Turn
      <4> HIDE DEF mine
      <4>5. Cardinality(mine \cup {Len(served) + 1}) = Cardinality(mine) + 1
        BY <4>1, <4>2, FS_AddElement
      <4>6. QED
        BY <4>1, <4>3, <4>4, <4>5
    <3>2. QED
      BY <3>1
  <2>4. Served(i) \in Nat
    BY <1>2, TurnType DEF Served
  <2>5. SUFFICES ASSUME NEW k \in Requester
                 PROVE  /\ \A n \in 1 .. Len(served) + 1 :
                             served'[n][1] = k => served'[n][2] = files[k][Turn(k, n)']
                        /\ \A n \in 1 .. len - 1 :
                             disk_queue'[n][1] = k => disk_queue'[n][2] = files[k][Served(k)' + 1]
                        /\ Posted(k)' = Posted(k)
    BY <1>4, <1>6, <2>1 DEF OrderInv, IInv
  <2>6. /\ \A n \in 1 .. Len(served) : served[n][1] = k => served[n][2] = files[k][Turn(k, n)]
        /\ \A n \in 1 .. len : disk_queue[n][1] = k => disk_queue[n][2] = files[k][Served(k) + 1]
    BY <1>2 DEF IInv, OrderInv
  <2>7. \A n \in 1 .. Len(served) : served'[n][1] = k => served'[n][2] = files[k][Turn(k, n)']
    BY <2>1, <2>2, <2>6
  <2>8. \A n : n = Len(served) + 1 /\ served'[n][1] = k => served'[n][2] = files[k][Turn(k, n)']
    <3>1. SUFFICES ASSUME NEW n, n = Len(served) + 1, request[1] = k
                   PROVE  request[2] = files[k][Turn(k, n)']
      BY <2>1
    <3>2. k = i
      BY <1>5a, <3>1
    <3>3. Turn(k, n)' = Served(k) + 1
      BY <2>1, <2>3, <3>1, <3>2 DEF Served, Turn
    <3>4. QED
      BY <1>3, <2>6, <3>1, <3>3 DEF request
  <2>9. \A n \in 1 .. len - 1 : disk_queue'[n][1] = k => disk_queue'[n][2] = files[k][Served(k)' + 1]
    BY <1>7, <1>9, <2>3, <2>6
  <2>10. Posted(k)' = Posted(k)
    <3>1. CASE k = i
      BY <1>10, <1>11, <2>3, <2>4, <3>1 DEF Posted
    <3>2. CASE k # i
      BY <1>10, <2>3, <3>2 DEF Posted
    <3>3. QED
      BY <3>1, <3>2
  <2>11. QED
    <3>1. \A n \in 1 .. Len(served) + 1 : n \in 1 .. Len(served) \/ n = Len(served) + 1
      BY <1>2
    <3>2. QED
      BY <2>7, <2>8, <2>9, <2>10, <3>1
<1>21. QED
  BY <1>16, <1>17, <1>18, <1>19, <1>20 DEF IInv

-----------------------------------------------------------------------------
(* The invariant and what follows from it *)

\* Every step of a requester and of the server preserves the invariant.
LEMMA NextKeeps == IInv /\ [Next]_vars => IInv'
<1> SUFFICES ASSUME IInv, [Next]_vars PROVE IInv'
  OBVIOUS
<1>1. ASSUME NEW i \in Requester, RequesterStep(i) PROVE IInv'
  BY <1>1, RequesterWaitKeeps, PostKeeps DEF RequesterStep
<1>2. CASE ServerStep
  BY <1>2, ServerQuietKeeps, ServeKeeps DEF ServerStep
<1>3. CASE UNCHANGED vars
  BY <1>3, StutterKeeps
<1>4. QED
  BY <1>1, <1>2, <1>3 DEF Next

\* The queue, the counters and the condition variables agree after any steps.
LEMMA IInvHolds == Spec => []IInv
  BY InitIInv, NextKeeps, PTL DEF Spec

\* A requester has at most one request in the queue.
LEMMA OutstandingBound ==
  ASSUME IInv, NEW i \in Requester
  PROVE  /\ Outstanding(i) = {} <=> requester_done[i] = 1
         /\ Cardinality(Outstanding(i)) = IF requester_done[i] = 1 THEN 0 ELSE 1
<1>1. Outstanding(i) = {} <=> requester_done[i] = 1
  BY DEF IInv, DoneInv, Outstanding
<1>2. CASE Outstanding(i) = {}
  BY <1>1, <1>2, FS_EmptySet
<1>3. CASE Outstanding(i) # {}
  <2>1. PICK n : Outstanding(i) = {n}
    BY <1>3 DEF Outstanding, IInv, DistinctInv
  <2>2. QED
    BY <1>1, <1>3, <2>1, FS_Singleton
<1>4. QED
  BY <1>2, <1>3

\* TypeOK: every variable of scheduler.cpp has its type; in particular
\* requester_done is -1, 0 or 1 and requester_num never leaves 0..N.
THEOREM SchedulerTypes == Spec => []TypeOK
<1>1. IInv => TypeOK
  <2> SUFFICES ASSUME IInv PROVE TypeOK
    OBVIOUS
  <2>1. requester_num \in 0..N
    BY LiveFinite DEF IInv, CountInv
  <2>2. \A n \in DOMAIN disk_queue : disk_queue[n] \in Requester \X Nat
    BY LenProperties DEF IInv, TypeInv, Requests
  <2>3. QED
    BY <2>1, <2>2 DEF IInv, TypeInv, TypeOK
<1>2. QED
  BY <1>1, IInvHolds, PTL

\* FullMeansFull: disk_queue_full, which the server and the requesters test
\* instead of the queue, is true exactly when the queue holds as many requests
\* as it can, and requester_num is the number of requesters that are left.
THEOREM FullFlagExact == Spec => []FullMeansFull
<1>1. IInv => FullMeansFull
  BY DEF IInv, CountInv, FullMeansFull
<1>2. QED
  BY <1>1, IInvHolds, PTL

\* FilesInOrder: of every file, what was served, what is in disk_queue and what
\* its requester_func still has to post are the file, track by track.
THEOREM NoRequestLost == Spec => []FilesInOrder
<1>1. IInv => FilesInOrder
  <2> SUFFICES ASSUME IInv PROVE FilesInOrder
    OBVIOUS
  <2>1. OneOutstanding
    BY OutstandingBound DEF OneOutstanding
  <2>2. ASSUME NEW i \in Requester
        PROVE  /\ \A n \in Outstanding(i) : disk_queue[n][2] = files[i][Served(i) + 1]
               /\ Served(i) + Cardinality(Outstanding(i)) + Len(tracks[i]) = Len(files[i])
               /\ \A k \in DOMAIN tracks[i] :
                    tracks[i][k] = files[i][Len(files[i]) - Len(tracks[i]) + k]
    <3>1. /\ \A n \in DOMAIN disk_queue : disk_queue[n][1] = i => disk_queue[n][2] = files[i][Served(i) + 1]
          /\ Posted(i) + Len(tracks[i]) = Len(files[i])
          /\ \A k \in 1 .. Len(tracks[i]) : tracks[i][k] = files[i][Posted(i) + k]
      BY DEF IInv, OrderInv
    <3>2. /\ tracks[i] \in Seq(Nat) /\ DOMAIN tracks[i] = 1 .. Len(tracks[i]) /\ Len(tracks[i]) \in Nat
          /\ Len(served) \in Nat
      BY LenProperties DEF IInv, TypeInv
    <3>3. Served(i) \in Nat
      BY <3>2, TurnType DEF Served
    <3>4. Posted(i) = Served(i) + Cardinality(Outstanding(i)) /\ Posted(i) \in Nat
      <4>1. Cardinality(Outstanding(i)) = IF requester_done[i] = 1 THEN 0 ELSE 1
        BY OutstandingBound
      <4>2. QED
        BY <3>3, <4>1 DEF Posted
    <3>5. Len(files[i]) - Len(tracks[i]) = Posted(i)
      <4>1. Len(files[i]) = Posted(i) + Len(tracks[i])
        BY <3>1
      <4> HIDE DEF Posted
      <4>2. QED
        BY <3>2, <3>4, <4>1
    <3>6. \A k \in DOMAIN tracks[i] :
            tracks[i][k] = files[i][Len(files[i]) - Len(tracks[i]) + k]
      BY <3>1, <3>2, <3>5
    <3>7. Served(i) + Cardinality(Outstanding(i)) + Len(tracks[i]) = Len(files[i])
      BY <3>1, <3>4
    <3>8. QED
      BY <3>1, <3>6, <3>7 DEF Outstanding
  <2>3. QED
    BY <2>1, <2>2 DEF FilesInOrder, IInv, OrderInv
<1>2. QED
  BY <1>1, IInvHolds, PTL

\* ShortestSeekFirst: server_func serves from a queue that is as full as it can
\* get, and no request in it is nearer to the current track than the one it takes.
THEOREM NearestIsServed == Spec => ShortestSeekFirst
<1> DEFINE Chosen ==
      cur_track' # cur_track \/ served' # served =>
        /\ Len(disk_queue) = Capacity(Cardinality(Live))
        /\ \A n \in DOMAIN disk_queue :
             Distance(cur_track, cur_track') <= Distance(cur_track, disk_queue[n][2])
<1>1. IInv /\ [Next]_vars => [Chosen]_vars
  <2> SUFFICES ASSUME IInv, [Next]_vars, cur_track' # cur_track \/ served' # served
               PROVE  /\ Len(disk_queue) = Capacity(Cardinality(Live))
                      /\ \A n \in DOMAIN disk_queue :
                           Distance(cur_track, cur_track') <= Distance(cur_track, disk_queue[n][2])
    OBVIOUS
  <2>1. Serve
    BY DEF Next, RequesterStep, RequesterWait, Post, ServerStep, ServerWait, ServerLeave, vars
  <2>2. Len(disk_queue) = Capacity(Cardinality(Live))
    BY <2>1 DEF IInv, CountInv, Serve
  <2>3. disk_queue # <<>> /\ DOMAIN disk_queue = 1 .. Len(disk_queue)
    BY <2>1, FullIsNotEmpty, LenProperties DEF Serve, IInv, TypeInv
  <2>4. cur_track' = disk_queue[Nearest][2]
    BY <2>1 DEF Serve
  <2>5. QED
    BY <2>2, <2>3, <2>4, NearestExists DEF IInv
<1>2. QED
  BY <1>1, IInvHolds, PTL DEF Spec, ShortestSeekFirst

-----------------------------------------------------------------------------
(* Nobody is left asleep *)

\* Whoever waits on a condition variable has a reason to, so that no wake-up is
\* missing; the server ends only when no requester is left.
WakeInv ==
  /\ server = "waiting" => ~disk_queue_full
  /\ \A i \in Requester : pc[i] = "waiting" => MustWait(i)
  /\ server = "done" => requester_num = 0

\* A thread of the program can run.
SomebodyRuns == server \in {"ready", "unlocked"} \/ \E i \in Requester : pc[i] = "ready"

\* A step that makes the condition of a wait false signals it.
LEMMA WakeKept ==
  ASSUME IInv, WakeInv, [Next]_vars
  PROVE  WakeInv'
<1>1. CASE UNCHANGED vars
  BY <1>1 DEF vars, WakeInv, MustWait
<1>2. ASSUME NEW i \in Requester, RequesterWait(i) PROVE WakeInv'
  BY <1>2 DEF RequesterWait, WakeInv, MustWait, IInv, TypeInv
<1>3. ASSUME NEW i \in Requester, Post(i) PROVE WakeInv'
  <2>1. server' # "waiting"
    BY <1>3 DEF Post, Signalled
  <2>2. ASSUME NEW k \in Requester, pc'[k] = "waiting" PROVE MustWait(k)'
    <3>1. k # i
      BY <1>3, <2>2 DEF Post, IInv, TypeInv
    <3>2. pc[k] = "waiting" /\ requester_done'[k] = requester_done[k] /\ (disk_queue_full => disk_queue_full')
      BY <1>3, <2>2, <3>1 DEF Post, IInv, TypeInv
    <3> QED
      BY <3>2 DEF WakeInv, MustWait
  <2>3. server' = "done" => server = "done" /\ requester_num' = requester_num
    BY <1>3 DEF Post, Signalled
  <2> QED
    BY <2>1, <2>2, <2>3 DEF WakeInv
<1>4. CASE ServerWait
  BY <1>4 DEF ServerWait, WakeInv, MustWait
<1>5. CASE Serve
  BY <1>5 DEF Serve, WakeInv
<1>6. CASE ServerLeave
  BY <1>6 DEF ServerLeave, WakeInv, MustWait
<1> QED
  BY <1>1, <1>2, <1>3, <1>4, <1>5, <1>6 DEF Next, RequesterStep, ServerStep

\* If every requester that is left waits for its request to be served, there are
\* as many requests in the queue as requesters.
LEMMA EveryoneQueued ==
  ASSUME IInv, \A i \in Requester : tracks[i] # <<>> => requester_done[i] = 0
  PROVE  Len(disk_queue) = Cardinality(Live)
<1>1. /\ Len(disk_queue) \in Nat /\ DOMAIN disk_queue = 1 .. Len(disk_queue)
      /\ \A n \in DOMAIN disk_queue : disk_queue[n][1] \in Requester
  BY LenProperties DEF IInv, TypeInv, Requests
<1> DEFINE f == [n \in 1 .. Len(disk_queue) |-> disk_queue[n][1]]
<1>2. ASSUME NEW i \in Live PROVE \E n \in DOMAIN disk_queue : disk_queue[n][1] = i
  <2>1. i \in Requester
    BY DEF Live
  <2>2. CASE Outstanding(i) # {}
    BY <2>2 DEF Outstanding
  <2>3. CASE tracks[i] # <<>>
    <3>1. requester_done[i] # 1
      BY <2>1, <2>3
    <3> QED
      BY <2>1, <3>1 DEF IInv, DoneInv
  <2> QED
    BY <2>2, <2>3 DEF Live
<1>3. \A n \in DOMAIN disk_queue : disk_queue[n][1] \in Live
  BY <1>1 DEF Live, Outstanding
<1>4. f \in Bijection(1 .. Len(disk_queue), Live)
  <2>1. f \in [1 .. Len(disk_queue) -> Live]
    BY <1>1, <1>3
  <2>2. DOMAIN f = 1 .. Len(disk_queue) /\ \A n, m \in DOMAIN f : f[n] = f[m] => n = m
    BY <1>1 DEF IInv, DistinctInv
  <2>3. \A i \in Live : \E n \in 1 .. Len(disk_queue) : f[n] = i
    BY <1>1, <1>2
  <2> HIDE DEF f
  <2> QED
    BY <2>1, <2>2, <2>3 DEF Bijection, Injection, Surjection, IsInjective
<1>5. IsFiniteSet(1 .. Len(disk_queue)) /\ Cardinality(1 .. Len(disk_queue)) = Len(disk_queue)
  BY <1>1, FS_Interval
<1> QED
  BY <1>4, <1>5, FS_Bijection DEF ExistsBijection

\* Requesters and server never all wait for each other (server_cv and
\* requester_cv, scheduler.cpp): as long as requests are left a thread can run,
\* whatever the number of requesters and the capacity of the queue.
THEOREM NeverAllWait == Spec => [](AllDone \/ SomebodyRuns)
<1>1. IInv /\ WakeInv => AllDone \/ SomebodyRuns
  <2> SUFFICES ASSUME IInv, WakeInv, ~SomebodyRuns PROVE AllDone
    OBVIOUS
  <2>1. \A i \in Requester : pc[i] \in {"waiting", "done"}
    BY DEF SomebodyRuns, IInv, TypeInv
  <2>2. server \in {"waiting", "done"}
    BY DEF SomebodyRuns, IInv, TypeInv
  <2>3. CASE server = "waiting"
    <3>1. ~disk_queue_full
      BY <2>3 DEF WakeInv
    <3>2. \A i \in Requester : tracks[i] # <<>> => requester_done[i] = 0
      BY <2>1, <3>1 DEF WakeInv, MustWait, IInv, DoneInv
    <3>3. Len(disk_queue) = Cardinality(Live)
      BY <3>2, EveryoneQueued
    <3>4. Cardinality(Live) \in Nat
      BY LiveFinite, CapacityAssumption
    <3>5. Len(disk_queue) = Capacity(requester_num)
      BY <3>3, <3>4, CapacityAssumption DEF IInv, CountInv, Capacity
    <3> QED
      BY <3>1, <3>5 DEF IInv, CountInv
  <2>4. CASE server = "done"
    <3>1. Live = {}
      BY <2>4, LiveFinite, FS_EmptySet DEF WakeInv, IInv, CountInv
    <3>2. \A i \in Requester : tracks[i] = <<>>
      BY <3>1 DEF Live
    <3> QED
      BY <2>4, <3>2 DEF AllDone, IInv, DoneInv
  <2> QED
    BY <2>2, <2>3, <2>4
<1>2. Init => WakeInv
  BY DEF Init, WakeInv
<1> QED
  BY <1>1, <1>2, WakeKept, IInvHolds, PTL DEF Spec
=============================================================================
