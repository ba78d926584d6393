---------------------------- MODULE DiskScheduler ----------------------------
(***************************************************************************)
(* The concurrent disk scheduler of Project1 (scheduler.cpp): a thread per *)
(* requester posts the tracks of its file one after the other, and the     *)
(* server thread serves the posted request nearest to the current track,   *)
(* but only when disk_queue is as full as it can get.  All their state is  *)
(* protected by mutex1, so that a critical section, from lock or a wake-up *)
(* to the next wait or unlock, is one step.                                *)
(***************************************************************************)
EXTENDS Integers, FiniteSets, SequencesExt

CONSTANTS N,               \* requesters, one for each file of the command line
          max_disk_queue,
          Files            \* the sets of input files: functions 1..N -> Seq(Track)

Requester == 1..N
Track     == 0..999

\* A requester whose file is empty counts but never posts a request, a queue of
\* capacity 0 is never full, and both would leave everybody waiting.
ASSUME CapacityAssumption == N \in Nat \ {0} /\ max_disk_queue \in Nat \ {0}
ASSUME FilesAssumption == Files \subseteq [Requester -> Seq(Track) \ {<<>>}]

VARIABLES files,           \* the input files, which nobody changes
          cur_track, requester_num, disk_queue, disk_queue_full, requester_done,
          tracks,          \* what each requester still has to post
          pc,              \* of each requester: ready, waiting or done
          server,          \* ready, waiting, unlocked or done
          served           \* ghost: the requests served, in order

vars == <<files, cur_track, requester_num, disk_queue, disk_queue_full, requester_done,
          tracks, pc, server, served>>

\* min(requester_num, max_disk_queue)
Capacity(num) == IF num < max_disk_queue THEN num ELSE max_disk_queue

Distance(x, y) == IF x < y THEN y - x ELSE x - y

\* schedule and main: all threads are created, none has run.
Init ==
  /\ files \in Files
  /\ tracks = files
  /\ cur_track = 0
  /\ requester_num = N
  /\ disk_queue = <<>>
  /\ disk_queue_full = FALSE
  /\ requester_done = [i \in Requester |-> 1]
  /\ pc = [i \in Requester |-> "ready"]
  /\ server = "ready"
  /\ served = <<>>

-----------------------------------------------------------------------------
(* requester_func *)

\* The condition under which a requester waits on requester_cv.
MustWait(i) == disk_queue_full \/ requester_done[i] = 0

RequesterWait(i) ==
  /\ pc[i] = "ready" /\ MustWait(i)
  /\ pc' = [pc EXCEPT ![i] = "waiting"]
  /\ UNCHANGED <<files, cur_track, requester_num, disk_queue, disk_queue_full, requester_done,
                 tracks, server, served>>

\* server_cv.signal()
\* Mutant: nobody is signalled.
NotSignalled == server
Signalled == IF server = "waiting" THEN "ready" ELSE server

\* Mutant: the number of tracks left.
TracksLeft(i) == Len(tracks[i]) - 1

\* requester_done once a request is posted: -1 marks the last one of the file.
DoneAfterPost(i) == IF Len(tracks[i]) = 1 THEN -1 ELSE 0

Post(i) ==
  /\ pc[i] = "ready" /\ ~MustWait(i)
  /\ disk_queue' = Append(disk_queue, <<i, Head(tracks[i])>>)
  /\ tracks' = [tracks EXCEPT ![i] = Tail(@)]
  /\ disk_queue_full' = (disk_queue_full \/ Len(disk_queue') = Capacity(requester_num))
  /\ requester_done' = [requester_done EXCEPT ![i] = DoneAfterPost(i)]
  /\ pc' = [pc EXCEPT ![i] = IF tracks'[i] = <<>> THEN "done" ELSE "ready"]
  /\ server' = Signalled
  /\ UNCHANGED <<files, cur_track, requester_num, served>>

-----------------------------------------------------------------------------
(* server_func *)

ServerWait ==
  /\ server = "ready" /\ ~disk_queue_full
  /\ server' = "waiting"
  /\ UNCHANGED <<files, cur_track, requester_num, disk_queue, disk_queue_full, requester_done,
                 tracks, pc, served>>

\* Mutant: the oldest request.
Oldest == 1

\* The first of the requests nearest to the current track.
Nearest ==
  CHOOSE n \in DOMAIN disk_queue :
    \A k \in DOMAIN disk_queue :
      /\ Distance(cur_track, disk_queue[n][2]) <= Distance(cur_track, disk_queue[k][2])
      /\ k < n => Distance(cur_track, disk_queue[n][2]) < Distance(cur_track, disk_queue[k][2])

\* Mutant: a requester that has nothing left to post still counts.
AlwaysCounted(i) == requester_num

\* requester_num once requester i has been served.
StillActive(i) == requester_num - (IF requester_done[i] = -1 THEN 1 ELSE 0)

\* disk_queue_full after a request was served.
FullAfterService(queue, num) == Len(queue) = Capacity(num)

\* Mutant: the oldest request is erased, whichever was served.
OldestErased == Tail(disk_queue)

\* disk_queue.erase
QueueAfterService == RemoveAt(disk_queue, Nearest)

\* A request is served, and all requesters that wait are woken up.
Serve ==
  /\ server = "ready" /\ disk_queue_full
  /\ LET request == disk_queue[Nearest]
         i       == request[1]
     IN  /\ cur_track' = request[2]
         /\ served' = Append(served, request)
         /\ disk_queue' = QueueAfterService
         /\ requester_num' = StillActive(i)
         /\ disk_queue_full' = FullAfterService(disk_queue', requester_num')
         /\ requester_done' = [requester_done EXCEPT ![i] = 1]
         /\ pc' = [k \in Requester |-> IF pc[k] = "waiting" THEN "ready" ELSE pc[k]]
  /\ server' = "unlocked"
  /\ UNCHANGED <<files, tracks>>

\* requester_num is read again without the mutex.
ServerLeave ==
  /\ server = "unlocked"
  /\ server' = IF requester_num = 0 THEN "done" ELSE "ready"
  /\ UNCHANGED <<files, cur_track, requester_num, disk_queue, disk_queue_full, requester_done,
                 tracks, pc, served>>

RequesterStep(i) == RequesterWait(i) \/ Post(i)
ServerStep == ServerWait \/ Serve \/ ServerLeave

\* schedule has joined every thread, and the program ends.
AllDone == server = "done" /\ \A i \in Requester : pc[i] = "done"

Next == (\E i \in Requester : RequesterStep(i)) \/ ServerStep

Spec == Init /\ [][Next]_vars

\* No thread that can run is left out for ever.
FairSpec == Spec /\ WF_vars(ServerStep) /\ \A i \in Requester : WF_vars(RequesterStep(i))

-----------------------------------------------------------------------------
(* Properties *)

\* Every variable has the type it is used with.
TypeOK ==
  /\ cur_track \in Nat /\ requester_num \in 0..N
  /\ \A n \in DOMAIN disk_queue : disk_queue[n] \in Requester \X Nat
  /\ disk_queue_full \in BOOLEAN
  /\ requester_done \in [Requester -> {-1, 0, 1}]
  /\ \A i \in Requester : tracks[i] \in Seq(Nat)
  /\ pc \in [Requester -> {"ready", "waiting", "done"}]
  /\ server \in {"ready", "waiting", "unlocked", "done"}

Outstanding(i) == {n \in DOMAIN disk_queue : disk_queue[n][1] = i}

\* The requesters that have a request in the queue or are still to post one.
Live == {i \in Requester : Outstanding(i) # {} \/ tracks[i] # <<>>}

\* A requester never has two requests in the queue, and requester_done tells
\* whether it has one: this is what keeps the requests of a file in order.
OneOutstanding ==
  \A i \in Requester :
    /\ Cardinality(Outstanding(i)) <= 1
    /\ Outstanding(i) = {} <=> requester_done[i] = 1

\* The flag that server and requesters wait on says that the queue holds as
\* many requests as the requesters that are left and its capacity allow.
FullMeansFull ==
  /\ requester_num = Cardinality(Live)
  /\ disk_queue_full <=> Len(disk_queue) = Capacity(Cardinality(Live))
  /\ Len(disk_queue) <= Capacity(Cardinality(Live))

\* The server picks a request than which none in the queue is nearer to the
\* current track, and only from a queue that is as full as it can get.
ShortestSeekFirst ==
  [][cur_track' # cur_track \/ served' # served =>
       /\ Len(disk_queue) = Capacity(Cardinality(Live))
       /\ \A n \in DOMAIN disk_queue :
            Distance(cur_track, cur_track') <= Distance(cur_track, disk_queue[n][2])]_vars

\* Nobody waits for ever: all requests are posted and served and all threads end.
Terminates == <>AllDone

\* Of the requests served up to the n-th, those of requester i; and of all of them.
Turn(i, n) == Cardinality({k \in 1..n : served[k][1] = i})
Served(i)  == Turn(i, Len(served))

\* Of each file, what has been served, what is in the queue and what is still
\* to be posted are the file, in its order: no request is lost or served twice,
\* and only one waits at a time.
FilesInOrder ==
  /\ OneOutstanding
  /\ \A i \in Requester :
       /\ \A n \in DOMAIN served : served[n][1] = i => served[n][2] = files[i][Turn(i, n)]
       /\ \A n \in Outstanding(i) : disk_queue[n][2] = files[i][Served(i) + 1]
       /\ Served(i) + Cardinality(Outstanding(i)) + Len(tracks[i]) = Len(files[i])
       /\ \A k \in DOMAIN tracks[i] : tracks[i][k] = files[i][Len(files[i]) - Len(tracks[i]) + k]
=============================================================================
