--------------------------- MODULE MCDiskScheduler ---------------------------
(***************************************************************************)
(* Three requesters and a queue of two: the queue is smaller than the      *)
(* number of requesters at first and at least as large at the end.  Files  *)
(* of one and two tracks, with equal tracks and equal distances.           *)
(***************************************************************************)
EXTENDS DiskScheduler

SmallFiles == [Requester -> {<<5>>, <<2, 8>>, <<8, 2>>, <<5, 5>>, <<8, 5, 2>>}]
=============================================================================
