----------------------------- MODULE MCThreadApps -----------------------------
(* The programs of Project2 for TLC.                                         *)
EXTENDS ThreadApps

Programs == DOMAIN Texts

\* Those that end the same way whenever the timer interrupts them run with
\* interrupts, whatever their call of cpu::boot asks for, and so does early.
AnyTimer == {"early", "test1", "test2", "test7", "test9", "test15", "test21", "app", "contention"}
=============================================================================
