----------------------------- MODULE MCScheduler -----------------------------
(* The scheduler with its history variables and the mapping to Threads. *)
EXTENDS SchedulerOrder, SchedulerThreads, TLC

\* Nothing tells the addresses threads wait on apart.
MCSymmetry == Permutations(Addrs)
=============================================================================
