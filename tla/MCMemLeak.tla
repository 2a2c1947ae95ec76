------------------------------ MODULE MCMemLeak ------------------------------
(* Two threads, three addresses and two stacks, of which a report goes
   through one.                                                              *)
EXTENDS MemLeak, TLC

CONSTANTS t1, t2

MCThreads == {t1, t2}
MCAddrs == 1..3
MCStacks == {5, 6}
Symm == Permutations(MCThreads)
=============================================================================
