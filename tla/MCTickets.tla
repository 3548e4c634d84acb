------------------------------ MODULE MCTickets ------------------------------
(* Instances of Tickets for TLC.                                            *)
EXTENDS Tickets, TLC

CONSTANTS w1, w2, r1, r2, c1, c2, i1, i2, i3, i4, i5

Perms == Permutations(Worker) \cup Permutations(Slot) \cup Permutations(Id)
=============================================================================
