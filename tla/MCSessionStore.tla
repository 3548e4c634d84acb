---------------------------- MODULE MCSessionStore ---------------------------
(* Instances of SessionStore for TLC.  Nothing but the choice of a free      *)
(* object tells the members of a set apart.                                  *)
EXTENDS SessionStore, TLC

CONSTANTS w1, w2, r1, r2, s1, s2, p1, p2, o1, o2, o3, o4, o5, o6

Perms == Permutations(Worker) \cup Permutations(Slot)
         \cup Permutations(Session) \cup Permutations(Pin)
=============================================================================
