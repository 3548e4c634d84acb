----------------------------- MODULE MCExecution -----------------------------
(* Instances of Execution for TLC.                                          *)
EXTENDS Execution, TLC

CONSTANTS w1, w2, r1, r2, k1, k2, k3, t1, t2, s1, f1

(* Every token and every refund belongs to the one session.                 *)
OneSession == [o \in Token \cup Refund |-> s1]

OneCall == {<<k1, t1>>}

(* Two keys for one token: a page reload draws a second key.                *)
ReloadCalls == {<<k1, t1>>, <<k2, t1>>}

(* No key for two tokens.                                                   *)
TidyCalls == ReloadCalls \cup {<<k3, t2>>}

(* One key for two tokens.                                                  *)
SharedKeyCalls == {<<k1, t1>>, <<k1, t2>>}

(* The second token is then sent again with a key of its own.               *)
RepairedKeyCalls == SharedKeyCalls \cup {<<k2, t2>>}

Perms == Permutations(Worker) \cup Permutations(Slot)
=============================================================================
