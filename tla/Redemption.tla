----------------------------- MODULE Redemption ------------------------------
(***************************************************************************)
(* What the execution layer promises its clients, without processes,       *)
(* caches, failures or expiry: an offer is redeemed at most once, under    *)
(* one key; the redemption is answered "executed" at most once; a replay   *)
(* repeats a redemption of the same key or token; a refund is made         *)
(* at most once.  Execution implements it.                                 *)
(***************************************************************************)
EXTENDS Naturals

CONSTANTS Call, Refund

VARIABLES rows, firsts, replays, refunded

promise == <<rows, firsts, replays, refunded>>

Redemptions(k, t) == {x \in rows : x.key = k \/ x.token = t}

Init ==
    /\ rows = {}
    /\ firsts = [c \in Call |-> 0]
    /\ replays = {}
    /\ refunded = {}

(* A client's call, or an instant refund, is carried out.                  *)
Redeem(k, t) ==
    /\ Redemptions(k, t) = {}
    /\ rows' = rows \cup {[key |-> k, token |-> t]}
    /\ UNCHANGED <<firsts, replays, refunded>>

AnswerExecuted(c) ==
    /\ [key |-> c[1], token |-> c[2]] \in rows
    /\ firsts[c] = 0
    /\ firsts' = [firsts EXCEPT ![c] = 1]
    /\ UNCHANGED <<rows, replays, refunded>>

AnswerReplay(c) ==
    /\ \E x \in Redemptions(c[1], c[2]) :
         replays' = replays \cup {[key |-> c[1], token |-> c[2], offer |-> x.token]}
    /\ UNCHANGED <<rows, firsts, refunded>>

AnswerRefund(f) ==
    /\ [key |-> f, token |-> f] \in rows
    /\ refunded' = refunded \cup {f}
    /\ UNCHANGED <<rows, firsts, replays>>

Next ==
    \/ \E c \in Call : Redeem(c[1], c[2]) \/ AnswerExecuted(c) \/ AnswerReplay(c)
    \/ \E f \in Refund : Redeem(f, f) \/ AnswerRefund(f)

Spec == Init /\ [][Next]_promise
=============================================================================
