--------------------------- MODULE ExecutionProofs ---------------------------
(***************************************************************************)
(* Theorems about Execution, for any number of workers, requests, keys,    *)
(* tokens, sessions and faults.                                            *)
(***************************************************************************)
EXTENDS Execution, TLAPS

(* What a program counter says about the request: which worker runs it,    *)
(* which call or turn it is, and that its session object is in memory.     *)
HasSession == {"jti", "decide", "commit", "created", "conflict", "snapshot"}

ShapeOf(r) ==
    /\ pc[r] # "idle" =>
         /\ job[r].at \in Worker
         /\ \/ <<job[r].key, job[r].token>> \in Call
            \/ job[r].key \in Refund /\ job[r].token = job[r].key
    /\ pc[r] \in {"lookup", "verify", "jti"} => job[r].token \in Token
    /\ pc[r] = "decide" => job[r].token \in Refund
    /\ pc[r] \in {"created", "conflict"} => got[r] # None
    /\ pc[r] \in HasSession => outcome[job[r].at][Sid(r)] # "absent"
    /\ pc[r] = "idle" => got[r] = None /\ snap[r] = "none"

Shape == \A r \in Slot : ShapeOf(r)

LEMMA TypeShapeInit == Init => TypeOK /\ Shape
<1> SUFFICES ASSUME Init PROVE TypeOK /\ Shape
  OBVIOUS
<1>1. TypeOK
  BY ExecutionAssumption DEF Init, TypeOK, Outcomes, Pc, Job, NoJob
<1>2. Shape
  BY DEF Init, Shape, ShapeOf, HasSession
<1> QED BY <1>1, <1>2

(* Facts about a served request that many steps below need.                *)
LEMMA Served ==
    ASSUME TypeOK, Shape, NEW r \in Slot, pc[r] # "idle"
    PROVE  /\ job[r].at \in Worker
           /\ job[r].key \in Key \cup Refund
           /\ job[r].token \in Offer
           /\ Sid(r) \in Session
           /\ IsTurn(r) => job[r].key = job[r].token
           /\ ~IsTurn(r) => /\ job[r].key \in Key
                            /\ job[r].token \in Token
                            /\ <<job[r].key, job[r].token>> \in Call
  BY ExecutionAssumption DEF TypeOK, Shape, ShapeOf, Sid, SessionOf, IsTurn, Offer


OthersKept(r) ==
    /\ \A q \in Slot \ {r} : pc'[q] = pc[q] /\ job'[q] = job[q] /\ got'[q] = got[q] /\ snap'[q] = snap[q]
    /\ \A w \in Worker, s \in Session :
         outcome[w][s] # "absent" => outcome'[w][s] # "absent"

LEMMA ShapeFrame ==
    ASSUME TypeOK, Shape, NEW r \in Slot, OthersKept(r), ShapeOf(r)'
    PROVE  Shape'
<1> SUFFICES ASSUME NEW q \in Slot, q # r PROVE ShapeOf(q)'
  BY DEF Shape
<1>1. pc'[q] = pc[q] /\ job'[q] = job[q] /\ got'[q] = got[q] /\ snap'[q] = snap[q]
  BY DEF OthersKept
<1>2. Sid(q)' = Sid(q)
  BY <1>1 DEF Sid, SessionOf
<1>3. pc[q] \in HasSession => job[q].at \in Worker /\ Sid(q) \in Session
  BY Served DEF HasSession
<1>4. pc[q] \in HasSession => outcome'[job[q].at][Sid(q)] # "absent"
  BY <1>3 DEF Shape, ShapeOf, OthersKept
<1> QED BY <1>1, <1>2, <1>4 DEF Shape, ShapeOf

LEMMA CallParts == ASSUME NEW c \in Call PROVE c[1] \in Key /\ c[2] \in Token /\ c = <<c[1], c[2]>>
  BY ExecutionAssumption

LEMMA FaultCounted == ASSUME TypeOK, Fault PROVE faults' \in Nat
  BY DEF TypeOK, Fault

LEMMA TypeShapeStep ==
    ASSUME TypeOK, Shape, [Next]_vars
    PROVE  TypeOK' /\ Shape'
<1> USE ExecutionAssumption
<1> USE DEF At, Goto, Move, Begin, Done, Fault, Returned, served, memory, database, told
<1>1. ASSUME NEW c \in Call, NEW r \in Slot, NEW w \in Worker, AcceptReplay(r, w, c)
      PROVE  TypeOK' /\ Shape'
  <2>1. replays' \subseteq [key : Key, token : Token, offer : Offer]
    BY <1>1, CallParts DEF AcceptReplay, TypeOK, Replay
  <2>2. TypeOK' BY <1>1, <2>1 DEF AcceptReplay, TypeOK
  <2>3. Shape' BY <1>1 DEF AcceptReplay, Shape, ShapeOf, Sid, SessionOf
  <2> QED BY <2>2, <2>3
<1>2. ASSUME NEW c \in Call, NEW r \in Slot, NEW w \in Worker, AcceptArrive(r, w, c)
      PROVE  TypeOK' /\ Shape'
  <2>1. TypeOK' BY <1>2, CallParts DEF AcceptArrive, TypeOK, Pc, Job, Offer
  <2>2. OthersKept(r) BY <1>2 DEF AcceptArrive, TypeOK, OthersKept
  <2>3. ShapeOf(r)' BY <1>2, CallParts DEF AcceptArrive, TypeOK, ShapeOf, HasSession
  <2> QED BY <2>1, <2>2, <2>3, ShapeFrame
<1>3. ASSUME NEW r \in Slot, LookupHit(r) PROVE TypeOK' /\ Shape'
  <2>1. PICK x \in RowsOfKey(job[r].key) :
          /\ known' = [known EXCEPT ![job[r].at][job[r].key] = x.token]
          /\ replays' = replays \cup {Replay(job[r].key, job[r].token, x.token)}
    BY <1>3 DEF LookupHit
  <2>2. x.token \in Offer /\ job[r].token \in Token /\ job[r].key \in Key /\ job[r].at \in Worker
    BY <1>3, Served DEF LookupHit, RowsOfKey, TypeOK, Shape, ShapeOf, IsTurn
  <2>3. known' \in [Worker -> [Key \cup Offer -> Offer \cup {None}]]
    BY <2>1, <2>2 DEF TypeOK
  <2>4. replays' \subseteq [key : Key, token : Token, offer : Offer]
    BY <2>1, <2>2 DEF TypeOK, Replay
  <2>5. TypeOK' BY <1>3, <2>3, <2>4 DEF LookupHit, TypeOK, Pc, Job, NoJob, Outcomes
  <2>6. OthersKept(r) BY <1>3 DEF LookupHit, TypeOK, OthersKept
  <2>7. ShapeOf(r)' BY <1>3 DEF LookupHit, TypeOK, ShapeOf, HasSession
  <2> QED BY <2>5, <2>6, <2>7, ShapeFrame
<1>4. ASSUME NEW r \in Slot, LookupMiss(r) PROVE TypeOK' /\ Shape'
  <2>1. TypeOK' BY <1>4 DEF LookupMiss, TypeOK, Pc
  <2>2. OthersKept(r) BY <1>4 DEF LookupMiss, TypeOK, OthersKept
  <2>3. ShapeOf(r)' BY <1>4 DEF LookupMiss, TypeOK, Shape, ShapeOf, HasSession
  <2> QED BY <2>1, <2>2, <2>3, ShapeFrame
<1>5. ASSUME NEW r \in Slot, LookupFails(r) PROVE TypeOK' /\ Shape'
  <2>0. faults' \in Nat BY <1>5, FaultCounted DEF LookupFails
  <2>1. TypeOK' BY <1>5, <2>0 DEF LookupFails, TypeOK, Pc
  <2>2. OthersKept(r) BY <1>5 DEF LookupFails, TypeOK, OthersKept
  <2>3. ShapeOf(r)' BY <1>5 DEF LookupFails, TypeOK, Shape, ShapeOf, HasSession
  <2> QED BY <2>1, <2>2, <2>3, ShapeFrame
<1>6. ASSUME NEW r \in Slot, Verified(r) PROVE TypeOK' /\ Shape'
  <2>0. job[r].at \in Worker /\ Sid(r) \in Session
    BY <1>6, Served DEF Verified
  <2>1. outcome' \in [Worker -> [Session -> Outcomes \cup {"absent"}]]
    BY <1>6, <2>0 DEF Verified, TypeOK, Loaded
  <2>2. TypeOK' BY <1>6, <2>1 DEF Verified, TypeOK, Pc
  <2>3. OthersKept(r) BY <1>6, <2>0 DEF Verified, Loaded, Outcomes, TypeOK, OthersKept
  <2>4. Sid(r)' = Sid(r) BY <1>6 DEF Verified, Sid, SessionOf
  <2>5. outcome'[job[r].at][Sid(r)] # "absent"
    BY <1>6, <2>0 DEF Verified, Loaded, Outcomes, TypeOK
  <2>6. ShapeOf(r)' BY <1>6, <2>4, <2>5 DEF Verified, TypeOK, Shape, ShapeOf
  <2> QED BY <2>2, <2>3, <2>6, ShapeFrame
<1>7. ASSUME NEW r \in Slot, Rejected(r) PROVE TypeOK' /\ Shape'
  <2>1. TypeOK' BY <1>7 DEF Rejected, TypeOK, Pc, Job, NoJob, Outcomes
  <2>2. OthersKept(r) BY <1>7 DEF Rejected, TypeOK, OthersKept
  <2>3. ShapeOf(r)' BY <1>7 DEF Rejected, TypeOK, ShapeOf, HasSession
  <2> QED BY <2>1, <2>2, <2>3, ShapeFrame
<1>8. ASSUME NEW r \in Slot, RejectedByFault(r) PROVE TypeOK' /\ Shape'
  <2>0. faults' \in Nat BY <1>8, FaultCounted DEF RejectedByFault
  <2>1. TypeOK' BY <1>8, <2>0 DEF RejectedByFault, TypeOK, Pc, Job, NoJob, Outcomes
  <2>2. OthersKept(r) BY <1>8 DEF RejectedByFault, TypeOK, OthersKept
  <2>3. ShapeOf(r)' BY <1>8 DEF RejectedByFault, TypeOK, ShapeOf, HasSession
  <2> QED BY <2>1, <2>2, <2>3, ShapeFrame
<1>9. ASSUME NEW r \in Slot, TokenReplay(r) PROVE TypeOK' /\ Shape'
  <2> DEFINE prior == known[job[r].at][job[r].token]
  <2>1. job[r].token \in Token /\ job[r].key \in Key /\ job[r].at \in Worker
    BY <1>9, Served DEF TokenReplay, Shape, ShapeOf, IsTurn
  <2>2. prior \in Offer
    BY <1>9, <2>1 DEF TokenReplay, TypeOK, Offer
  <2>3. known' \in [Worker -> [Key \cup Offer -> Offer \cup {None}]]
    BY <1>9, <2>1, <2>2 DEF TokenReplay, TypeOK
  <2>4. replays' \subseteq [key : Key, token : Token, offer : Offer]
    BY <1>9, <2>1, <2>2 DEF TokenReplay, TypeOK, Replay
  <2>5. TypeOK' BY <1>9, <2>3, <2>4 DEF TokenReplay, TypeOK, Pc, Job, NoJob, Outcomes
  <2>6. OthersKept(r) BY <1>9 DEF TokenReplay, TypeOK, OthersKept
  <2>7. ShapeOf(r)' BY <1>9 DEF TokenReplay, TypeOK, ShapeOf, HasSession
  <2> QED BY <2>5, <2>6, <2>7, ShapeFrame
<1>10. ASSUME NEW r \in Slot, TokenNew(r) PROVE TypeOK' /\ Shape'
  <2>1. TypeOK' BY <1>10 DEF TokenNew, TypeOK, Pc
  <2>2. OthersKept(r) BY <1>10 DEF TokenNew, TypeOK, OthersKept
  <2>3. Sid(r)' = Sid(r) BY <1>10 DEF TokenNew, Sid, SessionOf
  <2>4. ShapeOf(r)' BY <1>10, <2>3 DEF TokenNew, TypeOK, Shape, ShapeOf, HasSession
  <2> QED BY <2>1, <2>2, <2>4, ShapeFrame
<1>11. ASSUME NEW r \in Slot, CommitInsert(r) PROVE TypeOK' /\ Shape'
  <2>0. /\ job[r].key \in Key \cup Refund /\ job[r].token \in Offer
        /\ Sid(r) \in Session
    BY <1>11, Served DEF CommitInsert
  <2>1. rows' \subseteq [key : Key \cup Refund, token : Offer]
    BY <1>11, <2>0 DEF CommitInsert, Insert, TypeOK
  <2>2. dbOutcome' \in [Session -> Outcomes]
    BY <1>11, <2>0 DEF CommitInsert, Insert, TypeOK, OutcomeOf, Outcomes
  <2>3. TypeOK' BY <1>11, <2>0, <2>1, <2>2 DEF CommitInsert, TypeOK, Pc
  <2>4. OthersKept(r) BY <1>11 DEF CommitInsert, TypeOK, OthersKept
  <2>5. Sid(r)' = Sid(r) BY <1>11 DEF CommitInsert, Sid, SessionOf
  <2>6. ShapeOf(r)'
    BY <1>11, <2>0, <2>5 DEF CommitInsert, TypeOK, Shape, ShapeOf, HasSession, Offer
  <2> QED BY <2>3, <2>4, <2>6, ShapeFrame
<1>12. ASSUME NEW r \in Slot, CommitConflict(r) PROVE TypeOK' /\ Shape'
  <2>0. PICK x \in rows : Returned(r, "conflict", x.token)
    BY <1>12 DEF CommitConflict, RowsOfKey, RowsOfToken
  <2>1. x.token \in Offer BY <2>0 DEF TypeOK
  <2>2. TypeOK' BY <1>12, <2>0, <2>1 DEF CommitConflict, TypeOK, Pc
  <2>3. OthersKept(r) BY <1>12, <2>0 DEF CommitConflict, TypeOK, OthersKept
  <2>4. Sid(r)' = Sid(r) BY <2>0 DEF Sid, SessionOf
  <2>5. ShapeOf(r)'
    BY <1>12, <2>0, <2>1, <2>4 DEF CommitConflict, TypeOK, Shape, ShapeOf, HasSession, Offer
  <2> QED BY <2>2, <2>3, <2>5, ShapeFrame
<1>13. ASSUME NEW r \in Slot, CommitFails(r) PROVE TypeOK' /\ Shape'
  <2>0. faults' \in Nat BY <1>13, FaultCounted DEF CommitFails
  <2>1. TypeOK' BY <1>13, <2>0 DEF CommitFails, TypeOK, Pc, Job, NoJob, Outcomes
  <2>2. OthersKept(r) BY <1>13 DEF CommitFails, TypeOK, OthersKept
  <2>3. ShapeOf(r)' BY <1>13 DEF CommitFails, TypeOK, ShapeOf, HasSession
  <2> QED BY <2>1, <2>2, <2>3, ShapeFrame
<1>14. ASSUME NEW r \in Slot, CommitUnacknowledged(r) PROVE TypeOK' /\ Shape'
  <2>0. /\ job[r].key \in Key \cup Refund /\ job[r].token \in Offer
        /\ Sid(r) \in Session
    BY <1>14, Served DEF CommitUnacknowledged
  <2>1. rows' \subseteq [key : Key \cup Refund, token : Offer]
    BY <1>14, <2>0 DEF CommitUnacknowledged, Insert, TypeOK
  <2>2. dbOutcome' \in [Session -> Outcomes]
    BY <1>14, <2>0 DEF CommitUnacknowledged, Insert, TypeOK, OutcomeOf, Outcomes
  <2>3. faults' \in Nat BY <1>14, FaultCounted DEF CommitUnacknowledged
  <2>4. TypeOK'
    BY <1>14, <2>1, <2>2, <2>3 DEF CommitUnacknowledged, TypeOK, Pc, Job, NoJob, Outcomes
  <2>5. OthersKept(r) BY <1>14 DEF CommitUnacknowledged, TypeOK, OthersKept
  <2>6. ShapeOf(r)' BY <1>14 DEF CommitUnacknowledged, TypeOK, ShapeOf, HasSession
  <2> QED BY <2>4, <2>5, <2>6, ShapeFrame
<1>15. ASSUME NEW r \in Slot, PublishNew(r) PROVE TypeOK' /\ Shape'
  <2>0. /\ job[r].at \in Worker /\ Sid(r) \in Session
        /\ job[r].key \in Key \cup Refund /\ job[r].token \in Offer
    BY <1>15, Served DEF PublishNew
  <2>1. outcome' \in [Worker -> [Session -> Outcomes \cup {"absent"}]]
    BY <1>15, <2>0 DEF PublishNew, TypeOK, SetOutcome, Outcomes
  <2>6. known' \in [Worker -> [Key \cup Offer -> Offer \cup {None}]]
    BY <1>15, <2>0 DEF PublishNew, Publish, TypeOK
  <2>2. TypeOK' BY <1>15, <2>0, <2>1, <2>6 DEF PublishNew, TypeOK, Pc
  <2>3. OthersKept(r) BY <1>15, <2>0 DEF PublishNew, SetOutcome, TypeOK, OthersKept
  <2>4. Sid(r)' = Sid(r) BY <1>15 DEF PublishNew, Sid, SessionOf
  <2>5. outcome'[job[r].at][Sid(r)] = "retained"
    BY <1>15, <2>0 DEF PublishNew, SetOutcome, TypeOK
  <2>7. ShapeOf(r)' BY <1>15, <2>4, <2>5 DEF PublishNew, TypeOK, Shape, ShapeOf
  <2> QED BY <2>2, <2>3, <2>7, ShapeFrame
<1>16. ASSUME NEW r \in Slot, PublishReplay(r) PROVE TypeOK' /\ Shape'
  <2>1. /\ job[r].token \in Token /\ job[r].key \in Key /\ job[r].at \in Worker
        /\ got[r] \in Offer
    BY <1>16, Served DEF PublishReplay, TypeOK, Shape, ShapeOf
  <2>3. known' \in [Worker -> [Key \cup Offer -> Offer \cup {None}]]
    BY <1>16, <2>1 DEF PublishReplay, Publish, TypeOK
  <2>4. replays' \subseteq [key : Key, token : Token, offer : Offer]
    BY <1>16, <2>1 DEF PublishReplay, TypeOK, Replay
  <2>5. TypeOK' BY <1>16, <2>3, <2>4 DEF PublishReplay, TypeOK, Pc, Job, NoJob, Outcomes
  <2>6. OthersKept(r) BY <1>16 DEF PublishReplay, TypeOK, OthersKept
  <2>7. ShapeOf(r)' BY <1>16 DEF PublishReplay, TypeOK, ShapeOf, HasSession
  <2> QED BY <2>5, <2>6, <2>7, ShapeFrame
<1>17. ASSUME NEW r \in Slot, PublishRefund(r) PROVE TypeOK' /\ Shape'
  <2>0. /\ job[r].at \in Worker /\ Sid(r) \in Session
        /\ job[r].key \in Key \cup Refund /\ job[r].token \in Offer
    BY <1>17, Served DEF PublishRefund
  <2>1. outcome' \in [Worker -> [Session -> Outcomes \cup {"absent"}]]
    BY <1>17, <2>0 DEF PublishRefund, TypeOK, SetOutcome, Outcomes
  <2>6. known' \in [Worker -> [Key \cup Offer -> Offer \cup {None}]]
    BY <1>17, <2>0 DEF PublishRefund, Publish, TypeOK
  <2>2. TypeOK' BY <1>17, <2>0, <2>1, <2>6 DEF PublishRefund, TypeOK, Pc
  <2>3. OthersKept(r) BY <1>17, <2>0 DEF PublishRefund, SetOutcome, TypeOK, OthersKept
  <2>4. Sid(r)' = Sid(r) BY <1>17 DEF PublishRefund, Sid, SessionOf
  <2>5. outcome'[job[r].at][Sid(r)] = "instant_refund"
    BY <1>17, <2>0 DEF PublishRefund, SetOutcome, TypeOK
  <2>7. ShapeOf(r)' BY <1>17, <2>4, <2>5 DEF PublishRefund, TypeOK, Shape, ShapeOf
  <2> QED BY <2>2, <2>3, <2>7, ShapeFrame
<1>18. ASSUME NEW r \in Slot, Snapshot(r) PROVE TypeOK' /\ Shape'
  <2>0. job[r].at \in Worker /\ Sid(r) \in Session
    BY <1>18, Served DEF Snapshot
  <2>a. outcome[job[r].at][Sid(r)] # "absent"
    BY <1>18 DEF Snapshot, Shape, ShapeOf, HasSession
  <2>b. outcome[job[r].at][Sid(r)] \in Outcomes \cup {"absent"}
    BY <2>0 DEF TypeOK
  <2>1. outcome[job[r].at][Sid(r)] \in Outcomes
    BY <2>a, <2>b
  <2>2. TypeOK' BY <1>18, <2>1 DEF Snapshot, TypeOK, Pc
  <2>3. OthersKept(r) BY <1>18 DEF Snapshot, TypeOK, OthersKept
  <2>4. ShapeOf(r)' BY <1>18 DEF Snapshot, TypeOK, Shape, ShapeOf, HasSession
  <2> QED BY <2>2, <2>3, <2>4, ShapeFrame
<1>19. ASSUME NEW r \in Slot, Write(r) \/ NoWrite(r) PROVE TypeOK' /\ Shape'
  <2>0. pc[r] # "idle" BY <1>19 DEF Write, NoWrite
  <2>1. Respond(r) BY <1>19 DEF Write, NoWrite
  <2>2. dbOutcome' \in [Session -> Outcomes]
    BY <1>19 DEF Write, NoWrite, TypeOK
  <2>a. \A c \in Call : firsts[c] + 1 \in Nat BY DEF TypeOK
  <2>3. firsts' \in [Call -> Nat] BY <2>1, <2>a DEF Respond, TypeOK
  <2>4. refunded' \subseteq Refund BY <2>1 DEF Respond, IsTurn, TypeOK
  <2>5. TypeOK'
    BY <1>19, <2>1, <2>2, <2>3, <2>4 DEF Write, NoWrite, Respond, TypeOK, Pc, Job, NoJob, Outcomes
  <2>6. OthersKept(r) BY <1>19, <2>1 DEF Write, NoWrite, Respond, TypeOK, OthersKept
  <2>7. ShapeOf(r)' BY <2>1 DEF Respond, TypeOK, ShapeOf, HasSession
  <2> QED BY <2>5, <2>6, <2>7, ShapeFrame
<1>20. ASSUME NEW r \in Slot, WriteFails(r) PROVE TypeOK' /\ Shape'
  <2>0. faults' \in Nat BY <1>20, FaultCounted DEF WriteFails
  <2>1. TypeOK' BY <1>20, <2>0 DEF WriteFails, TypeOK, Pc, Job, NoJob, Outcomes
  <2>2. OthersKept(r) BY <1>20 DEF WriteFails, TypeOK, OthersKept
  <2>3. ShapeOf(r)' BY <1>20 DEF WriteFails, TypeOK, ShapeOf, HasSession
  <2> QED BY <2>1, <2>2, <2>3, ShapeFrame
<1>21. ASSUME NEW r \in Slot, NEW w \in Worker, NEW f \in Refund, TurnArrive(r, w, f)
       PROVE  TypeOK' /\ Shape'
  <2> DEFINE s == SessionOf(f)
  <2>0. s \in Session /\ outcome' = Loaded(w, s)
    BY <1>21 DEF TurnArrive, SessionOf
  <2>4. job'[r] = [at |-> w, key |-> f, token |-> f] /\ pc'[r] = "decide"
    BY <1>21 DEF TurnArrive, TypeOK
  <2>5. Sid(r)' = s BY <2>4 DEF Sid, SessionOf
  <2> HIDE DEF s
  <2>1. outcome' \in [Worker -> [Session -> Outcomes \cup {"absent"}]]
    BY <2>0 DEF TypeOK, Loaded
  <2>2. TypeOK' BY <1>21, <2>1 DEF TurnArrive, TypeOK, Pc, Job, Offer
  <2>3. OthersKept(r) BY <1>21, <2>0 DEF TurnArrive, Loaded, Outcomes, TypeOK, OthersKept
  <2>6. outcome'[w][s] # "absent"
    BY <2>0 DEF Loaded, Outcomes, TypeOK
  <2>7. ShapeOf(r)' BY <2>4, <2>5, <2>6 DEF ShapeOf
  <2> QED BY <2>2, <2>3, <2>7, ShapeFrame
<1>22. ASSUME NEW r \in Slot, TurnContinue(r) PROVE TypeOK' /\ Shape'
  <2>1. TypeOK' BY <1>22 DEF TurnContinue, TypeOK, Pc
  <2>2. OthersKept(r) BY <1>22 DEF TurnContinue, TypeOK, OthersKept
  <2>3. Sid(r)' = Sid(r) BY <1>22 DEF TurnContinue, Sid, SessionOf
  <2>4. ShapeOf(r)' BY <1>22, <2>3 DEF TurnContinue, TypeOK, Shape, ShapeOf, HasSession
  <2> QED BY <2>1, <2>2, <2>4, ShapeFrame
<1>23. ASSUME NEW r \in Slot, TurnConclude(r) PROVE TypeOK' /\ Shape'
  <2>0. /\ job[r].at \in Worker /\ Sid(r) \in Session
        /\ job[r].key \in Key \cup Refund /\ job[r].token \in Offer
    BY <1>23, Served DEF TurnConclude
  <2>1. outcome' \in [Worker -> [Session -> Outcomes \cup {"absent"}]]
    BY <1>23, <2>0 DEF TurnConclude, TypeOK, SetOutcome, Outcomes
  <2>2. TypeOK' BY <1>23, <2>0, <2>1 DEF TurnConclude, TypeOK, Pc
  <2>3. OthersKept(r) BY <1>23, <2>0 DEF TurnConclude, SetOutcome, TypeOK, OthersKept
  <2>4. Sid(r)' = Sid(r) BY <1>23 DEF TurnConclude, Sid, SessionOf
  <2>5. outcome'[job[r].at][Sid(r)] = "concluded"
    BY <1>23, <2>0 DEF TurnConclude, SetOutcome, TypeOK
  <2>7. ShapeOf(r)' BY <1>23, <2>4, <2>5 DEF TurnConclude, TypeOK, Shape, ShapeOf
  <2> QED BY <2>2, <2>3, <2>7, ShapeFrame
<1>24. ASSUME NEW r \in Slot, TurnRefund(r) PROVE TypeOK' /\ Shape'
  <2>1. TypeOK' BY <1>24 DEF TurnRefund, TypeOK, Pc
  <2>2. OthersKept(r) BY <1>24 DEF TurnRefund, TypeOK, OthersKept
  <2>3. Sid(r)' = Sid(r) BY <1>24 DEF TurnRefund, Sid, SessionOf
  <2>4. ShapeOf(r)' BY <1>24, <2>3 DEF TurnRefund, TypeOK, Shape, ShapeOf, HasSession
  <2> QED BY <2>1, <2>2, <2>4, ShapeFrame
<1>25. ASSUME NEW r \in Slot, TurnRefundAgain(r) PROVE TypeOK' /\ Shape'
  <2>0. /\ job[r].at \in Worker /\ Sid(r) \in Session
        /\ job[r].key \in Key \cup Refund /\ job[r].token \in Offer
    BY <1>25, Served DEF TurnRefundAgain
  <2>1. outcome' \in [Worker -> [Session -> Outcomes \cup {"absent"}]]
    BY <1>25, <2>0 DEF TurnRefundAgain, TypeOK, SetOutcome, Outcomes
  <2>6. got' \in [Slot -> Offer \cup {None}]
    BY <1>25, <2>0 DEF TurnRefundAgain, TypeOK, Offer
  <2>2. TypeOK' BY <1>25, <2>0, <2>1, <2>6 DEF TurnRefundAgain, TypeOK, Pc
  <2>3. OthersKept(r) BY <1>25, <2>0 DEF TurnRefundAgain, SetOutcome, TypeOK, OthersKept
  <2>4. Sid(r)' = Sid(r) BY <1>25 DEF TurnRefundAgain, Sid, SessionOf
  <2>5. outcome'[job[r].at][Sid(r)] = "instant_refund"
    BY <1>25, <2>0 DEF TurnRefundAgain, SetOutcome, TypeOK
  <2>7. ShapeOf(r)' BY <1>25, <2>4, <2>5 DEF TurnRefundAgain, TypeOK, Shape, ShapeOf
  <2> QED BY <2>2, <2>3, <2>7, ShapeFrame
<1>26. ASSUME NEW t \in Token, Expire(t) PROVE TypeOK' /\ Shape'
  <2>1. TypeOK' BY <1>26 DEF Expire, TypeOK
  <2>2. Shape' BY <1>26 DEF Expire, Shape, ShapeOf, Sid, SessionOf
  <2> QED BY <2>1, <2>2
<1>27. ASSUME NEW w \in Worker, Crash(w) PROVE TypeOK' /\ Shape'
  <2>1. faults' \in Nat BY <1>27, FaultCounted DEF Crash
  <2>2. /\ pc' \in [Slot -> Pc] /\ job' \in [Slot -> Job]
        /\ got' \in [Slot -> Offer \cup {None}] /\ snap' \in [Slot -> Outcomes]
    BY <1>27 DEF Crash, Reset, TypeOK, Pc, Job, NoJob, Outcomes
  <2>3. known' \in [Worker -> [Key \cup Offer -> Offer \cup {None}]]
    BY <1>27 DEF Crash, TypeOK
  <2>4. outcome' \in [Worker -> [Session -> Outcomes \cup {"absent"}]]
    BY <1>27 DEF Crash, TypeOK
  <2>5. TypeOK' BY <1>27, <2>1, <2>2, <2>3, <2>4 DEF Crash, TypeOK
  <2>6. ASSUME NEW r \in Slot PROVE ShapeOf(r)'
    <3>1. CASE job[r].at = w
      BY <1>27, <3>1 DEF Crash, Reset, ShapeOf, HasSession
    <3>2. CASE job[r].at # w
      <4>1. pc'[r] = pc[r] /\ job'[r] = job[r] /\ got'[r] = got[r] /\ snap'[r] = snap[r]
        BY <1>27, <3>2 DEF Crash, Reset
      <4>2. Sid(r)' = Sid(r) BY <4>1 DEF Sid, SessionOf
      <4>3. pc[r] # "idle" => outcome'[job[r].at] = outcome[job[r].at]
        BY <1>27, <3>2, Served DEF Crash, TypeOK
      <4> QED BY <4>1, <4>2, <4>3 DEF Shape, ShapeOf, HasSession
    <3> QED BY <3>1, <3>2
  <2> QED BY <2>5, <2>6 DEF Shape
<1>28. CASE UNCHANGED vars
  BY <1>28 DEF vars, TypeOK, Shape, ShapeOf, Sid, SessionOf
<1> QED
  BY <1>1, <1>2, <1>3, <1>4, <1>5, <1>6, <1>7, <1>8, <1>9, <1>10, <1>11, <1>12, <1>13,
     <1>14, <1>15, <1>16, <1>17, <1>18, <1>19, <1>20, <1>21, <1>22, <1>23, <1>24, <1>25,
     <1>26, <1>27, <1>28
     DEF Next, Arrive, Step, Failure

(* Every reachable state is well typed: what a request carries at each     *)
(* step of its handler, and whom it will answer.                           *)
THEOREM TypeCorrect == Spec => []TypeOK
<1>1. Init => TypeOK /\ Shape BY TypeShapeInit
<1>2. TypeOK /\ Shape /\ [Next]_vars => (TypeOK /\ Shape)' BY TypeShapeStep
<1> QED BY <1>1, <1>2, PTL DEF Spec

-----------------------------------------------------------------------------
(* Everything the system says has an execution behind it.                  *)

Executed(o) == \E x \in rows : x.token = o

Paid(s, o) ==
    o \in {"retained", "instant_refund"}
        => \E x \in rows : SessionOf(x.token) = s /\ OutcomeOf(x.token) = o

KnownBacked ==
    \A w \in Worker, i \in Key \cup Offer :
        known[w][i] # None =>
            Executed(known[w][i]) /\ (i \in Refund => known[w][i] = i)

SlotBacked(r) ==
    /\ got[r] # None => Executed(got[r]) /\ (IsTurn(r) => got[r] = job[r].token)
    /\ ~IsTurn(r) /\ pc[r] \in {"created", "snapshot", "write"}
         => [key |-> job[r].key, token |-> job[r].token] \in rows
    /\ Paid(Sid(r), snap[r])

RowsBacked == \A x \in rows : x.key \in Refund \/ x.token \in Refund => x.key = x.token

ToldBacked ==
    /\ \A c \in Call : firsts[c] > 0 => [key |-> c[1], token |-> c[2]] \in rows
    /\ \A a \in replays : Executed(a.offer)
    /\ \A s \in refunded : Executed(s)

OutcomesBacked ==
    \A s \in Session : Paid(s, dbOutcome[s]) /\ \A w \in Worker : Paid(s, outcome[w][s])

Backed ==
    /\ KnownBacked
    /\ \A r \in Slot : SlotBacked(r)
    /\ RowsBacked
    /\ ToldBacked
    /\ OutcomesBacked

LEMMA BackedInit == Init => Backed
<1> SUFFICES ASSUME Init PROVE Backed
  OBVIOUS
<1>1. KnownBacked BY DEF Init, KnownBacked
<1>2. ASSUME NEW r \in Slot PROVE SlotBacked(r)
  BY DEF Init, SlotBacked, Paid
<1>3. RowsBacked /\ ToldBacked BY DEF Init, RowsBacked, ToldBacked
<1>4. OutcomesBacked BY DEF Init, OutcomesBacked, Paid
<1> QED BY <1>1, <1>2, <1>3, <1>4 DEF Backed

(* What backs an answer is never taken away: rows only grow.               *)
LEMMA PaidGrows ==
    ASSUME rows \subseteq rows', NEW s, NEW o, Paid(s, o)
    PROVE  Paid(s, o)'
  BY DEF Paid

LEMMA KnownFrame ==
    ASSUME Backed, rows \subseteq rows', known' = known
    PROVE  KnownBacked'
  BY DEF Backed, KnownBacked, Executed

LEMMA ToldFrame ==
    ASSUME Backed, rows \subseteq rows', told' = told
    PROVE  ToldBacked'
  BY DEF Backed, ToldBacked, Executed, told

LEMMA OutcomesFrame ==
    ASSUME Backed, rows \subseteq rows', outcome' = outcome, dbOutcome' = dbOutcome
    PROVE  OutcomesBacked'
  BY DEF Backed, OutcomesBacked, Paid

OthersSame(r) ==
    \A q \in Slot \ {r} :
        pc'[q] = pc[q] /\ job'[q] = job[q] /\ got'[q] = got[q] /\ snap'[q] = snap[q]

LEMMA SlotFrame ==
    ASSUME Backed, rows \subseteq rows', NEW r \in Slot, OthersSame(r), SlotBacked(r)'
    PROVE  \A q \in Slot : SlotBacked(q)'
<1> SUFFICES ASSUME NEW q \in Slot, q # r PROVE SlotBacked(q)'
  OBVIOUS
<1>1. pc'[q] = pc[q] /\ job'[q] = job[q] /\ got'[q] = got[q] /\ snap'[q] = snap[q]
  BY DEF OthersSame
<1>2. SlotBacked(q) BY DEF Backed
<1>3. Paid(Sid(q), snap[q]) BY <1>2 DEF SlotBacked
<1>4. Paid(Sid(q), snap[q])' BY <1>1, <1>3 DEF Paid, Sid, SessionOf
<1> QED BY <1>1, <1>2, <1>4 DEF SlotBacked, Executed, IsTurn

(* A request that is over claims nothing.                                  *)
LEMMA DoneBacked ==
    ASSUME TypeOK, NEW r \in Slot, Done(r)
    PROVE  SlotBacked(r)' /\ OthersSame(r)
  BY DEF TypeOK, Done, Goto, SlotBacked, Paid, OthersSame

(* Publishing the offer of an existing row mirrors that row.               *)
LEMMA PublishBacked ==
    ASSUME TypeOK, Backed, rows' = rows, NEW r \in Slot, Publish(r),
           job[r].at \in Worker, job[r].key \in Key \cup Refund, job[r].token \in Offer,
           IsTurn(r) => job[r].key = job[r].token /\ got[r] = job[r].token,
           ~IsTurn(r) => job[r].key \in Key,
           Executed(got[r])
    PROVE  KnownBacked'
<1> DEFINE w == job[r].at  k == job[r].key  t == job[r].token  g == got[r]
<1>1. known' = [known EXCEPT ![w][k] = g, ![w][t] = g]
  BY DEF Publish
<1>2. /\ known \in [Worker -> [Key \cup Offer -> Offer \cup {None}]]
      /\ w \in Worker /\ k \in Key \cup Offer /\ t \in Key \cup Offer
  BY DEF TypeOK, Offer
<1>3. (k \in Refund => g = k) /\ (t \in Refund => g = t) /\ Executed(g)
  BY ExecutionAssumption DEF IsTurn
<1> HIDE DEF w, k, t, g
<1>4. ASSUME NEW v \in Worker, NEW i \in Key \cup Offer
      PROVE  \/ known'[v][i] = known[v][i]
             \/ known'[v][i] = g /\ (i = k \/ i = t)
  BY <1>1, <1>2
<1> QED BY <1>3, <1>4 DEF Backed, KnownBacked, Executed

LEMMA BackedStep ==
    ASSUME TypeOK, Shape, Backed, [Next]_vars
    PROVE  Backed'
<1> USE ExecutionAssumption
<1> USE DEF At, Goto, Move, Begin, Fault, Returned, served, memory, database, told
<1>1. ASSUME NEW c \in Call, NEW r \in Slot, NEW w \in Worker, AcceptReplay(r, w, c)
      PROVE  Backed'
  <2>1. rows' = rows BY <1>1 DEF AcceptReplay
  <2>2. Executed(known[w][c[1]])
    BY <1>1, CallParts DEF AcceptReplay, Backed, KnownBacked
  <2>3. ToldBacked'
    BY <1>1, <2>1, <2>2 DEF AcceptReplay, Backed, ToldBacked, Executed, Replay
  <2>4. KnownBacked' /\ OutcomesBacked' /\ RowsBacked'
    BY <1>1, KnownFrame, OutcomesFrame DEF AcceptReplay, Backed, RowsBacked
  <2>5. ASSUME NEW q \in Slot PROVE SlotBacked(q)'
    BY <1>1 DEF AcceptReplay, Backed, SlotBacked, Executed, Paid, Sid, SessionOf, IsTurn
  <2> QED BY <2>3, <2>4, <2>5 DEF Backed
<1>2. ASSUME NEW c \in Call, NEW r \in Slot, NEW w \in Worker, AcceptArrive(r, w, c)
      PROVE  Backed'
  <2>1. rows' = rows BY <1>2 DEF AcceptArrive
  <2>2. KnownBacked' /\ ToldBacked' /\ OutcomesBacked' /\ RowsBacked'
    BY <1>2, KnownFrame, ToldFrame, OutcomesFrame DEF AcceptArrive, Backed, RowsBacked
  <2>3. OthersSame(r) BY <1>2 DEF AcceptArrive, TypeOK, OthersSame
  <2>4. got[r] = None /\ snap[r] = "none" BY <1>2 DEF AcceptArrive, Shape, ShapeOf
  <2>5. SlotBacked(r)'
    BY <1>2, <2>4 DEF AcceptArrive, TypeOK, SlotBacked, Paid
  <2> QED BY <2>1, <2>2, <2>3, <2>5, SlotFrame DEF Backed
<1>3. ASSUME NEW r \in Slot, LookupHit(r) PROVE Backed'
  <2>1. PICK x \in rows :
          /\ x.key = job[r].key
          /\ known' = [known EXCEPT ![job[r].at][job[r].key] = x.token]
          /\ replays' = replays \cup {Replay(job[r].key, job[r].token, x.token)}
    BY <1>3 DEF LookupHit, RowsOfKey
  <2>2. rows' = rows /\ Done(r) BY <1>3 DEF LookupHit
  <2>3. job[r].at \in Worker /\ job[r].key \in Key
    BY <1>3, Served DEF LookupHit, Shape, ShapeOf, IsTurn
  <2>4. Executed(x.token) BY DEF Executed
  <2>5. KnownBacked'
    BY <2>1, <2>2, <2>3, <2>4 DEF Backed, KnownBacked, Executed, TypeOK
  <2>6. ToldBacked'
    BY <1>3, <2>1, <2>2, <2>4 DEF LookupHit, Backed, ToldBacked, Executed, Replay
  <2>7. OutcomesBacked' /\ RowsBacked'
    BY <1>3, OutcomesFrame DEF LookupHit, Backed, RowsBacked
  <2> QED BY <2>2, <2>5, <2>6, <2>7, DoneBacked, SlotFrame DEF Backed
<1>4. ASSUME NEW r \in Slot, LookupMiss(r) PROVE Backed'
  <2>1. rows' = rows BY <1>4 DEF LookupMiss
  <2>2. KnownBacked' /\ ToldBacked' /\ OutcomesBacked' /\ RowsBacked'
    BY <1>4, KnownFrame, ToldFrame, OutcomesFrame DEF LookupMiss, Backed, RowsBacked
  <2>3. OthersSame(r) BY <1>4 DEF LookupMiss, TypeOK, OthersSame
  <2>4. SlotBacked(r)'
    <3>1. pc'[r] = "verify" /\ job' = job /\ got' = got /\ snap' = snap /\ rows' = rows
      BY <1>4 DEF LookupMiss, TypeOK
    <3>2. SlotBacked(r) BY DEF Backed
    <3> QED BY <3>1, <3>2 DEF SlotBacked, Executed, Paid, Sid, SessionOf, IsTurn
  <2> QED BY <2>1, <2>2, <2>3, <2>4, SlotFrame DEF Backed
<1>5. ASSUME NEW r \in Slot, LookupFails(r) PROVE Backed'
  <2>1. rows' = rows BY <1>5 DEF LookupFails
  <2>2. KnownBacked' /\ ToldBacked' /\ OutcomesBacked' /\ RowsBacked'
    BY <1>5, KnownFrame, ToldFrame, OutcomesFrame DEF LookupFails, Backed, RowsBacked
  <2>3. OthersSame(r) BY <1>5 DEF LookupFails, TypeOK, OthersSame
  <2>4. SlotBacked(r)'
    <3>1. pc'[r] = "verify" /\ job' = job /\ got' = got /\ snap' = snap /\ rows' = rows
      BY <1>5 DEF LookupFails, TypeOK
    <3>2. SlotBacked(r) BY DEF Backed
    <3> QED BY <3>1, <3>2 DEF SlotBacked, Executed, Paid, Sid, SessionOf, IsTurn
  <2> QED BY <2>1, <2>2, <2>3, <2>4, SlotFrame DEF Backed
<1>6. ASSUME NEW r \in Slot, Verified(r) PROVE Backed'
  <2>1. rows' = rows BY <1>6 DEF Verified
  <2>2. KnownBacked' /\ ToldBacked' /\ RowsBacked'
    BY <1>6, KnownFrame, ToldFrame DEF Verified, Backed, RowsBacked
  <2>3. OutcomesBacked'
    BY <1>6 DEF Verified, Loaded, Backed, OutcomesBacked, Paid, TypeOK
  <2>4. OthersSame(r) BY <1>6 DEF Verified, TypeOK, OthersSame
  <2>5. SlotBacked(r)'
    BY <1>6 DEF Verified, TypeOK, Backed, SlotBacked, Executed, Paid, Sid, SessionOf, IsTurn
  <2> QED BY <2>1, <2>2, <2>3, <2>4, <2>5, SlotFrame DEF Backed
<1>7. ASSUME NEW r \in Slot, Rejected(r) PROVE Backed'
  <2>1. Done(r) /\ rows' = rows BY <1>7 DEF Rejected
  <2>2. KnownBacked' /\ ToldBacked' /\ OutcomesBacked' /\ RowsBacked'
    BY <1>7, KnownFrame, ToldFrame, OutcomesFrame DEF Rejected, Backed, RowsBacked
  <2> QED BY <2>1, <2>2, DoneBacked, SlotFrame DEF Backed
<1>8. ASSUME NEW r \in Slot, RejectedByFault(r) PROVE Backed'
  <2>1. Done(r) /\ rows' = rows BY <1>8 DEF RejectedByFault
  <2>2. KnownBacked' /\ ToldBacked' /\ OutcomesBacked' /\ RowsBacked'
    BY <1>8, KnownFrame, ToldFrame, OutcomesFrame DEF RejectedByFault, Backed, RowsBacked
  <2> QED BY <2>1, <2>2, DoneBacked, SlotFrame DEF Backed
<1>9. ASSUME NEW r \in Slot, TokenReplay(r) PROVE Backed'
  <2> DEFINE prior == known[job[r].at][job[r].token]
  <2>1. job[r].token \in Token /\ job[r].key \in Key /\ job[r].at \in Worker
    BY <1>9, Served DEF TokenReplay, Shape, ShapeOf, IsTurn
  <2>2. Executed(prior)
    BY <1>9, <2>1 DEF TokenReplay, Backed, KnownBacked, Offer
  <2>3. rows' = rows /\ Done(r) BY <1>9 DEF TokenReplay
  <2>4. KnownBacked'
    BY <1>9, <2>1, <2>2, <2>3 DEF TokenReplay, Backed, KnownBacked, Executed, TypeOK
  <2>5. ToldBacked'
    BY <1>9, <2>2, <2>3 DEF TokenReplay, Backed, ToldBacked, Executed, Replay
  <2>6. OutcomesBacked' /\ RowsBacked'
    BY <1>9, OutcomesFrame DEF TokenReplay, Backed, RowsBacked
  <2> QED BY <2>3, <2>4, <2>5, <2>6, DoneBacked, SlotFrame DEF Backed
<1>10. ASSUME NEW r \in Slot, TokenNew(r) PROVE Backed'
  <2>1. rows' = rows BY <1>10 DEF TokenNew
  <2>2. KnownBacked' /\ ToldBacked' /\ OutcomesBacked' /\ RowsBacked'
    BY <1>10, KnownFrame, ToldFrame, OutcomesFrame DEF TokenNew, Backed, RowsBacked
  <2>3. OthersSame(r) BY <1>10 DEF TokenNew, TypeOK, OthersSame
  <2>4. SlotBacked(r)'
    <3>1. pc'[r] = "commit" /\ job' = job /\ got' = got /\ snap' = snap
      BY <1>10 DEF TokenNew, TypeOK
    <3>2. SlotBacked(r) BY DEF Backed
    <3> QED BY <2>1, <3>1, <3>2 DEF SlotBacked, Executed, Paid, Sid, SessionOf, IsTurn
  <2> QED BY <2>1, <2>2, <2>3, <2>4, SlotFrame DEF Backed
<1>11. ASSUME NEW r \in Slot, CommitInsert(r) PROVE Backed'
  <2>1. /\ job[r].key \in Key \cup Refund /\ job[r].token \in Offer
        /\ job[r].key \in Refund \/ job[r].token \in Refund => job[r].key = job[r].token
    BY <1>11, Served DEF CommitInsert, IsTurn, TypeOK
  <2>2. rows' = rows \cup {[key |-> job[r].key, token |-> job[r].token]}
    BY <1>11 DEF CommitInsert, Insert
  <2>3. KnownBacked' /\ ToldBacked'
    BY <1>11, <2>2, KnownFrame, ToldFrame DEF CommitInsert
  <2>4. RowsBacked' BY <2>1, <2>2 DEF Backed, RowsBacked
  <2>5. \E x \in rows' : SessionOf(x.token) = Sid(r) /\ OutcomeOf(x.token) = OutcomeOf(job[r].token)
    <3> DEFINE new == [key |-> job[r].key, token |-> job[r].token]
    <3>1. new \in rows' /\ new.token = job[r].token BY <2>2
    <3> HIDE DEF new
    <3> QED BY <3>1 DEF Sid
  <2>6. ASSUME NEW s \in Session PROVE Paid(s, dbOutcome[s])'
    BY <1>11, <2>2, <2>5 DEF CommitInsert, Insert, Backed, OutcomesBacked, Paid, TypeOK, Sid
  <2>7. OutcomesBacked'
    BY <1>11, <2>2, <2>6 DEF CommitInsert, Backed, OutcomesBacked, Paid
  <2>8. OthersSame(r) BY <1>11 DEF CommitInsert, TypeOK, OthersSame
  <2>9. SlotBacked(r)'
    <3>1. /\ pc'[r] = "created" /\ got'[r] = job[r].token
          /\ job' = job /\ snap' = snap
      BY <1>11 DEF CommitInsert, TypeOK
    <3>2. Paid(Sid(r), snap[r]) BY DEF Backed, SlotBacked
    <3>3. Paid(Sid(r), snap[r])' BY <2>2, <3>1, <3>2 DEF Paid, Sid, SessionOf
    <3>4. [key |-> job[r].key, token |-> job[r].token] \in rows' BY <2>2
    <3>5. Executed(got[r])' BY <3>1, <3>4 DEF Executed
    <3> QED BY <3>1, <3>3, <3>4, <3>5 DEF SlotBacked, IsTurn
  <2> QED BY <2>2, <2>3, <2>4, <2>7, <2>8, <2>9, SlotFrame DEF Backed
<1>12. ASSUME NEW r \in Slot, CommitConflict(r) PROVE Backed'
  <2>1. PICK x \in rows :
          /\ x.key = job[r].key \/ x.token = job[r].token
          /\ Returned(r, "conflict", x.token)
    BY <1>12 DEF CommitConflict, RowsOfKey, RowsOfToken
  <2>2. rows' = rows BY <1>12 DEF CommitConflict
  <2>3. KnownBacked' /\ ToldBacked' /\ OutcomesBacked' /\ RowsBacked'
    BY <1>12, KnownFrame, ToldFrame, OutcomesFrame DEF CommitConflict, Backed, RowsBacked
  <2>4. OthersSame(r) BY <2>1 DEF TypeOK, OthersSame
  <2>5. IsTurn(r) => x.token = job[r].token
    BY <1>12, <2>1, Served DEF CommitConflict, Backed, RowsBacked, IsTurn
  <2>6. SlotBacked(r)'
    BY <2>1, <2>2, <2>5 DEF TypeOK, Backed, SlotBacked, Executed, Paid, Sid, SessionOf, IsTurn
  <2> QED BY <2>2, <2>3, <2>4, <2>6, SlotFrame DEF Backed
<1>13. ASSUME NEW r \in Slot, CommitFails(r) PROVE Backed'
  <2>1. Done(r) /\ rows' = rows BY <1>13 DEF CommitFails
  <2>2. KnownBacked' /\ ToldBacked' /\ OutcomesBacked' /\ RowsBacked'
    BY <1>13, KnownFrame, ToldFrame, OutcomesFrame DEF CommitFails, Backed, RowsBacked
  <2> QED BY <2>1, <2>2, DoneBacked, SlotFrame DEF Backed
<1>14. ASSUME NEW r \in Slot, CommitUnacknowledged(r) PROVE Backed'
  <2>1. /\ job[r].key \in Key \cup Refund /\ job[r].token \in Offer
        /\ job[r].key \in Refund \/ job[r].token \in Refund => job[r].key = job[r].token
    BY <1>14, Served DEF CommitUnacknowledged, IsTurn, TypeOK
  <2>2. rows' = rows \cup {[key |-> job[r].key, token |-> job[r].token]}
    BY <1>14 DEF CommitUnacknowledged, Insert
  <2>3. KnownBacked' /\ ToldBacked'
    BY <1>14, <2>2, KnownFrame, ToldFrame DEF CommitUnacknowledged
  <2>4. RowsBacked' BY <2>1, <2>2 DEF Backed, RowsBacked
  <2>5. \E x \in rows' : SessionOf(x.token) = Sid(r) /\ OutcomeOf(x.token) = OutcomeOf(job[r].token)
    <3> DEFINE new == [key |-> job[r].key, token |-> job[r].token]
    <3>1. new \in rows' /\ new.token = job[r].token BY <2>2
    <3> HIDE DEF new
    <3> QED BY <3>1 DEF Sid
  <2>6. ASSUME NEW s \in Session PROVE Paid(s, dbOutcome[s])'
    BY <1>14, <2>2, <2>5 DEF CommitUnacknowledged, Insert, Backed, OutcomesBacked, Paid, TypeOK, Sid
  <2>7. OutcomesBacked'
    BY <1>14, <2>2, <2>6 DEF CommitUnacknowledged, Backed, OutcomesBacked, Paid
  <2>8. Done(r) BY <1>14 DEF CommitUnacknowledged
  <2> QED BY <2>2, <2>3, <2>4, <2>7, <2>8, DoneBacked, SlotFrame DEF Backed
<1>15. ASSUME NEW r \in Slot, PublishNew(r) PROVE Backed'
  <2>0. /\ job[r].at \in Worker /\ Sid(r) \in Session
        /\ job[r].key \in Key \cup Refund /\ job[r].token \in Offer
        /\ IsTurn(r) => job[r].key = job[r].token
    BY <1>15, Served DEF PublishNew
  <2>1. rows' = rows BY <1>15 DEF PublishNew
  <2>2. SlotBacked(r) BY DEF Backed
  <2>3. got[r] # None BY <1>15 DEF PublishNew, Shape, ShapeOf
  <2>4. Executed(got[r]) /\ (IsTurn(r) => got[r] = job[r].token)
    BY <2>2, <2>3 DEF SlotBacked
  <2>5. Paid(Sid(r), "retained")
    <3> DEFINE row == [key |-> job[r].key, token |-> job[r].token]
    <3>1. row \in rows /\ row.token = job[r].token
      BY <1>15, <2>2 DEF PublishNew, SlotBacked
    <3>2. job[r].token \in Token BY <1>15, <2>0 DEF PublishNew, IsTurn, Offer
    <3> HIDE DEF row
    <3> QED BY <3>1, <3>2 DEF Paid, Sid, OutcomeOf
  <2>6. KnownBacked'
    BY <1>15, <2>0, <2>1, <2>4, Served, PublishBacked DEF PublishNew
  <2>7. ToldBacked' /\ RowsBacked'
    BY <1>15, ToldFrame DEF PublishNew, Backed, RowsBacked
  <2>8. OutcomesBacked'
    BY <1>15, <2>0, <2>1, <2>5 DEF PublishNew, SetOutcome, Backed, OutcomesBacked, Paid, TypeOK
  <2>9. OthersSame(r) BY <1>15 DEF PublishNew, TypeOK, OthersSame
  <2>10. SlotBacked(r)'
    <3>1. pc'[r] = "snapshot" /\ job' = job /\ got' = got /\ snap' = snap
      BY <1>15 DEF PublishNew, TypeOK
    <3>2. IsTurn(r) \/ pc[r] = "created" BY <1>15 DEF PublishNew
    <3> QED BY <2>1, <2>2, <3>1, <3>2 DEF SlotBacked, Executed, Paid, Sid, SessionOf, IsTurn
  <2> QED BY <2>1, <2>6, <2>7, <2>8, <2>9, <2>10, SlotFrame DEF Backed
<1>16. ASSUME NEW r \in Slot, PublishReplay(r) PROVE Backed'
  <2>1. /\ job[r].token \in Token /\ job[r].key \in Key /\ job[r].at \in Worker
    BY <1>16, Served DEF PublishReplay
  <2>2. rows' = rows /\ Done(r) BY <1>16 DEF PublishReplay
  <2>3. got[r] # None BY <1>16 DEF PublishReplay, Shape, ShapeOf
  <2>4. Executed(got[r]) BY <2>3 DEF Backed, SlotBacked
  <2>5. KnownBacked'
    BY <1>16, <2>1, <2>2, <2>4, PublishBacked DEF PublishReplay, Offer
  <2>6. ToldBacked'
    BY <1>16, <2>2, <2>4 DEF PublishReplay, Backed, ToldBacked, Executed, Replay
  <2>7. OutcomesBacked' /\ RowsBacked'
    BY <1>16, OutcomesFrame DEF PublishReplay, Backed, RowsBacked
  <2> QED BY <2>2, <2>5, <2>6, <2>7, DoneBacked, SlotFrame DEF Backed
<1>17. ASSUME NEW r \in Slot, PublishRefund(r) PROVE Backed'
  <2>0. /\ job[r].at \in Worker /\ Sid(r) \in Session
        /\ job[r].key \in Key \cup Refund /\ job[r].token \in Offer
        /\ IsTurn(r) => job[r].key = job[r].token
    BY <1>17, Served DEF PublishRefund
  <2>1. rows' = rows BY <1>17 DEF PublishRefund
  <2>2. SlotBacked(r) BY DEF Backed
  <2>3. got[r] # None BY <1>17 DEF PublishRefund, Shape, ShapeOf
  <2>4. Executed(got[r]) /\ (IsTurn(r) => got[r] = job[r].token)
    BY <2>2, <2>3 DEF SlotBacked
  <2>5. Paid(Sid(r), "instant_refund")
    BY <1>17, <2>4, <2>0 DEF PublishRefund, Executed, Paid, Sid, SessionOf, OutcomeOf, IsTurn, Offer
  <2>6. KnownBacked'
    BY <1>17, <2>0, <2>1, <2>4, PublishBacked DEF PublishRefund
  <2>7. ToldBacked' /\ RowsBacked'
    BY <1>17, ToldFrame DEF PublishRefund, Backed, RowsBacked
  <2>8. OutcomesBacked'
    BY <1>17, <2>0, <2>1, <2>5 DEF PublishRefund, SetOutcome, Backed, OutcomesBacked, Paid, TypeOK
  <2>9. OthersSame(r) BY <1>17 DEF PublishRefund, TypeOK, OthersSame
  <2>10. SlotBacked(r)'
    <3>1. pc'[r] = "snapshot" /\ job' = job /\ got' = got /\ snap' = snap
      BY <1>17 DEF PublishRefund, TypeOK
    <3>2. IsTurn(r) \/ pc[r] = "created" BY <1>17 DEF PublishRefund
    <3> QED BY <2>1, <2>2, <3>1, <3>2 DEF SlotBacked, Executed, Paid, Sid, SessionOf, IsTurn
  <2> QED BY <2>1, <2>6, <2>7, <2>8, <2>9, <2>10, SlotFrame DEF Backed
<1>18. ASSUME NEW r \in Slot, Snapshot(r) PROVE Backed'
  <2>0. job[r].at \in Worker /\ Sid(r) \in Session
    BY <1>18, Served DEF Snapshot
  <2>1. rows' = rows BY <1>18 DEF Snapshot
  <2>2. KnownBacked' /\ ToldBacked' /\ OutcomesBacked' /\ RowsBacked'
    BY <1>18, KnownFrame, ToldFrame, OutcomesFrame DEF Snapshot, Backed, RowsBacked
  <2>3. OthersSame(r) BY <1>18 DEF Snapshot, TypeOK, OthersSame
  <2>4. Paid(Sid(r), outcome[job[r].at][Sid(r)])
    BY <2>0 DEF Backed, OutcomesBacked
  <2>5. /\ pc[r] = "snapshot" /\ pc'[r] = "write" /\ job' = job /\ got' = got
        /\ snap'[r] = outcome[job[r].at][Sid(r)]
    BY <1>18 DEF Snapshot, TypeOK
  <2>6. SlotBacked(r) BY DEF Backed
  <2>7. SlotBacked(r)'
    BY <2>1, <2>4, <2>5, <2>6 DEF SlotBacked, Executed, Paid, Sid, SessionOf, IsTurn
  <2> QED BY <2>1, <2>2, <2>3, <2>7, SlotFrame DEF Backed
<1>19. ASSUME NEW r \in Slot, Write(r) \/ NoWrite(r) PROVE Backed'
  <2>0. pc[r] \in {"snapshot", "write"} BY <1>19 DEF Write, NoWrite
  <2>1. Respond(r) /\ Done(r) /\ rows' = rows BY <1>19 DEF Write, NoWrite, Respond
  <2>2. SlotBacked(r) BY DEF Backed
  <2>3. Sid(r) \in Session /\ (~IsTurn(r) => <<job[r].key, job[r].token>> \in Call)
    BY <2>0, Served
  <2>4. \A c \in Call : firsts'[c] > 0 => [key |-> c[1], token |-> c[2]] \in rows
    <3>1. CASE IsTurn(r) BY <2>1, <3>1 DEF Respond, Backed, ToldBacked
    <3>2. CASE ~IsTurn(r)
      <4>1. [key |-> job[r].key, token |-> job[r].token] \in rows
        BY <2>0, <2>2, <3>2 DEF SlotBacked
      <4>2. firsts' = [firsts EXCEPT ![<<job[r].key, job[r].token>>] = @ + 1]
        BY <2>1, <3>2 DEF Respond
      <4>3. ASSUME NEW c \in Call, c # <<job[r].key, job[r].token>>
            PROVE  firsts'[c] = firsts[c]
        BY <4>2, <4>3, <2>3, <3>2 DEF TypeOK
      <4> QED BY <4>1, <4>3 DEF Backed, ToldBacked
    <3> QED BY <3>1, <3>2
  <2>5. \A s \in refunded' : Executed(s)
    BY <2>1, <2>2 DEF Respond, SlotBacked, Backed, ToldBacked
  <2>6. ToldBacked'
    BY <2>1, <2>4, <2>5 DEF Respond, Backed, ToldBacked, Executed
  <2>7. Paid(Sid(r), snap[r]) BY <2>2 DEF SlotBacked
  <2>8. OutcomesBacked'
    BY <1>19, <2>1, <2>3, <2>7 DEF Write, NoWrite, Backed, OutcomesBacked, Paid, TypeOK
  <2>9. KnownBacked' /\ RowsBacked'
    BY <1>19, <2>1, KnownFrame DEF Write, NoWrite, Backed, RowsBacked
  <2> QED BY <2>1, <2>6, <2>8, <2>9, DoneBacked, SlotFrame DEF Backed
<1>20. ASSUME NEW r \in Slot, WriteFails(r) PROVE Backed'
  <2>1. Done(r) /\ rows' = rows BY <1>20 DEF WriteFails
  <2>2. KnownBacked' /\ ToldBacked' /\ OutcomesBacked' /\ RowsBacked'
    BY <1>20, KnownFrame, ToldFrame, OutcomesFrame DEF WriteFails, Backed, RowsBacked
  <2> QED BY <2>1, <2>2, DoneBacked, SlotFrame DEF Backed
<1>21. ASSUME NEW r \in Slot, NEW w \in Worker, NEW f \in Refund, TurnArrive(r, w, f)
       PROVE  Backed'
  <2>1. rows' = rows BY <1>21 DEF TurnArrive
  <2>2. KnownBacked' /\ ToldBacked' /\ RowsBacked'
    BY <1>21, KnownFrame, ToldFrame DEF TurnArrive, Backed, RowsBacked
  <2>3. OutcomesBacked'
    BY <1>21 DEF TurnArrive, SessionOf, Loaded, Backed, OutcomesBacked, Paid, TypeOK
  <2>4. OthersSame(r) BY <1>21 DEF TurnArrive, TypeOK, OthersSame
  <2>5. got[r] = None /\ snap[r] = "none" BY <1>21 DEF TurnArrive, Shape, ShapeOf
  <2>6. SlotBacked(r)' BY <1>21, <2>5 DEF TurnArrive, TypeOK, SlotBacked, Paid
  <2> QED BY <2>1, <2>2, <2>3, <2>4, <2>6, SlotFrame DEF Backed
<1>22. ASSUME NEW r \in Slot, TurnContinue(r) PROVE Backed'
  <2>1. rows' = rows BY <1>22 DEF TurnContinue
  <2>2. KnownBacked' /\ ToldBacked' /\ OutcomesBacked' /\ RowsBacked'
    BY <1>22, KnownFrame, ToldFrame, OutcomesFrame DEF TurnContinue, Backed, RowsBacked
  <2>3. OthersSame(r) BY <1>22 DEF TurnContinue, TypeOK, OthersSame
  <2>4. IsTurn(r) \/ pc'[r] = "commit" BY <1>22 DEF TurnContinue, TypeOK, Shape, ShapeOf, IsTurn
  <2>5. SlotBacked(r)'
    <3>1. pc'[r] = "snapshot" /\ job' = job /\ got' = got /\ snap' = snap
      BY <1>22 DEF TurnContinue, TypeOK
    <3>2. SlotBacked(r) BY DEF Backed
    <3> QED BY <2>1, <2>4, <3>1, <3>2 DEF SlotBacked, Executed, Paid, Sid, SessionOf, IsTurn
  <2> QED BY <2>1, <2>2, <2>3, <2>5, SlotFrame DEF Backed
<1>23. ASSUME NEW r \in Slot, TurnConclude(r) PROVE Backed'
  <2>0. job[r].at \in Worker /\ Sid(r) \in Session
    BY <1>23, Served DEF TurnConclude
  <2>1. rows' = rows BY <1>23 DEF TurnConclude
  <2>2. KnownBacked' /\ ToldBacked' /\ RowsBacked'
    BY <1>23, KnownFrame, ToldFrame DEF TurnConclude, Backed, RowsBacked
  <2>3. OutcomesBacked'
    BY <1>23, <2>0, <2>1 DEF TurnConclude, SetOutcome, Backed, OutcomesBacked, Paid, TypeOK
  <2>4. OthersSame(r) BY <1>23 DEF TurnConclude, TypeOK, OthersSame
  <2>5. IsTurn(r) BY <1>23 DEF TurnConclude, Shape, ShapeOf, IsTurn
  <2>6. SlotBacked(r)'
    <3>1. job' = job /\ got' = got /\ snap' = snap BY <1>23 DEF TurnConclude
    <3>2. SlotBacked(r) BY DEF Backed
    <3> QED BY <2>1, <2>5, <3>1, <3>2 DEF SlotBacked, Executed, Paid, Sid, SessionOf, IsTurn
  <2> QED BY <2>1, <2>2, <2>3, <2>4, <2>6, SlotFrame DEF Backed
<1>24. ASSUME NEW r \in Slot, TurnRefund(r) PROVE Backed'
  <2>1. rows' = rows BY <1>24 DEF TurnRefund
  <2>2. KnownBacked' /\ ToldBacked' /\ OutcomesBacked' /\ RowsBacked'
    BY <1>24, KnownFrame, ToldFrame, OutcomesFrame DEF TurnRefund, Backed, RowsBacked
  <2>3. OthersSame(r) BY <1>24 DEF TurnRefund, TypeOK, OthersSame
  <2>4. IsTurn(r) \/ pc'[r] = "commit" BY <1>24 DEF TurnRefund, TypeOK, Shape, ShapeOf, IsTurn
  <2>5. SlotBacked(r)'
    <3>1. pc'[r] = "commit" /\ job' = job /\ got' = got /\ snap' = snap
      BY <1>24 DEF TurnRefund, TypeOK
    <3>2. SlotBacked(r) BY DEF Backed
    <3> QED BY <2>1, <2>4, <3>1, <3>2 DEF SlotBacked, Executed, Paid, Sid, SessionOf, IsTurn
  <2> QED BY <2>1, <2>2, <2>3, <2>5, SlotFrame DEF Backed
<1>25. ASSUME NEW r \in Slot, TurnRefundAgain(r) PROVE Backed'
  <2> DEFINE prior == known[job[r].at][job[r].key]
  <2>0. job[r].at \in Worker /\ Sid(r) \in Session /\ job[r].key \in Refund
        /\ job[r].key = job[r].token /\ IsTurn(r)
    BY <1>25, Served DEF TurnRefundAgain, Shape, ShapeOf, IsTurn
  <2>1. rows' = rows BY <1>25 DEF TurnRefundAgain
  <2>2. Executed(prior) /\ prior = job[r].token
    BY <1>25, <2>0 DEF TurnRefundAgain, Backed, KnownBacked, Offer
  <2>3. KnownBacked' /\ ToldBacked' /\ RowsBacked'
    BY <1>25, KnownFrame, ToldFrame DEF TurnRefundAgain, Backed, RowsBacked
  <2>4. Paid(Sid(r), "instant_refund")
    BY <2>0, <2>2 DEF Executed, Paid, Sid, SessionOf, OutcomeOf
  <2>5. OutcomesBacked'
    BY <1>25, <2>0, <2>1, <2>4 DEF TurnRefundAgain, SetOutcome, Backed, OutcomesBacked, Paid, TypeOK
  <2>6. OthersSame(r) BY <1>25 DEF TurnRefundAgain, TypeOK, OthersSame
  <2>7. SlotBacked(r)'
    <3>1. job' = job /\ got'[r] = prior /\ snap' = snap
      BY <1>25 DEF TurnRefundAgain, TypeOK
    <3>2. SlotBacked(r) BY DEF Backed
    <3> QED BY <2>0, <2>1, <2>2, <3>1, <3>2 DEF SlotBacked, Executed, Paid, Sid, SessionOf, IsTurn
  <2> QED BY <2>1, <2>3, <2>5, <2>6, <2>7, SlotFrame DEF Backed
<1>26. ASSUME NEW t \in Token, Expire(t) PROVE Backed'
  <2>1. rows' = rows BY <1>26 DEF Expire
  <2>2. KnownBacked' /\ ToldBacked' /\ OutcomesBacked' /\ RowsBacked'
    BY <1>26, KnownFrame, ToldFrame, OutcomesFrame DEF Expire, Backed, RowsBacked
  <2>3. ASSUME NEW q \in Slot PROVE SlotBacked(q)'
    BY <1>26 DEF Expire, Backed, SlotBacked, Executed, Paid, Sid, SessionOf, IsTurn
  <2> QED BY <2>2, <2>3 DEF Backed
<1>27. ASSUME NEW w \in Worker, Crash(w) PROVE Backed'
  <2>1. rows' = rows BY <1>27 DEF Crash
  <2>2. ToldBacked' /\ RowsBacked' BY <1>27, ToldFrame DEF Crash, Backed, RowsBacked
  <2>3. KnownBacked'
    BY <1>27, <2>1 DEF Crash, Backed, KnownBacked, Executed, TypeOK
  <2>4. OutcomesBacked'
    BY <1>27, <2>1 DEF Crash, Backed, OutcomesBacked, Paid, TypeOK
  <2>5. ASSUME NEW q \in Slot PROVE SlotBacked(q)'
    <3>1. CASE job[q].at = w
      BY <1>27, <3>1 DEF Crash, Reset, SlotBacked, Paid
    <3>2. CASE job[q].at # w
      <4>1. pc'[q] = pc[q] /\ job'[q] = job[q] /\ got'[q] = got[q] /\ snap'[q] = snap[q]
        BY <1>27, <3>2 DEF Crash, Reset
      <4>2. SlotBacked(q) BY DEF Backed
      <4> QED BY <2>1, <4>1, <4>2 DEF SlotBacked, Executed, Paid, Sid, SessionOf, IsTurn
    <3> QED BY <3>1, <3>2
  <2> QED BY <2>2, <2>3, <2>4, <2>5 DEF Backed
<1>28. CASE UNCHANGED vars
  <2>1. KnownBacked' /\ ToldBacked' /\ OutcomesBacked' /\ RowsBacked'
    BY <1>28, KnownFrame, ToldFrame, OutcomesFrame DEF vars, Backed, RowsBacked
  <2>2. ASSUME NEW q \in Slot PROVE SlotBacked(q)'
    BY <1>28 DEF vars, Backed, SlotBacked, Executed, Paid, Sid, SessionOf, IsTurn
  <2> QED BY <2>1, <2>2 DEF Backed
<1> QED
  BY <1>1, <1>2, <1>3, <1>4, <1>5, <1>6, <1>7, <1>8, <1>9, <1>10, <1>11, <1>12, <1>13,
     <1>14, <1>15, <1>16, <1>17, <1>18, <1>19, <1>20, <1>21, <1>22, <1>23, <1>24, <1>25,
     <1>26, <1>27, <1>28
     DEF Next, Arrive, Step, Failure

LEMMA Invariance == Spec => [](TypeOK /\ Shape /\ Backed)
<1>1. Init => TypeOK /\ Shape /\ Backed BY TypeShapeInit, BackedInit
<1>2. TypeOK /\ Shape /\ Backed /\ [Next]_vars => (TypeOK /\ Shape /\ Backed)'
  BY TypeShapeStep, BackedStep
<1> QED BY <1>1, <1>2, PTL DEF Spec

(* No client is ever told of an execution that did not take place, with    *)
(* and without Postgres: AnswersCommitted, for all values of the constants. *)
THEOREM AnswersAreCommitted == Spec => []AnswersCommitted
<1>1. Backed => AnswersCommitted
  BY DEF Backed, ToldBacked, AnswersCommitted, Executed, RowsOfToken
<1> QED BY <1>1, Invariance, PTL

(* A conversation counted as retained or refunded was: OutcomeBacked.      *)
THEOREM OutcomesAreBacked == Spec => []OutcomeBacked
<1>1. Backed => OutcomeBacked
  BY DEF Backed, OutcomesBacked, Paid, OutcomeBacked
<1> QED BY <1>1, Invariance, PTL
====
