-------------------------- MODULE SessionStoreProofs --------------------------
(***************************************************************************)
(* The invariants of SessionStore: no request works on an object that has  *)
(* been collected, all the copies of a conversation are pinned alike, and  *)
(* a conversation that was answered is remembered; and its refinement of   *)
(* DurableSession.                                                         *)
(*                                                                         *)
(* Held is the inductive invariant.  It says which objects are alive - the *)
(* ones that a request or SESSIONS refers to - and whose they are, so that *)
(* there is always room for one more, and that every object, every row and *)
(* every snapshot on its way to the table has the pin of its conversation. *)
(* Solitude adds to it what the refinement needs: while a conversation is  *)
(* on the books, that is, served by one worker at a time, its object, its  *)
(* row and the request that serves it are in step.                         *)
(***************************************************************************)
EXTENDS SessionStore, FiniteSetTheorems, TLAPS

Pc == {"idle", "load", "found", "serve", "publish", "save", "write"}

Holding == Pc \ {"idle", "load"}

Job == [at : Worker \cup {None}, kind : {"none", "turn", "accept"},
        sid : Session \cup {None}, ref : Object \cup {None}, snap : Fields \cup {None}]

Alive(o) == heap[o] # None

(* The domains of the variables.                                           *)
Shape ==
    /\ pc \in [Slot -> Pc]
    /\ job \in [Slot -> Job]
    /\ heap \in [Object -> Fields \cup {None}]
    /\ sessions \in [Worker -> [Session -> Object \cup {None}]]
    /\ rows \in [Session -> Fields \cup {None}]
    /\ opened \subseteq Worker /\ refunded \subseteq Session
    /\ answered \in [Session -> 0..MaxTurns]
    /\ faults \in 0..MaxFaults
    /\ unsaved \subseteq Session /\ loose \subseteq Session

(* A request, place by place.                                              *)
SlotOK(r) ==
    /\ pc[r] = "idle" => job[r] = NoJob
    /\ pc[r] # "idle" => job[r].at \in Worker /\ job[r].sid \in Session
                         /\ job[r].kind # "none"
    /\ pc[r] = "load" => job[r].ref = None
    /\ pc[r] \in Holding => /\ job[r].ref \in Object /\ Alive(job[r].ref)
                            /\ heap[job[r].ref].sid = job[r].sid
    /\ pc[r] = "write" => /\ job[r].snap \in Fields /\ job[r].snap.sid = job[r].sid
                          /\ job[r].snap.pin = heap[job[r].ref].pin

Shelved ==
    \A w \in Worker, s \in Session :
        sessions[w][s] # None => Alive(sessions[w][s]) /\ heap[sessions[w][s]].sid = s

Collected == \A o \in Object : Alive(o) => o \in Referenced

(* Whoever has a copy of a conversation has its pin.                       *)
Pinned ==
    /\ \A o, p \in Object :
         Alive(o) /\ Alive(p) /\ heap[o].sid = heap[p].sid => heap[o].pin = heap[p].pin
    /\ \A o \in Object :
         Alive(o) /\ rows[heap[o].sid] # None => heap[o].pin = rows[heap[o].sid].pin

Held ==
    /\ Shape /\ Shelved /\ Collected /\ Pinned /\ Remembered
    /\ \A s \in Session : rows[s] # None => rows[s].sid = s
    /\ \A r \in Slot : SlotOK(r)

-----------------------------------------------------------------------------
(* The objects.                                                            *)
LEMMA Values ==
    ASSUME NEW S, IsFiniteSet(S), NEW f
    PROVE  LET T == {f[x] : x \in S} IN IsFiniteSet(T) /\ Cardinality(T) <= Cardinality(S)
<1> DEFINE T == {f[x] : x \in S}
           g == [x \in S |-> f[x]]
<1>1. g \in Surjection(S, T)
  BY DEF Surjection
<1> QED
  BY <1>1, FS_Surjection

LEMMA ReferencedAre ==
    /\ \A r \in Slot : job[r].ref \in Referenced
    /\ \A w \in Worker, s \in Session : sessions[w][s] \in Referenced
    /\ \A o \in Referenced : \/ \E r \in Slot : o = job[r].ref
                             \/ \E w \in Worker, s \in Session : o = sessions[w][s]
BY DEF Referenced

LEMMA ReferencedArePrimed ==
    /\ \A r \in Slot : job'[r].ref \in Referenced'
    /\ \A w \in Worker, s \in Session : sessions'[w][s] \in Referenced'
    /\ \A o \in Referenced' : \/ \E r \in Slot : o = job'[r].ref
                              \/ \E w \in Worker, s \in Session : o = sessions'[w][s]
BY DEF Referenced

(* A request that has no object yet finds a free one: every other slot     *)
(* holds one at most, and every worker one of each conversation.           *)
LEMMA FreeExists ==
    ASSUME Shape, Collected, NEW r \in Slot, job[r].ref = None
    PROVE  Free \in Object /\ heap[Free] = None
<1>1. ASSUME \A o \in Object : Alive(o) PROVE FALSE
  <2> DEFINE held == [q \in Slot |-> job[q].ref]
             kept == [p \in Worker \X Session |-> sessions[p[1]][p[2]]]
             A == {held[q] : q \in Slot \ {r}}
             B == {kept[p] : p \in Worker \X Session}
             workers == Cardinality(Worker) * Cardinality(Session)
  <2>1. Object \subseteq A \cup B
    <3>1. ASSUME NEW o \in Object PROVE o \in A \cup B
      <4>1. o \in Referenced /\ o # None
        BY <1>1, SessionStoreAssumption DEF Collected
      <4>2. CASE \E q \in Slot : o = job[q].ref
        BY <4>1, <4>2
      <4>3. CASE \E w \in Worker, s \in Session : o = sessions[w][s]
        <5>1. PICK w \in Worker, s \in Session : o = sessions[w][s]
          BY <4>3
        <5>2. <<w, s>> \in Worker \X Session /\ kept[<<w, s>>] = o
          BY <5>1
        <5> QED
          BY <5>2
      <4> QED
        BY <4>1, <4>2, <4>3, ReferencedAre
    <3> QED
      BY <3>1
  <2>2. IsFiniteSet(Slot \ {r}) /\ Cardinality(Slot \ {r}) = Cardinality(Slot) - 1
    BY SessionStoreAssumption, FS_RemoveElement
  <2>3. IsFiniteSet(A) /\ Cardinality(A) <= Cardinality(Slot) - 1
    BY <2>2, Values
  <2>4. IsFiniteSet(Worker \X Session) /\ Cardinality(Worker \X Session) = workers
    BY SessionStoreAssumption, FS_Product
  <2>5. IsFiniteSet(B) /\ Cardinality(B) <= workers
    <3> DEFINE P == Worker \X Session
    <3>1. IsFiniteSet(P)
      BY <2>4
    <3> HIDE DEF P, kept
    <3>2. IsFiniteSet({kept[p] : p \in P}) /\ Cardinality({kept[p] : p \in P}) <= Cardinality(P)
      BY <3>1, Values
    <3> QED
      BY <2>4, <3>2 DEF P
  <2>6. /\ Cardinality(Slot) \in Nat /\ workers \in Nat /\ Cardinality(Object) \in Nat
        /\ Cardinality(A) \in Nat /\ Cardinality(B) \in Nat /\ Cardinality(A \cap B) \in Nat
    <3>1. IsFiniteSet(A \cap B)
      BY <2>3, FS_Subset
    <3>2. workers \in Nat
      BY <2>4, FS_CardinalityType
    <3> QED
      BY <2>3, <2>5, <3>1, <3>2, SessionStoreAssumption, FS_CardinalityType
  <2>7. Cardinality(Object) >= workers + Cardinality(Slot)
    BY SessionStoreAssumption
  <2> HIDE DEF A, B, workers
  <2>8. /\ IsFiniteSet(A \cup B)
        /\ Cardinality(A \cup B) = Cardinality(A) + Cardinality(B) - Cardinality(A \cap B)
    BY <2>3, <2>5, FS_Union
  <2>9. Cardinality(Object) <= Cardinality(A \cup B)
    BY <2>1, <2>8, FS_Subset
  <2> QED
    BY <2>3, <2>5, <2>6, <2>7, <2>8, <2>9
<1>2. \E o \in Object : heap[o] = None
  BY <1>1 DEF Alive
<1> QED
  BY <1>2 DEF Free

-----------------------------------------------------------------------------
(* Frames.  The objects that are still referred to stay what they are,     *)
(* but for their turns and outcome.                                        *)
Same(o) == Alive(o)' /\ heap'[o].sid = heap[o].sid /\ heap'[o].pin = heap[o].pin

Survive == \A o \in Object : Alive(o) /\ o \in Referenced' => Same(o)

Moved(r) ==
    /\ \E p \in Pc : pc' = [pc EXCEPT ![r] = p]
    /\ \E j \in Job : job' = [job EXCEPT ![r] = j]

LEMMA MovedOthers ==
    ASSUME Shape, NEW r \in Slot, Moved(r)
    PROVE  /\ pc' \in [Slot -> Pc] /\ job' \in [Slot -> Job]
           /\ \A q \in Slot \ {r} : pc'[q] = pc[q] /\ job'[q] = job[q]
<1>1. pc' \in [Slot -> Pc] /\ \A q \in Slot \ {r} : pc'[q] = pc[q]
  BY DEF Shape, Moved
<1>2. job' \in [Slot -> Job] /\ \A q \in Slot \ {r} : job'[q] = job[q]
  BY DEF Shape, Moved
<1> QED
  BY <1>1, <1>2

LEMMA OthersOK ==
    ASSUME Shape, NEW q \in Slot, SlotOK(q), Survive, pc'[q] = pc[q], job'[q] = job[q]
    PROVE  SlotOK(q)'
<1>1. ASSUME pc[q] \in Holding
      PROVE  /\ job[q].ref \in Object /\ Alive(job[q].ref)
             /\ heap'[job[q].ref] # None
             /\ heap'[job[q].ref].sid = heap[job[q].ref].sid
             /\ heap'[job[q].ref].pin = heap[job[q].ref].pin
  <2>1. job[q].ref \in Object /\ Alive(job[q].ref)
    BY <1>1 DEF SlotOK
  <2>2. job[q].ref \in Referenced'
    BY ReferencedArePrimed
  <2> QED
    BY <2>1, <2>2 DEF Survive, Same, Alive
<1>2. pc[q] = "write" => pc[q] \in Holding
  BY DEF Holding, Pc
<1> QED
  BY <1>1, <1>2 DEF SlotOK, Alive

LEMMA ShelvesStay ==
    ASSUME Shape, Shelved, Survive, UNCHANGED sessions
    PROVE  Shelved'
<1>1. ASSUME NEW w \in Worker, NEW s \in Session, sessions[w][s] # None
      PROVE  heap'[sessions[w][s]] # None /\ heap'[sessions[w][s]].sid = s
  <2>1. sessions[w][s] \in Object /\ Alive(sessions[w][s]) /\ heap[sessions[w][s]].sid = s
    BY <1>1 DEF Shape, Shelved
  <2>2. sessions[w][s] \in Referenced'
    BY ReferencedArePrimed
  <2> QED
    BY <2>1, <2>2 DEF Survive, Same, Alive
<1> QED
  BY <1>1 DEF Shelved, Alive

(* A row has the pin it had, or that of an object of its conversation.     *)
RowsFollow ==
    \A s \in Session : rows'[s] # None =>
        /\ rows'[s] \in Fields /\ rows'[s].sid = s
        /\ \/ rows[s] # None /\ rows'[s].pin = rows[s].pin
           \/ \E o \in Object : Alive(o) /\ heap[o].sid = s /\ heap[o].pin = rows'[s].pin

(* No object is new.                                                       *)
NoneNew == \A o \in Object : Alive(o)' => Alive(o) /\ Same(o)

LEMMA PinsStay ==
    ASSUME Shape, Shape', Pinned, NoneNew, RowsFollow
    PROVE  Pinned'
<1>1. ASSUME NEW o \in Object, NEW p \in Object,
             heap'[o] # None, heap'[p] # None, heap'[o].sid = heap'[p].sid
      PROVE  heap'[o].pin = heap'[p].pin
  BY <1>1 DEF Pinned, NoneNew, Same, Alive
<1>2. ASSUME NEW o \in Object, heap'[o] # None, rows'[heap'[o].sid] # None
      PROVE  heap'[o].pin = rows'[heap'[o].sid].pin
  <2>1. /\ Alive(o) /\ heap'[o].sid = heap[o].sid /\ heap'[o].pin = heap[o].pin
        /\ heap[o].sid \in Session
    BY <1>2 DEF NoneNew, Same, Alive, Shape, Fields
  <2> QED
    BY <1>2, <2>1 DEF Pinned, RowsFollow
<1> QED
  BY <1>1, <1>2 DEF Pinned, Alive

(* A step of one request that makes no object.                             *)
LEMMA StepHeld ==
    ASSUME Held, NEW r \in Slot, Moved(r), SlotOK(r)', UNCHANGED sessions,
           heap' \in [Object -> Fields \cup {None}], rows' \in [Session -> Fields \cup {None}],
           Survive, NoneNew, RowsFollow, Collected', Remembered',
           opened' \subseteq Worker, refunded' \subseteq Session,
           answered' \in [Session -> 0..MaxTurns], faults' \in 0..MaxFaults,
           unsaved' \subseteq Session, loose' \subseteq Session
    PROVE  Held'
<1>1. Shape'
  BY MovedOthers DEF Held, Shape
<1>2. \A q \in Slot : SlotOK(q)'
  BY MovedOthers, OthersOK DEF Held
<1>3. Shelved' /\ Pinned'
  BY <1>1, ShelvesStay, PinsStay DEF Held
<1>4. \A s \in Session : rows'[s] # None => rows'[s].sid = s
  BY DEF RowsFollow
<1> QED
  BY <1>1, <1>2, <1>3, <1>4 DEF Held

LEMMA RowsStay == ASSUME Held, UNCHANGED rows PROVE RowsFollow
BY DEF Held, Shape, RowsFollow

LEMMA MemoryStays ==
    ASSUME Remembered, UNCHANGED <<answered, unsaved>>,
           \A s \in Session : rows[s] # None => rows'[s] # None
    PROVE  Remembered'
BY DEF Remembered

LEMMA FaultTyped == ASSUME Shape, Fault PROVE faults' \in 0..MaxFaults
BY SessionStoreAssumption DEF Shape, Fault

(* A request works on its object.                                          *)
LEMMA AssignHeld ==
    ASSUME Held, NEW r \in Slot, pc[r] \in Holding \ {"write"},
           NEW field \in {"turns", "outcome"}, NEW value, Assign(r, field, value),
           [heap[job[r].ref] EXCEPT ![field] = value] \in Fields,
           NEW p \in Holding \ {"write"}, Goto(r, p),
           UNCHANGED <<job, sessions, tables, opened, answered, faults, history>>
    PROVE  Held'
<1> DEFINE o == job[r].ref
           new == [heap[o] EXCEPT ![field] = value]
<1>1. o \in Object /\ Alive(o) /\ heap[o].sid = job[r].sid /\ heap[o] \in Fields
  BY DEF Held, Shape, SlotOK, Alive
<1>2. heap' = [heap EXCEPT ![o] = new]
  BY <1>1 DEF Assign, Held, Shape
<1>3. new \in Fields /\ new # None /\ new.sid = heap[o].sid /\ new.pin = heap[o].pin
  <2>1. new # None
    BY SessionStoreAssumption
  <2>2. new.sid = heap[o].sid /\ new.pin = heap[o].pin
    BY <1>1 DEF Fields
  <2> QED
    BY <2>1, <2>2
<1> HIDE DEF new
<1>4. /\ heap' \in [Object -> Fields \cup {None}] /\ heap'[o] = new
      /\ \A q \in Object \ {o} : heap'[q] = heap[q]
  BY <1>1, <1>2, <1>3 DEF Held, Shape
<1>5. Survive /\ NoneNew
  BY <1>1, <1>3, <1>4 DEF Survive, NoneNew, Same, Alive
<1>6. Moved(r) /\ pc'[r] = p /\ job' = job
  <2>1. job' = [job EXCEPT ![r] = job[r]] /\ job[r] \in Job
    BY DEF Held, Shape
  <2>2. pc' = [pc EXCEPT ![r] = p] /\ p \in Pc
    BY DEF Goto, Holding
  <2> QED
    BY <2>1, <2>2 DEF Moved, Held, Shape
<1>7. SlotOK(r)'
  <2>1. SlotOK(r)
    BY DEF Held
  <2>2. pc[r] # "idle" /\ p \notin {"idle", "load", "write"}
    BY DEF Holding, Pc
  <2> QED
    BY <1>1, <1>3, <1>4, <1>6, <2>1, <2>2 DEF SlotOK, Alive
<1>8. Collected'
  <2>1. Referenced' = Referenced
    BY DEF Referenced
  <2> QED
    BY <1>5, <2>1 DEF Held, Collected, NoneNew
<1>9. RowsFollow /\ Remembered'
  BY RowsStay, MemoryStays DEF Held, tables, history
<1> QED
  BY <1>4, <1>5, <1>6, <1>7, <1>8, <1>9, StepHeld DEF Held, Shape, tables, history

LEMMA WorkHeld == ASSUME Held, NEW r \in Slot, Count(r) \/ Work(r) \/ Publish(r) PROVE Held'
<1> DEFINE o == job[r].ref
<1>1. pc[r] \in {"found", "serve", "publish"}
  BY DEF Count, Work, Publish, At
<1>2. pc[r] \in Holding \ {"write"} /\ "serve" \in Holding \ {"write"}
      /\ "save" \in Holding \ {"write"}
  BY <1>1 DEF Holding, Pc
<1>3. heap[o] \in Fields
  BY <1>2 DEF Held, Shape, SlotOK, Alive
<1>4. CASE Count(r)
  <2> DEFINE n == heap[o].turns + 1
  <2>1. n \in 0..MaxTurns
    BY <1>3, <1>4, SessionStoreAssumption DEF Count, Fields
  <2>2. Assign(r, "turns", n) /\ Goto(r, "serve")
        /\ UNCHANGED <<job, sessions, tables, opened, answered, faults, history>>
    BY <1>4 DEF Count
  <2> HIDE DEF n
  <2>3. [heap[o] EXCEPT !["turns"] = n] \in Fields
    BY <1>3, <2>1 DEF Fields
  <2> QED
    BY <1>2, <2>2, <2>3, AssignHeld
<1>5. CASE Work(r) \/ Publish(r)
  <2>1. PICK x \in Outcomes : Assign(r, "outcome", x)
    BY <1>3, <1>5 DEF Work, Publish, Outcomes, Fields
  <2>2. Goto(r, "save") /\ UNCHANGED <<job, sessions, tables, opened, answered, faults, history>>
    BY <1>5 DEF Work, Publish
  <2>3. [heap[o] EXCEPT !["outcome"] = x] \in Fields
    BY <1>3 DEF Fields
  <2> QED
    BY <1>2, <2>1, <2>2, <2>3, AssignHeld
<1> QED
  BY <1>4, <1>5

(* Where nothing is collected, nothing is lost.                            *)
LEMMA HeapStays ==
    ASSUME Held, UNCHANGED heap, \A o \in Object : o \in Referenced => o \in Referenced'
    PROVE  Survive /\ NoneNew /\ Collected' /\ heap' \in [Object -> Fields \cup {None}]
BY DEF Held, Shape, Survive, NoneNew, Same, Alive, Collected

LEMMA Garbage ==
    ASSUME Held, Collect(heap)
    PROVE  Survive /\ NoneNew /\ Collected' /\ heap' \in [Object -> Fields \cup {None}]
<1>1. \A o \in Object : heap'[o] = IF o \in Referenced' THEN heap[o] ELSE None
  BY DEF Collect
<1>2. heap' \in [Object -> Fields \cup {None}]
  BY DEF Collect, Held, Shape
<1> QED
  BY <1>1, <1>2 DEF Survive, NoneNew, Same, Alive, Collected

LEMMA NoJobTyped == NoJob \in Job /\ NoJob.ref = None /\ NoJob.at = None
BY DEF NoJob, Job

(* A request that ends, or goes on with the object it has.                 *)
LEMMA DoneOK ==
    ASSUME Held, NEW r \in Slot, Done(r)
    PROVE  Moved(r) /\ SlotOK(r)' /\ UNCHANGED sessions
           /\ Survive /\ NoneNew /\ Collected' /\ heap' \in [Object -> Fields \cup {None}]
<1>1. /\ pc' = [pc EXCEPT ![r] = "idle"] /\ job' = [job EXCEPT ![r] = NoJob]
      /\ UNCHANGED sessions /\ Collect(heap)
  BY DEF Done, Goto
<1>2. "idle" \in Pc
  BY DEF Pc
<1>3. Moved(r)
  BY <1>1, <1>2, NoJobTyped DEF Moved
<1>4. pc'[r] = "idle" /\ job'[r] = NoJob
  BY <1>1 DEF Held, Shape
<1>5. SlotOK(r)'
  BY <1>4 DEF SlotOK, Holding
<1> QED
  BY <1>1, <1>3, <1>5, Garbage

(* db.execute_once touches nothing of a row but its outcome.               *)
LEMMA ExecuteRows ==
    ASSUME Held, NEW r \in Slot, Execute(r), job[r].sid \in Session
    PROVE  /\ RowsFollow /\ rows' \in [Session -> Fields \cup {None}]
           /\ refunded' \subseteq Session
           /\ \A s \in Session : rows[s] # None => rows'[s] # None
<1> DEFINE s == job[r].sid
           new == [rows[s] EXCEPT !.outcome = "executed"]
<1>1. CASE rows[s] = None
  <2>1. UNCHANGED rows
    BY <1>1 DEF Execute
  <2> QED
    BY <2>1, RowsStay DEF Execute, Held, Shape
<1>2. CASE rows[s] # None
  <2>1. rows[s] \in Fields
    BY <1>2 DEF Held, Shape
  <2>2. new \in Fields /\ new.sid = rows[s].sid /\ new.pin = rows[s].pin
    BY <2>1 DEF Fields, Outcomes
  <2>3. new # None
    BY <2>2, SessionStoreAssumption
  <2>4. rows' = [rows EXCEPT ![s] = new]
    BY <1>2 DEF Execute
  <2> HIDE DEF new
  <2>5. \A u \in Session : rows'[u] = IF u = s THEN new ELSE rows[u]
    BY <2>4 DEF Held, Shape
  <2>6. rows' \in [Session -> Fields \cup {None}]
    BY <2>2, <2>4 DEF Held, Shape
  <2>7. RowsFollow
    BY <1>2, <2>2, <2>5, <2>6 DEF RowsFollow, Held, Shape
  <2> QED
    BY <2>3, <2>5, <2>6, <2>7 DEF Execute, Held, Shape
<1> QED
  BY <1>1, <1>2

(* db.save_session writes what it read of an object, under the row's pin.  *)
LEMMA UpsertRows ==
    ASSUME Held, NEW r \in Slot, pc[r] = "write", Upsert(job[r].sid, job[r].snap)
    PROVE  /\ RowsFollow /\ rows' \in [Session -> Fields \cup {None}]
           /\ rows'[job[r].sid] # None
           /\ \A s \in Session : rows[s] # None => rows'[s] # None
<1> DEFINE s == job[r].sid
           o == job[r].ref
           new == IF rows[s] = None THEN job[r].snap ELSE [job[r].snap EXCEPT !.pin = rows[s].pin]
<1>1. /\ s \in Session /\ job[r].snap \in Fields /\ job[r].snap.sid = s
      /\ o \in Object /\ Alive(o) /\ heap[o].sid = s /\ job[r].snap.pin = heap[o].pin
  BY DEF Held, SlotOK, Holding, Pc
<1>2. rows[s] # None => rows[s] \in Fields
  BY <1>1 DEF Held, Shape
<1>3. /\ new \in Fields /\ new.sid = s
      /\ rows[s] # None => new.pin = rows[s].pin
      /\ rows[s] = None => new.pin = heap[o].pin
  BY <1>1, <1>2 DEF Fields
<1>4. new # None
  BY <1>3, SessionStoreAssumption
<1>5. rows' = [rows EXCEPT ![s] = new]
  BY DEF Upsert
<1> HIDE DEF new
<1>6. \A u \in Session : rows'[u] = IF u = s THEN new ELSE rows[u]
  BY <1>5 DEF Held, Shape
<1>7. rows' \in [Session -> Fields \cup {None}]
  BY <1>3, <1>5 DEF Held, Shape
<1>8. RowsFollow
  BY <1>1, <1>3, <1>6 DEF RowsFollow, Held, Shape
<1> QED
  BY <1>1, <1>4, <1>6, <1>7, <1>8

LEMMA EndHeld ==
    ASSUME Held, NEW r \in Slot,
           \/ LoadMiss(r) \/ LoadFails(r) \/ Leave(r) \/ CommitUnacknowledged(r)
           \/ Write(r) \/ WriteFails(r) \/ Skip(r)
    PROVE  Held'
<1> DEFINE s == job[r].sid
<1>1. /\ Done(r) /\ UNCHANGED opened /\ s \in Session
      /\ pc[r] # "idle"
  BY DEF LoadMiss, LoadFails, Missed, Leave, CommitUnacknowledged, Execute, Write, WriteFails,
         Skip, Answer, At, Held, SlotOK
<1>2. /\ Moved(r) /\ SlotOK(r)' /\ UNCHANGED sessions
      /\ Survive /\ NoneNew /\ Collected' /\ heap' \in [Object -> Fields \cup {None}]
  BY <1>1, DoneOK
<1>3. faults' \in 0..MaxFaults
  BY FaultTyped DEF LoadMiss, LoadFails, Leave, CommitUnacknowledged, Write, WriteFails, Skip,
                    Held, Shape
<1>4. ASSUME RowsFollow, rows' \in [Session -> Fields \cup {None}], Remembered',
             refunded' \subseteq Session, answered' \in [Session -> 0..MaxTurns],
             unsaved' \subseteq Session, loose' \subseteq Session
      PROVE  Held'
  BY <1>1, <1>2, <1>3, <1>4, StepHeld DEF Held, Shape
<1>5. CASE LoadMiss(r) \/ LoadFails(r) \/ Leave(r)
  <2>1. UNCHANGED <<rows, refunded, answered, unsaved, loose>>
    BY <1>5 DEF LoadMiss, LoadFails, Missed, Leave, tables, history
  <2> QED
    BY <1>4, <2>1, RowsStay, MemoryStays DEF Held, Shape
<1>6. CASE CommitUnacknowledged(r)
  <2>1. Execute(r) /\ UNCHANGED <<answered, unsaved>> /\ loose' = loose \cup {s}
    BY <1>6 DEF CommitUnacknowledged
  <2> QED
    BY <1>1, <1>4, <2>1, ExecuteRows, MemoryStays DEF Held, Shape
<1>7. CASE WriteFails(r)
  <2>1. /\ pc[r] = "write" /\ UNCHANGED <<refunded, answered, unsaved, loose>>
        /\ UNCHANGED rows \/ Upsert(s, job[r].snap)
    BY <1>7 DEF WriteFails, At, history
  <2> QED
    BY <1>4, <2>1, RowsStay, UpsertRows, MemoryStays DEF Held, Shape
<1>8. ASSUME NEW turns \in 0..MaxTurns, Answer(r, turns)
      PROVE  /\ answered' \in [Session -> 0..MaxTurns]
             /\ \A u \in Session \ {s} : answered'[u] = answered[u]
  BY <1>1, <1>8 DEF Answer, Held, Shape
<1>9. CASE Write(r)
  <2>1. /\ pc[r] = "write" /\ Upsert(s, job[r].snap) /\ Answer(r, job[r].snap.turns)
        /\ UNCHANGED <<refunded, unsaved, loose>>
    BY <1>9 DEF Write, At, history
  <2>2. job[r].snap.turns \in 0..MaxTurns
    BY <2>1 DEF Held, SlotOK, Fields
  <2>3. /\ RowsFollow /\ rows' \in [Session -> Fields \cup {None}] /\ rows'[s] # None
        /\ \A u \in Session : rows[u] # None => rows'[u] # None
    BY <2>1, UpsertRows
  <2>4. Remembered'
    BY <1>8, <2>1, <2>2, <2>3 DEF Held, Remembered
  <2> QED
    BY <1>4, <1>8, <2>1, <2>2, <2>3, <2>4 DEF Held, Shape
<1>10. CASE Skip(r)
  <2>1. /\ pc[r] = "save" /\ Answer(r, heap[job[r].ref].turns) /\ unsaved' = unsaved \cup {s}
        /\ UNCHANGED <<rows, refunded, loose>>
    BY <1>10 DEF Skip, At, tables
  <2>2. heap[job[r].ref].turns \in 0..MaxTurns
    BY <2>1 DEF Held, Shape, SlotOK, Holding, Pc, Alive, Fields
  <2>3. Remembered'
    BY <1>8, <2>1, <2>2 DEF Held, Remembered
  <2> QED
    BY <1>1, <1>4, <1>8, <2>1, <2>2, <2>3, RowsStay DEF Held, Shape
<1> QED
  BY <1>5, <1>6, <1>7, <1>9, <1>10

(* The requests that leave every object as it is.                          *)
LEMMA QuietHeld ==
    ASSUME Held, NEW r \in Slot, Commit(r) \/ RefundAgain(r) \/ Read(r)
    PROVE  Held'
<1> DEFINE o == job[r].ref
<1>1. /\ pc[r] \in Holding \ {"write"} /\ SlotOK(r)
      /\ UNCHANGED <<heap, sessions, opened, answered, faults, unsaved, loose>>
  BY DEF Commit, Execute, RefundAgain, Read, At, Holding, Pc, Held, history
<1>2. o \in Object /\ heap[o] \in Fields /\ job[r].sid \in Session /\ heap[o].sid = job[r].sid
      /\ job[r].at \in Worker /\ job[r].kind # "none" /\ job[r] \in Job
  BY <1>1 DEF SlotOK, Held, Shape, Holding, Pc, Alive
<1>3. RowsFollow /\ rows' \in [Session -> Fields \cup {None}] /\ refunded' \subseteq Session
      /\ \A s \in Session : rows[s] # None => rows'[s] # None
  <2>1. Execute(r) \/ UNCHANGED <<rows, refunded>>
    BY DEF Commit, RefundAgain, Read, tables
  <2> QED
    BY <1>2, <2>1, ExecuteRows, RowsStay DEF Held, Shape
<1>4. Remembered'
  BY <1>1, <1>3, MemoryStays DEF Held
<1>5. PICK j \in Job :
        /\ job' = [job EXCEPT ![r] = j]
        /\ j.at = job[r].at /\ j.kind = job[r].kind /\ j.sid = job[r].sid /\ j.ref = o
        /\ Read(r) => j.snap = heap[o]
  <2>1. CASE Read(r)
    <3> DEFINE j == [job[r] EXCEPT !.snap = heap[o]]
    <3>1. j \in Job /\ job' = [job EXCEPT ![r] = j]
      BY <1>2, <2>1 DEF Read, Job, Held, Shape
    <3> QED
      BY <1>2, <3>1 DEF Job
  <2>2. CASE ~Read(r)
    <3>1. job' = [job EXCEPT ![r] = job[r]]
      BY <2>2 DEF Commit, RefundAgain, Held, Shape
    <3> QED
      BY <1>2, <2>2, <3>1
  <2> QED
    BY <2>1, <2>2
<1>6. PICK p \in {"publish", "write"} : pc' = [pc EXCEPT ![r] = p] /\ (p = "write" => Read(r))
  BY DEF Commit, RefundAgain, Read, Goto
<1>7. Moved(r) /\ pc'[r] = p /\ job'[r] = j
  BY <1>5, <1>6 DEF Moved, Pc, Held, Shape
<1>8. SlotOK(r)'
  BY <1>1, <1>2, <1>5, <1>6, <1>7 DEF SlotOK, Holding, Pc, Alive
<1>9. Survive /\ NoneNew /\ Collected' /\ heap' \in [Object -> Fields \cup {None}]
  <2>1. ASSUME NEW q \in Slot PROVE job'[q].ref = job[q].ref
    BY <1>5, <1>7, MovedOthers DEF Held
  <2>2. Referenced' = Referenced
    BY <1>1, <2>1 DEF Referenced
  <2> QED
    BY <1>1, <2>2, HeapStays
<1> QED
  BY <1>1, <1>3, <1>4, <1>7, <1>8, <1>9, StepHeld DEF Held, Shape

LEMMA ArriveHeld ==
    ASSUME Held, NEW r \in Slot, NEW w \in Worker, NEW s \in Session,
           NEW kind \in {"turn", "accept"}, Arrive(r, w, kind, s)
    PROVE  Held'
<1> DEFINE o == sessions[w][s]
           j == [at |-> w, kind |-> kind, sid |-> s, ref |-> o, snap |-> None]
           p == IF o = None THEN "load" ELSE "found"
<1>1. /\ pc[r] = "idle" /\ job' = [job EXCEPT ![r] = j] /\ pc' = [pc EXCEPT ![r] = p]
      /\ UNCHANGED <<heap, sessions, rows, refunded, opened, answered, faults, unsaved>>
      /\ loose' \subseteq loose \cup {s}
  BY DEF Arrive, At, Goto, tables
<1>2. o \in Object \cup {None} /\ (o # None => Alive(o) /\ heap[o].sid = s)
  BY DEF Held, Shape, Shelved
<1>3. j \in Job /\ p \in Pc
  BY <1>2 DEF Job, Pc
<1>4. Moved(r) /\ pc'[r] = p /\ job'[r] = j
  BY <1>1, <1>3 DEF Moved, Held, Shape
<1>5. SlotOK(r)'
  BY <1>1, <1>2, <1>4 DEF SlotOK, Holding, Pc, Alive
<1>6. ASSUME NEW q \in Object, q \in Referenced PROVE q \in Referenced'
  <2>1. job[r].ref = None
    BY <1>1, NoJobTyped DEF Held, SlotOK
  <2>2. CASE \E u \in Slot : q = job[u].ref
    <3>1. PICK u \in Slot \ {r} : q = job[u].ref
      BY <2>1, <2>2, SessionStoreAssumption
    <3>2. job'[u].ref = q
      BY <1>4, <3>1, MovedOthers DEF Held
    <3> QED
      BY <3>1, <3>2, ReferencedArePrimed
  <2>3. CASE \E v \in Worker, t \in Session : q = sessions[v][t]
    BY <1>1, <2>3, ReferencedArePrimed
  <2> QED
    BY <1>6, <2>2, <2>3, ReferencedAre
<1>7. Survive /\ NoneNew /\ Collected' /\ heap' \in [Object -> Fields \cup {None}]
  BY <1>1, <1>6, HeapStays
<1>8. RowsFollow /\ Remembered'
  BY <1>1, RowsStay, MemoryStays DEF Held
<1> QED
  BY <1>1, <1>4, <1>5, <1>7, <1>8, StepHeld DEF Held, Shape

(* A request gets a new object.                                            *)
Adopted(r, w, kind, s, fields) ==
    /\ Free \in Object /\ ~Alive(Free) /\ Free # None /\ fields # None
    /\ Moved(r) /\ pc'[r] = "found"
    /\ job'[r] = [at |-> w, kind |-> kind, sid |-> s, ref |-> Free, snap |-> None]
    /\ sessions' \in [Worker -> [Session -> Object \cup {None}]]
    /\ \A v \in Worker, u \in Session :
         sessions'[v][u] = IF v = w /\ u = s THEN Free ELSE sessions[v][u]
    /\ Free \in Referenced' /\ heap' \in [Object -> Fields \cup {None}]
    /\ \A o \in Object :
         heap'[o] = IF o = Free THEN fields ELSE IF o \in Referenced' THEN heap[o] ELSE None

LEMMA AdoptFrame ==
    ASSUME Held, NEW r \in Slot, NEW w \in Worker, NEW s \in Session,
           NEW kind \in {"turn", "accept"}, NEW fields \in Fields,
           Adopt(r, w, kind, s, fields), job[r].ref = None
    PROVE  Adopted(r, w, kind, s, fields)
<1> DEFINE j == [at |-> w, kind |-> kind, sid |-> s, ref |-> Free, snap |-> None]
<1>1. Free \in Object /\ ~Alive(Free) /\ Free # None /\ fields # None
  BY FreeExists, SessionStoreAssumption DEF Held, Alive
<1>2. /\ job' = [job EXCEPT ![r] = j] /\ pc' = [pc EXCEPT ![r] = "found"]
      /\ sessions' = [sessions EXCEPT ![w][s] = Free]
      /\ heap' = [o \in Object |-> IF o \in Referenced' THEN [heap EXCEPT ![Free] = fields][o]
                                   ELSE None]
  BY DEF Adopt, Goto, Collect
<1>3. Moved(r) /\ pc'[r] = "found" /\ job'[r] = j
  <2>1. j \in Job /\ "found" \in Pc
    BY <1>1 DEF Job, Pc
  <2> QED
    BY <1>2, <2>1 DEF Moved, Held, Shape
<1>4. \A v \in Worker, u \in Session :
          sessions'[v][u] = IF v = w /\ u = s THEN Free ELSE sessions[v][u]
  BY <1>2 DEF Held, Shape
<1>5. sessions' \in [Worker -> [Session -> Object \cup {None}]]
  BY <1>1, <1>2 DEF Held, Shape
<1>6. Free \in Referenced'
  BY <1>3, ReferencedArePrimed
<1> HIDE DEF j
<1>7. \A o \in Object :
          heap'[o] = IF o = Free THEN fields ELSE IF o \in Referenced' THEN heap[o] ELSE None
  BY <1>1, <1>2, <1>6 DEF Held, Shape
<1>8. heap' \in [Object -> Fields \cup {None}]
  BY <1>2, <1>7 DEF Held, Shape
<1> QED
  BY <1>1, <1>3, <1>4, <1>5, <1>6, <1>7, <1>8 DEF Adopted, j

LEMMA AdoptHeld ==
    ASSUME Held, NEW r \in Slot, NEW w \in Worker, NEW s \in Session,
           NEW kind \in {"turn", "accept"}, NEW fields \in Fields,
           Adopt(r, w, kind, s, fields), job[r].ref = None, fields.sid = s,
           \A o \in Object : Alive(o) /\ heap[o].sid = s => heap[o].pin = fields.pin,
           rows[s] # None => rows[s].pin = fields.pin,
           UNCHANGED <<tables, opened, answered, faults, history>>
    PROVE  Held'
<1> DEFINE j == [at |-> w, kind |-> kind, sid |-> s, ref |-> Free, snap |-> None]
<1>0. Adopted(r, w, kind, s, fields)
  BY AdoptFrame
<1>1. Free \in Object /\ ~Alive(Free) /\ Free # None /\ fields # None
  BY <1>0 DEF Adopted
<1>2. UNCHANGED <<rows, refunded, opened, answered, faults, unsaved, loose>>
  BY DEF tables, history
<1>3. Moved(r) /\ pc'[r] = "found" /\ job'[r] = j
  BY <1>0 DEF Adopted
<1>4. \A v \in Worker, u \in Session :
          sessions'[v][u] = IF v = w /\ u = s THEN Free ELSE sessions[v][u]
  BY <1>0 DEF Adopted
<1>5. sessions' \in [Worker -> [Session -> Object \cup {None}]]
  BY <1>0 DEF Adopted
<1>6. Free \in Referenced'
  BY <1>0 DEF Adopted
<1> HIDE DEF j
<1>7. \A o \in Object :
          heap'[o] = IF o = Free THEN fields ELSE IF o \in Referenced' THEN heap[o] ELSE None
  BY <1>0 DEF Adopted
<1>8. heap' \in [Object -> Fields \cup {None}]
  BY <1>0 DEF Adopted
<1>9. Survive
  BY <1>1, <1>7 DEF Survive, Same, Alive
<1>10. Shape'
  BY <1>2, <1>3, <1>5, <1>8, MovedOthers DEF Held, Shape
<1>11. ASSUME NEW q \in Slot PROVE SlotOK(q)'
  <2>1. CASE q = r
    <3>1. heap'[Free] = fields /\ j.ref = Free /\ j.at = w /\ j.sid = s /\ j.kind # "none"
      BY <1>1, <1>7 DEF j
    <3> QED
      BY <1>1, <1>3, <2>1, <3>1 DEF SlotOK, Holding, Pc, Alive
  <2>2. CASE q # r
    BY <1>3, <1>9, <2>2, MovedOthers, OthersOK DEF Held
  <2> QED
    BY <2>1, <2>2
<1>12. Shelved'
  <2>1. ASSUME NEW v \in Worker, NEW u \in Session, sessions'[v][u] # None
        PROVE  heap'[sessions'[v][u]] # None /\ heap'[sessions'[v][u]].sid = u
    <3>1. CASE v = w /\ u = s
      BY <1>1, <1>4, <1>7, <3>1
    <3>2. CASE ~(v = w /\ u = s)
      <4>1. /\ sessions[v][u] \in Object /\ Alive(sessions[v][u]) /\ heap[sessions[v][u]].sid = u
            /\ sessions'[v][u] = sessions[v][u] /\ sessions'[v][u] \in Referenced'
        BY <1>4, <2>1, <3>2, ReferencedArePrimed DEF Held, Shape, Shelved
      <4> QED
        BY <1>9, <4>1 DEF Survive, Same, Alive
    <3> QED
      BY <3>1, <3>2
  <2> QED
    BY <2>1 DEF Shelved, Alive
<1>13. Collected'
  BY <1>6, <1>7 DEF Collected, Alive
<1>14. Pinned'
  <2>1. ASSUME NEW o \in Object, heap'[o] # None
        PROVE  \/ o = Free /\ heap'[o] = fields
               \/ Alive(o) /\ heap'[o] = heap[o]
    BY <1>7, <2>1 DEF Alive
  <2>2. ASSUME NEW o \in Object, NEW p \in Object, heap'[o] # None, heap'[p] # None,
               heap'[o].sid = heap'[p].sid
        PROVE  heap'[o].pin = heap'[p].pin
    BY <2>1, <2>2 DEF Held, Pinned
  <2>3. ASSUME NEW o \in Object, heap'[o] # None, rows[heap'[o].sid] # None
        PROVE  heap'[o].pin = rows[heap'[o].sid].pin
    BY <2>1, <2>3 DEF Held, Pinned
  <2> QED
    BY <1>2, <2>2, <2>3 DEF Pinned, Alive
<1>15. Remembered' /\ \A u \in Session : rows'[u] # None => rows'[u].sid = u
  BY <1>2 DEF Held, Remembered
<1> QED
  BY <1>10, <1>11, <1>12, <1>13, <1>14, <1>15 DEF Held

LEMMA OpenHeld == ASSUME Held, NEW r \in Slot, NEW w \in Worker, Open(r, w) PROVE Held'
<1>1. PICK s \in Session, p \in Pin :
         /\ Unused(s)
         /\ Adopt(r, w, "turn", s, [sid |-> s, pin |-> p, turns |-> 0, outcome |-> "none"])
  BY DEF Open
<1> DEFINE new == [sid |-> s, pin |-> p, turns |-> 0, outcome |-> "none"]
<1>2. new \in Fields /\ new.sid = s
  BY SessionStoreAssumption DEF Fields, Outcomes
<1>3. job[r].ref = None
  BY NoJobTyped DEF Open, At, Held, SlotOK
<1>4. rows[s] = None /\ \A o \in Object : ~(Alive(o) /\ heap[o].sid = s)
  BY <1>1 DEF Unused, Alive
<1>5. UNCHANGED <<tables, opened, answered, faults, history>>
  BY DEF Open
<1> HIDE DEF new
<1>6. Adopt(r, w, "turn", s, new)
  BY <1>1 DEF new
<1> QED
  BY <1>2, <1>3, <1>4, <1>5, <1>6, AdoptHeld

LEMMA LoadHeld == ASSUME Held, NEW r \in Slot, LoadHit(r) PROVE Held'
<1> DEFINE s == job[r].sid
<1>1. /\ pc[r] = "load" /\ rows[s] # None /\ Adopt(r, job[r].at, job[r].kind, s, rows[s])
      /\ UNCHANGED <<tables, opened, answered, faults, history>>
  BY DEF LoadHit, At
<1>2. /\ job[r].at \in Worker /\ job[r].kind \in {"turn", "accept"} /\ s \in Session
      /\ job[r].ref = None
  BY <1>1 DEF Held, Shape, SlotOK, Job
<1>3. rows[s] \in Fields /\ rows[s].sid = s
  BY <1>1, <1>2 DEF Held, Shape
<1>4. \A o \in Object : Alive(o) /\ heap[o].sid = s => heap[o].pin = rows[s].pin
  BY <1>1 DEF Held, Pinned
<1> QED
  BY <1>1, <1>2, <1>3, <1>4, AdoptHeld

LEMMA ConnectHeld == ASSUME Held, NEW w \in Worker, Connect(w) PROVE Held'
<1>1. /\ opened' = opened \cup {w}
      /\ UNCHANGED <<pc, job, heap, sessions, rows, refunded, answered, faults, unsaved, loose>>
  BY DEF Connect, service, tables, history
<1>2. Survive /\ Collected' /\ NoneNew
  <2>1. Referenced' = Referenced
    BY <1>1 DEF Referenced
  <2> QED
    BY <1>1, <2>1, HeapStays
<1>3. \A q \in Slot : SlotOK(q)'
  BY <1>1, <1>2, OthersOK DEF Held
<1> QED
  BY <1>1, <1>2, <1>3 DEF Held, Shape, Shelved, Pinned, Remembered, Alive

LEMMA CrashHeld == ASSUME Held, NEW w \in Worker, Crash(w) PROVE Held'
<1>1. /\ pc' = [r \in Slot |-> IF job[r].at = w THEN "idle" ELSE pc[r]]
      /\ job' = [r \in Slot |-> IF job[r].at = w THEN NoJob ELSE job[r]]
      /\ sessions' = [sessions EXCEPT ![w] = [s \in Session |-> None]]
      /\ Collect(heap)
      /\ opened' = opened \ {w}
      /\ UNCHANGED <<rows, refunded, answered, faults, unsaved, loose>>
  BY DEF Crash, tables, history
<1>2. Survive /\ NoneNew /\ Collected' /\ heap' \in [Object -> Fields \cup {None}]
  BY <1>1, Garbage
<1>3. pc' \in [Slot -> Pc] /\ job' \in [Slot -> Job]
  BY <1>1, NoJobTyped DEF Held, Shape, Pc
<1>4. sessions' \in [Worker -> [Session -> Object \cup {None}]]
      /\ \A v \in Worker, s \in Session :
            sessions'[v][s] = IF v = w THEN None ELSE sessions[v][s]
  BY <1>1 DEF Held, Shape
<1>5. Shape'
  BY <1>1, <1>2, <1>3, <1>4 DEF Held, Shape
<1>6. ASSUME NEW q \in Slot PROVE SlotOK(q)'
  <2>1. CASE job[q].at = w
    <3>1. pc'[q] = "idle" /\ job'[q] = NoJob
      BY <1>1, <2>1
    <3> QED
      BY <3>1 DEF SlotOK, Holding
  <2>2. CASE job[q].at # w
    BY <1>1, <1>2, <2>2, OthersOK DEF Held
  <2> QED
    BY <2>1, <2>2
<1>7. Shelved'
  <2>1. ASSUME NEW v \in Worker, NEW s \in Session, sessions'[v][s] # None
        PROVE  heap'[sessions'[v][s]] # None /\ heap'[sessions'[v][s]].sid = s
    <3>1. /\ sessions'[v][s] = sessions[v][s] /\ sessions[v][s] \in Object
          /\ Alive(sessions[v][s]) /\ heap[sessions[v][s]].sid = s
      BY <1>4, <2>1 DEF Held, Shape, Shelved
    <3>2. sessions'[v][s] \in Referenced'
      BY ReferencedArePrimed
    <3> QED
      BY <1>2, <3>1, <3>2 DEF Survive, Same, Alive
  <2> QED
    BY <2>1 DEF Shelved, Alive
<1>8. RowsFollow
  BY <1>1, RowsStay
<1>9. Pinned' /\ Remembered'
  BY <1>1, <1>2, <1>5, <1>8, PinsStay DEF Held, Remembered
<1> QED
  BY <1>1, <1>2, <1>5, <1>6, <1>7, <1>9 DEF Held

LEMMA InitHeld == Init => Held
<1> SUFFICES ASSUME Init PROVE Held
  OBVIOUS
<1>1. Shape
  BY NoJobTyped, SessionStoreAssumption DEF Init, Shape, Pc
<1>2. \A r \in Slot : SlotOK(r)
  BY DEF Init, SlotOK, Holding
<1> QED
  BY <1>1, <1>2, SessionStoreAssumption DEF Init, Held, Shelved, Collected, Pinned, Remembered, Alive

LEMMA NextHeld == Held /\ [Next]_vars => Held'
<1> SUFFICES ASSUME Held, [Next]_vars PROVE Held'
  OBVIOUS
<1>1. ASSUME NEW r \in Slot, NEW w \in Worker,
             Open(r, w) \/ \E s \in Session, kind \in {"turn", "accept"} : Arrive(r, w, kind, s)
      PROVE  Held'
  BY <1>1, OpenHeld, ArriveHeld
<1>2. ASSUME NEW r \in Slot, Step(r) PROVE Held'
  BY <1>2, LoadHeld, WorkHeld, EndHeld, QuietHeld DEF Step
<1>3. ASSUME NEW w \in Worker, Connect(w) \/ Crash(w) PROVE Held'
  BY <1>3, ConnectHeld, CrashHeld
<1>4. CASE UNCHANGED vars
  <2>1. UNCHANGED <<pc, job, heap, sessions, rows, refunded, opened, answered, faults, unsaved,
                    loose>>
    BY <1>4 DEF vars, service, tables, history
  <2>2. Referenced' = Referenced
    BY <2>1 DEF Referenced
  <2>3. Survive
    BY <2>1, <2>2, HeapStays
  <2>4. \A q \in Slot : SlotOK(q)'
    BY <2>1, <2>3, OthersOK DEF Held
  <2> QED
    BY <2>1, <2>2, <2>4 DEF Held, Shape, Shelved, Collected, Pinned, Remembered, Alive
<1> QED
  BY <1>1, <1>2, <1>3, <1>4 DEF Next

LEMMA HeldAlways == Spec => []Held
BY InitHeld, NextHeld, PTL DEF Spec

-----------------------------------------------------------------------------
(* Every reachable state is well typed, and no request works on a Session  *)
(* object that has been collected (store.get_session).                     *)
THEOREM TypeCorrect == Spec => []TypeOK
<1>1. Held => TypeOK
  <2> SUFFICES ASSUME Held PROVE TypeOK
    OBVIOUS
  <2>1. ASSUME NEW r \in Slot, pc[r] \notin {"idle", "load"}
        PROVE  job[r].ref # None /\ heap[job[r].ref] # None
    <3>1. pc[r] \in Holding
      BY <2>1 DEF Held, Shape, Holding
    <3>2. job[r].ref \in Object /\ heap[job[r].ref] # None
      BY <3>1 DEF Held, SlotOK, Alive
    <3> QED
      BY <3>2, SessionStoreAssumption
  <2> QED
    BY <2>1 DEF Held, Shape, TypeOK, Pc, Job
<1> QED
  BY HeldAlways, <1>1, PTL

(* A conversation has one tenant and one version in every process and in   *)
(* the table, whatever is loaded, saved or lost (db.save_session).         *)
THEOREM PinnedIsPinned == Spec => []PinsAgree
<1>1. Held => PinsAgree
  <2> SUFFICES ASSUME Held, NEW s \in Session PROVE Cardinality({c.pin : c \in Copies(s)}) <= 1
    BY DEF PinsAgree
  <2> DEFINE P == {c.pin : c \in Copies(s)}
  <2>1. ASSUME NEW c \in Copies(s)
        PROVE  \/ \E o \in Object : c = heap[o] /\ Alive(o) /\ heap[o].sid = s
               \/ c = rows[s] /\ rows[s] # None
    BY <2>1 DEF Copies, Alive
  <2>2. \A c, d \in Copies(s) : c.pin = d.pin
    BY <2>1 DEF Held, Pinned
  <2>3. CASE P = {}
    BY <2>3, FS_EmptySet
  <2>4. CASE P # {}
    <3>1. PICK x : P = {x}
      BY <2>2, <2>4
    <3>2. Cardinality({x}) = 1
      BY FS_Singleton
    <3> HIDE DEF P
    <3>3. Cardinality(P) <= 1
      BY <3>1, <3>2
    <3> QED
      BY <3>3 DEF P
  <2> QED
    BY <2>3, <2>4
<1> QED
  BY HeldAlways, <1>1, PTL

(* A conversation that was answered, and saved, has a row from then on     *)
(* (store.persist): no crash makes it an unknown one.                      *)
THEOREM NeverForgotten == Spec => []Remembered
<1>1. Held => Remembered
  BY DEF Held
<1> QED
  BY HeldAlways, <1>1, PTL

-----------------------------------------------------------------------------
(* A conversation that is on the books is served by one request at a time  *)
(* and held by one worker, the one that serves it.                         *)
OnBooks(s) == s \notin unsaved \cup loose

Serves(r, s) == job[r].sid = s

Owns(r, s) ==
    /\ \A w \in Worker : sessions[w][s] # None => w = job[r].at
    /\ pc[r] \in Holding => job[r].ref = sessions[job[r].at][s]
    /\ pc[r] = "load" => sessions[job[r].at][s] = None
    /\ pc[r] = "write" => job[r].snap = heap[job[r].ref]

(* An outcome in the table is one in memory as well, once the request that *)
(* executes has published it.                                              *)
Concluded(s) ==
    rows[s] # None /\ rows[s].outcome # "none" =>
        \/ \A o \in Live(s) : heap[o].outcome # "none"
        \/ \E r \in Slot : Serves(r, s) /\ pc[r] = "publish"

Alone(s) ==
    /\ \A r, q \in Slot : Serves(r, s) /\ Serves(q, s) => r = q
    /\ \A v, w \in Worker : sessions[v][s] # None /\ sessions[w][s] # None => v = w
    /\ \A r \in Slot : Serves(r, s) => Owns(r, s)
    /\ Concluded(s)

Solitude ==
    /\ \A s \in Session : OnBooks(s) => Alone(s)
    /\ \A r \in Slot : pc[r] = "load" => answered[job[r].sid] > 0

(* What the refinement mapping says of a conversation on the books.        *)
Part(c) == [turns |-> c.turns, outcome |-> c.outcome]

Saved(s) == IF rows[s] = None THEN [turns |-> 0, outcome |-> "none"] ELSE Part(rows[s])

Current(s) == IF Live(s) = {} THEN Saved(s) ELSE Part(heap[CHOOSE o \in Live(s) : TRUE])

Entry(s) == [current |-> Current(s), saved |-> Saved(s), answered |-> answered[s]]

LEMMA BookIs == Book = [s \in Session |-> IF OnBooks(s) THEN Entry(s) ELSE None]
BY DEF Book, OnBooks, Entry, Current, Saved, Part

LEMMA BookIsPrimed ==
    Book' = [s \in Session |-> IF OnBooks(s)' THEN Entry(s)' ELSE None]
BY DEF Book, OnBooks, Entry, Current, Saved, Part

LEMMA PartTyped == ASSUME NEW c \in Fields PROVE Part(c) \in Progress
BY DEF Part, Fields, Progress

LEMMA EntryTyped ==
    ASSUME Shape, NEW s \in Session
    PROVE  /\ Saved(s) \in Progress /\ Current(s) \in Progress /\ Entry(s) \in Account
           /\ Entry(s) # None
<1>1. rows[s] # None => rows[s] \in Fields
  BY DEF Shape
<1>2. Saved(s) \in Progress
  <2>1. [turns |-> 0, outcome |-> "none"] \in Progress
    BY SessionStoreAssumption DEF Progress, Outcomes
  <2> QED
    BY <1>1, <2>1, PartTyped DEF Saved
<1>3. Current(s) \in Progress
  <2>1. CASE Live(s) = {}
    BY <1>2, <2>1 DEF Current
  <2>2. CASE Live(s) # {}
    <3> DEFINE o == CHOOSE o \in Live(s) : TRUE
    <3>1. o \in Live(s)
      BY <2>2
    <3> HIDE DEF o
    <3>2. heap[o] \in Fields
      BY <3>1 DEF Live, Shape
    <3>3. Part(heap[o]) \in Progress
      BY <3>2, PartTyped
    <3> QED
      BY <2>2, <3>3 DEF Current, o
  <2> QED
    BY <2>1, <2>2
<1>4. Entry(s) \in Account
  BY <1>2, <1>3 DEF Entry, Account, Shape
<1> QED
  BY <1>2, <1>3, <1>4, SessionStoreAssumption

(* The one object of a conversation is the one in SESSIONS.                *)
LEMMA LiveIs ==
    ASSUME Held, NEW s \in Session, Alone(s), NEW w \in Worker, sessions[w][s] # None
    PROVE  Live(s) = {sessions[w][s]}
<1> DEFINE x == sessions[w][s]
<1>1. x \in Object /\ x \in Live(s)
  BY DEF Held, Shape, Shelved, Live, Alive
<1>2. ASSUME NEW o \in Live(s) PROVE o = x
  <2>1. o \in Object /\ Alive(o) /\ heap[o].sid = s /\ o # None /\ o \in Referenced
    BY SessionStoreAssumption DEF Live, Alive, Held, Collected
  <2>2. CASE \E q \in Slot : o = job[q].ref
    <3>1. PICK q \in Slot : o = job[q].ref
      BY <2>2
    <3>2. pc[q] \in Holding
      BY <2>1, <3>1, NoJobTyped DEF Held, Shape, SlotOK, Holding
    <3>3. Serves(q, s)
      BY <2>1, <3>1, <3>2 DEF Serves, Held, SlotOK
    <3>4. Owns(q, s) /\ w = job[q].at
      BY <3>3 DEF Alone, Owns
    <3> QED
      BY <3>1, <3>2, <3>4 DEF Owns
  <2>3. CASE \E v \in Worker, t \in Session : o = sessions[v][t]
    <3>1. PICK v \in Worker, t \in Session : o = sessions[v][t]
      BY <2>3
    <3>2. t = s
      BY <2>1, <3>1 DEF Held, Shelved
    <3> QED
      BY <2>1, <3>1, <3>2 DEF Alone
  <2> QED
    BY <2>1, <2>2, <2>3, ReferencedAre
<1> QED
  BY <1>1, <1>2

LEMMA LiveNone ==
    ASSUME Held, NEW s \in Session, Alone(s), \A w \in Worker : sessions[w][s] = None
    PROVE  Live(s) = {}
<1>1. ASSUME NEW o \in Live(s) PROVE FALSE
  <2>1. o \in Object /\ Alive(o) /\ heap[o].sid = s /\ o # None /\ o \in Referenced
    BY <1>1, SessionStoreAssumption DEF Live, Alive, Held, Collected
  <2>2. CASE \E q \in Slot : o = job[q].ref
    <3>1. PICK q \in Slot : o = job[q].ref
      BY <2>2
    <3>2. pc[q] \in Holding
      BY <2>1, <3>1, NoJobTyped DEF Held, Shape, SlotOK, Holding
    <3>3. Serves(q, s) /\ job[q].at \in Worker
      BY <2>1, <3>1, <3>2 DEF Serves, Held, SlotOK, Holding, Pc
    <3> QED
      BY <2>1, <3>1, <3>2, <3>3 DEF Alone, Owns
  <2>3. CASE \E v \in Worker, t \in Session : o = sessions[v][t]
    BY <2>1, <2>3 DEF Held, Shelved
  <2> QED
    BY <2>1, <2>2, <2>3, ReferencedAre
<1> QED
  BY <1>1

(* The request that serves a conversation on the books holds its object.   *)
LEMMA ServedObject ==
    ASSUME Held, NEW s \in Session, Alone(s), NEW r \in Slot, Serves(r, s), pc[r] \in Holding
    PROVE  /\ Live(s) = {job[r].ref} /\ job[r].ref \in Object
           /\ job[r].at \in Worker /\ sessions[job[r].at][s] = job[r].ref
           /\ heap[job[r].ref] \in Fields /\ heap[job[r].ref] # None /\ heap[job[r].ref].sid = s
           /\ Current(s) = Part(heap[job[r].ref])
<1> DEFINE o == job[r].ref
<1>1. /\ job[r].at \in Worker /\ o \in Object /\ Alive(o) /\ heap[o].sid = s /\ o # None
      /\ sessions[job[r].at][s] = o
  BY SessionStoreAssumption DEF Held, SlotOK, Holding, Pc, Serves, Alone, Owns
<1>2. Live(s) = {o}
  BY <1>1, LiveIs
<1>3. Current(s) = Part(heap[o])
  <2>1. (CHOOSE x \in {o} : TRUE) = o
    OBVIOUS
  <2> QED
    BY <1>2, <2>1 DEF Current
<1> QED
  BY <1>1, <1>2, <1>3 DEF Alive, Held, Shape

-----------------------------------------------------------------------------
(* A step of one request is a step of its conversation only.               *)
Local(r, s) ==
    /\ Moved(r)
    /\ job[r].sid \in {s, None} /\ job'[r].sid \in {s, None}
    /\ \A w \in Worker, u \in Session \ {s} : sessions'[w][u] = sessions[w][u]
    /\ \A o \in Object : Alive(o) /\ heap[o].sid # s /\ o \in Referenced' => heap'[o] = heap[o]
    /\ \A o \in Object : heap'[o] # None /\ heap'[o].sid # s => Alive(o) /\ heap'[o] = heap[o]
    /\ \A u \in Session \ {s} : /\ rows'[u] = rows[u] /\ answered'[u] = answered[u]
                                /\ OnBooks(u)' <=> OnBooks(u)

LEMMA LocalLive ==
    ASSUME Held, NEW r \in Slot, NEW s \in Session, Local(r, s), NEW u \in Session \ {s}
    PROVE  /\ Live(u)' = Live(u) /\ \A o \in Live(u) : heap'[o] = heap[o]
           /\ \A q \in Slot : (job'[q].sid = u <=> job[q].sid = u)
                              /\ (job[q].sid = u => pc'[q] = pc[q] /\ job'[q] = job[q])
<1>1. \A q \in Slot \ {r} : pc'[q] = pc[q] /\ job'[q] = job[q]
  BY MovedOthers DEF Held, Local
<1>2. u # None
  BY SessionStoreAssumption
<1>3. \A q \in Slot : (job'[q].sid = u <=> job[q].sid = u)
                      /\ (job[q].sid = u => pc'[q] = pc[q] /\ job'[q] = job[q])
  BY <1>1, <1>2 DEF Local
<1>4. ASSUME NEW o \in Live(u) PROVE heap'[o] = heap[o] /\ o \in Object
  <2>1. o \in Object /\ Alive(o) /\ heap[o].sid = u /\ o # None /\ o \in Referenced
    BY <1>4, SessionStoreAssumption DEF Live, Alive, Held, Collected
  <2>2. CASE \E q \in Slot : o = job[q].ref
    <3>1. PICK q \in Slot : o = job[q].ref
      BY <2>2
    <3>2. pc[q] \in Holding
      BY <2>1, <3>1, NoJobTyped DEF Held, Shape, SlotOK, Holding
    <3>3. job[q].sid = u
      BY <2>1, <3>1, <3>2 DEF Held, SlotOK
    <3>4. o \in Referenced'
      BY <1>3, <3>1, <3>3, ReferencedArePrimed
    <3> QED
      BY <2>1, <3>4 DEF Local
  <2>3. CASE \E v \in Worker, t \in Session : o = sessions[v][t]
    <3>1. PICK v \in Worker, t \in Session : o = sessions[v][t]
      BY <2>3
    <3>2. t = u
      BY <2>1, <3>1 DEF Held, Shelved
    <3>3. o \in Referenced'
      BY <3>1, <3>2, ReferencedArePrimed DEF Local
    <3> QED
      BY <2>1, <3>3 DEF Local
  <2> QED
    BY <2>1, <2>2, <2>3, ReferencedAre
<1>5. \A o \in Live(u) : o \in Live(u)'
  BY <1>4 DEF Live
<1>6. ASSUME NEW o \in Live(u)' PROVE o \in Live(u)
  <2>1. o \in Object /\ heap'[o] # None /\ heap'[o].sid = u
    BY <1>6 DEF Live
  <2> QED
    BY <2>1 DEF Live, Local, Alive
<1> QED
  BY <1>3, <1>4, <1>5, <1>6

LEMMA LocalElse ==
    ASSUME Held, NEW r \in Slot, NEW s \in Session, Local(r, s), NEW u \in Session \ {s}
    PROVE  /\ Book'[u] = Book[u]
           /\ (OnBooks(u) => Alone(u)) => (OnBooks(u)' => Alone(u)')
<1>1. /\ Live(u)' = Live(u) /\ \A o \in Live(u) : heap'[o] = heap[o]
      /\ \A q \in Slot : (job'[q].sid = u <=> job[q].sid = u)
                         /\ (job[q].sid = u => pc'[q] = pc[q] /\ job'[q] = job[q])
  BY LocalLive
<1>2. /\ rows'[u] = rows[u] /\ answered'[u] = answered[u] /\ (OnBooks(u)' <=> OnBooks(u))
      /\ \A w \in Worker : sessions'[w][u] = sessions[w][u]
  BY DEF Local
<1>3. Entry(u)' = Entry(u)
  <2>1. Saved(u)' = Saved(u)
    BY <1>2 DEF Saved
  <2>2. Current(u)' = Current(u)
    <3> DEFINE o == CHOOSE o \in Live(u) : TRUE
    <3>1. (CHOOSE x \in Live(u)' : TRUE) = o
      BY <1>1
    <3>2. Live(u) # {} => o \in Live(u)
      OBVIOUS
    <3>3. CASE Live(u) = {}
      BY <1>1, <2>1, <3>3 DEF Current
    <3>4. CASE Live(u) # {}
      <4>1. heap'[o] = heap[o]
        BY <1>1, <3>2, <3>4
      <4>2. Current(u) = Part(heap[o])
        BY <3>4 DEF Current
      <4>3. Current(u)' = Part(heap'[o])
        BY <1>1, <3>1, <3>4 DEF Current
      <4> QED
        BY <4>1, <4>2, <4>3
    <3> QED
      BY <3>3, <3>4
  <2> QED
    BY <1>2, <2>1, <2>2 DEF Entry
<1>4. Book'[u] = Book[u]
  BY <1>2, <1>3, BookIs, BookIsPrimed
<1>5. ASSUME Alone(u) PROVE Alone(u)'
  <2>1. ASSUME NEW q \in Slot, Serves(q, u)' PROVE Owns(q, u)'
    <3>1. job[q].sid = u /\ pc'[q] = pc[q] /\ job'[q] = job[q] /\ Owns(q, u)
      BY <1>1, <1>5, <2>1 DEF Serves, Alone
    <3>2. pc[q] # "idle"
      BY <3>1, SessionStoreAssumption DEF Held, SlotOK, NoJob
    <3>3. job[q].at \in Worker
      BY <3>2 DEF Held, SlotOK
    <3>4. pc[q] = "write" => heap'[job[q].ref] = heap[job[q].ref]
      <4>1. pc[q] = "write" => job[q].ref \in Live(u)
        BY <3>1 DEF Held, SlotOK, Holding, Pc, Live, Alive
      <4> QED
        BY <1>1, <4>1
    <3> QED
      BY <1>2, <3>1, <3>3, <3>4 DEF Owns
  <2>2. Concluded(u)'
    <3>1. Concluded(u)
      BY <1>5 DEF Alone
    <3> QED
      BY <1>1, <1>2, <3>1 DEF Concluded, Serves
  <2>3. /\ \A p, q \in Slot : Serves(p, u)' /\ Serves(q, u)' => p = q
        /\ \A v, w \in Worker : sessions'[v][u] # None /\ sessions'[w][u] # None => v = w
    BY <1>1, <1>2, <1>5 DEF Alone, Serves
  <2> QED
    BY <2>1, <2>2, <2>3 DEF Alone
<1> QED
  BY <1>2, <1>4, <1>5

(* So it is a step of the abstract session if it is one of its own.        *)
LEMMA LocalBook ==
    ASSUME Held, NEW r \in Slot, NEW s \in Session, Local(r, s)
    PROVE  Book' = [Book EXCEPT ![s] = Book'[s]]
<1>1. \A u \in Session \ {s} : Book'[u] = Book[u]
  BY LocalElse
<1>2. Book = [u \in Session |-> Book[u]] /\ Book' = [u \in Session |-> Book'[u]]
  BY BookIs, BookIsPrimed
<1> QED
  BY <1>1, <1>2

LEMMA EditBook ==
    ASSUME Held, NEW r \in Slot, NEW s \in Session, Local(r, s), OnBooks(s), OnBooks(s)'
    PROVE  /\ Book[s] = Entry(s) /\ Book[s] # None
           /\ Book' = [Book EXCEPT ![s] = Entry(s)']
           /\ Entry(s)' = Entry(s) => UNCHANGED Book
<1>1. Book[s] = Entry(s) /\ Book'[s] = Entry(s)'
  BY BookIs, BookIsPrimed
<1>2. Book' = [Book EXCEPT ![s] = Entry(s)']
  BY <1>1, LocalBook
<1>3. Entry(s)' = Entry(s) => Book' = Book
  <2>1. Book = [u \in Session |-> Book[u]]
    BY BookIs
  <2> QED
    BY <1>1, <1>2, <2>1
<1> QED
  BY <1>1, <1>2, <1>3, EntryTyped DEF Held

LEMMA DropBook ==
    ASSUME Held, NEW r \in Slot, NEW s \in Session, Local(r, s), ~OnBooks(s)'
    PROVE  Register!Next
<1>1. Book'[s] = None
  BY BookIsPrimed
<1>2. Register!Drop(s)
  BY <1>1, LocalBook DEF Register!Drop
<1> QED
  BY <1>2 DEF Register!Next

(* A step of the request that serves the conversation, and what it does to *)
(* its object.                                                             *)
LEMMA OwnLive ==
    ASSUME Held, Held', NEW s \in Session, Alone(s), NEW r \in Slot, Serves(r, s),
           pc[r] \in Holding, UNCHANGED sessions, NoneNew
    PROVE  /\ Live(s)' = {job[r].ref} /\ heap'[job[r].ref] \in Fields
           /\ Current(s)' = Part(heap'[job[r].ref])
           /\ Collect(heap) => heap'[job[r].ref] = heap[job[r].ref]
<1> DEFINE o == job[r].ref
           w == job[r].at
<1>1. /\ Live(s) = {o} /\ o \in Object /\ w \in Worker /\ sessions[w][s] = o /\ o # None
      /\ heap[o] # None
  BY ServedObject, SessionStoreAssumption
<1>2. heap'[o] # None /\ heap'[o].sid = s /\ heap'[o] \in Fields /\ o \in Referenced'
  <2>1. sessions'[w][s] = o /\ sessions'[w][s] \in Referenced'
    BY <1>1, ReferencedArePrimed
  <2> QED
    BY <1>1, <2>1 DEF Held, Shape, Shelved, Alive
<1>3. Live(s)' = {o}
  <2>1. o \in Live(s)'
    BY <1>1, <1>2 DEF Live
  <2>2. ASSUME NEW x \in Live(s)' PROVE x \in Live(s)
    BY <2>2 DEF Live, NoneNew, Same, Alive
  <2> QED
    BY <1>1, <2>1, <2>2
<1>4. Current(s)' = Part(heap'[o])
  <2>1. (CHOOSE x \in {o} : TRUE) = o
    OBVIOUS
  <2> QED
    BY <1>3, <2>1 DEF Current
<1>5. Collect(heap) => heap'[o] = heap[o]
  BY <1>1, <1>2 DEF Collect
<1> QED
  BY <1>2, <1>3, <1>4, <1>5

LEMMA OwnStep ==
    ASSUME Held, Held', NEW s \in Session, Alone(s), NEW r \in Slot, Serves(r, s),
           Local(r, s), UNCHANGED sessions, Concluded(s)',
           \/ pc'[r] = "idle"
           \/ /\ pc[r] \in Holding /\ pc'[r] \in Holding
              /\ job'[r].at = job[r].at /\ job'[r].ref = job[r].ref /\ job'[r].sid = s
              /\ pc'[r] = "write" => job'[r].snap = heap'[job[r].ref]
    PROVE  Alone(s)'
<1>1. ASSUME NEW q \in Slot, Serves(q, s)' PROVE q = r /\ pc'[r] # "idle"
  <2>1. q = r
    BY <1>1, MovedOthers DEF Held, Local, Alone, Serves
  <2>2. pc'[r] # "idle"
    BY <1>1, <2>1, SessionStoreAssumption DEF Held, SlotOK, NoJob, Serves
  <2> QED
    BY <2>1, <2>2
<1>2. ASSUME NEW q \in Slot, Serves(q, s)' PROVE Owns(q, s)'
  BY <1>1, <1>2 DEF Alone, Owns, Holding
<1> QED
  BY <1>1, <1>2 DEF Alone

(* What is concluded stays so where neither the table nor the outcome of   *)
(* an object changes.                                                      *)
LEMMA ConcludedStays ==
    ASSUME NEW s \in Session, Alone(s), NEW r \in Slot, Serves(r, s), pc[r] # "publish",
           rows[s] = None => rows'[s] = None,
           rows[s] # None => rows'[s] # None /\ rows'[s].outcome = rows[s].outcome,
           \A o \in Live(s)' : o \in Live(s) /\ heap'[o].outcome = heap[o].outcome
    PROVE  Concluded(s)'
<1>1. Concluded(s) /\ \A q \in Slot : Serves(q, s) => q = r
  BY DEF Alone
<1> QED
  BY <1>1 DEF Concluded

(* The object of a request that works on it.                               *)
LEMMA AssignFrame ==
    ASSUME Held, NEW r \in Slot, pc[r] \in Holding,
           NEW field \in {"turns", "outcome"}, NEW value, Assign(r, field, value)
    PROVE  /\ heap'[job[r].ref] = [heap[job[r].ref] EXCEPT ![field] = value]
           /\ heap'[job[r].ref].sid = job[r].sid
           /\ \A q \in Object \ {job[r].ref} : heap'[q] = heap[q]
<1> DEFINE o == job[r].ref
           new == [heap[o] EXCEPT ![field] = value]
<1>1. o \in Object /\ Alive(o) /\ heap[o].sid = job[r].sid /\ heap[o] \in Fields
  BY DEF Held, Shape, SlotOK, Alive
<1>2. heap' = [heap EXCEPT ![o] = new]
  BY <1>1 DEF Assign, Held, Shape
<1>3. new.sid = heap[o].sid
  BY <1>1 DEF Fields
<1> HIDE DEF new
<1>4. heap'[o] = new /\ \A q \in Object \ {o} : heap'[q] = heap[q]
  BY <1>1, <1>2 DEF Held, Shape
<1> QED
  BY <1>1, <1>3, <1>4 DEF new

LEMMA WorkLocal ==
    ASSUME Held, NEW r \in Slot, Count(r) \/ Work(r) \/ Publish(r)
    PROVE  /\ Local(r, job[r].sid) /\ NoneNew /\ job[r].sid \in Session /\ pc[r] \in Holding
           /\ UNCHANGED <<job, sessions, rows, answered, unsaved, loose>>
           /\ pc'[r] \in Holding \ {"write"}
<1> DEFINE o == job[r].ref
           s == job[r].sid
<1>1. pc[r] \in {"found", "serve", "publish"}
  BY DEF Count, Work, Publish, At
<1>2. pc[r] \in Holding /\ SlotOK(r) /\ "serve" \in Pc /\ "save" \in Pc
  BY <1>1 DEF Held, Holding, Pc
<1>3. s \in Session /\ o \in Object /\ Alive(o) /\ heap[o].sid = s /\ heap[o] \in Fields
  BY <1>2 DEF SlotOK, Holding, Pc, Alive, Held, Shape
<1>4. /\ UNCHANGED <<job, sessions, rows, answered, unsaved, loose>>
      /\ \E p \in {"serve", "save"} : pc' = [pc EXCEPT ![r] = p]
  BY DEF Count, Work, Publish, Goto, tables, history
<1>5. PICK field \in {"turns", "outcome"} : \E value : Assign(r, field, value)
  BY DEF Count, Work, Publish
<1>6. PICK value : Assign(r, field, value)
  BY <1>5
<1>7. /\ heap'[o] = [heap[o] EXCEPT ![field] = value]
      /\ heap'[o].sid = s /\ \A q \in Object \ {o} : heap'[q] = heap[q]
  BY <1>2, <1>6, AssignFrame
<1>8. heap'[o].pin = heap[o].pin
  BY <1>3, <1>7 DEF Fields
<1>9. Moved(r)
  <2>1. job' = [job EXCEPT ![r] = job[r]] /\ job[r] \in Job
    BY <1>4 DEF Held, Shape
  <2> QED
    BY <1>2, <1>4, <2>1 DEF Moved
<1>10. NoneNew
  BY <1>3, <1>7, <1>8 DEF NoneNew, Same, Alive
<1>11. pc'[r] \in Holding \ {"write"}
  BY <1>4 DEF Held, Shape, Holding, Pc
<1>12. Local(r, s)
  BY <1>3, <1>4, <1>7, <1>9 DEF Local, Alive, OnBooks
<1> QED
  BY <1>2, <1>3, <1>4, <1>10, <1>11, <1>12

LEMMA WorkKept ==
    ASSUME Held, Held', NEW r \in Slot, Count(r) \/ Work(r) \/ Publish(r),
           NEW s \in Session, s = job[r].sid, OnBooks(s)', OnBooks(s), Alone(s)
    PROVE  Alone(s)' /\ (Register!Next \/ UNCHANGED Book)
<1> DEFINE o == job[r].ref
           new == heap'[o]
<1>1. /\ Local(r, s) /\ NoneNew /\ Serves(r, s) /\ pc[r] \in Holding
      /\ UNCHANGED <<job, sessions, rows, answered>>
      /\ pc'[r] \in Holding \ {"write"}
  BY WorkLocal DEF Serves
<1>2. /\ Live(s) = {o} /\ heap[o] \in Fields /\ Current(s) = Part(heap[o]) /\ heap[o].sid = s
  BY <1>1, ServedObject
<1>3. Live(s)' = {o} /\ new \in Fields /\ Current(s)' = Part(new)
  BY <1>1, OwnLive
<1>4. Saved(s)' = Saved(s)
  BY <1>1 DEF Saved
<1>5. /\ Entry(s) = [current |-> Part(heap[o]), saved |-> Saved(s), answered |-> answered[s]]
      /\ Entry(s)' = [current |-> Part(new), saved |-> Saved(s), answered |-> answered[s]]
  BY <1>1, <1>2, <1>3, <1>4 DEF Entry
<1>6. /\ Book[s] = Entry(s) /\ Book[s] # None /\ Book' = [Book EXCEPT ![s] = Entry(s)']
      /\ Entry(s)' = Entry(s) => UNCHANGED Book
  BY <1>1, EditBook
<1>7. /\ Count(r) => new = [heap[o] EXCEPT !.turns = heap[o].turns + 1]
      /\ Work(r) => \E x \in {heap[o].outcome, "released"} : new = [heap[o] EXCEPT !.outcome = x]
      /\ Publish(r) => new = [heap[o] EXCEPT !.outcome = "executed"]
  BY <1>1, AssignFrame DEF Count, Work, Publish
<1> HIDE DEF new
<1>8. Alone(s)'
  <2>1. Concluded(s)'
    <3>1. CASE Publish(r)
      <4>1. new.outcome = "executed"
        BY <1>2, <1>7, <3>1 DEF Fields
      <4> QED
        BY <1>3, <4>1 DEF Concluded, new
    <3>2. CASE Count(r)
      <4>1. new.outcome = heap[o].outcome /\ pc[r] # "publish"
        BY <1>2, <1>7, <3>2 DEF Fields, Count, At
      <4> QED
        BY <1>1, <1>2, <1>3, <4>1, ConcludedStays DEF new
    <3>3. CASE Work(r)
      <4>1. new.outcome \in {heap[o].outcome, "released"} /\ pc[r] # "publish"
        BY <1>2, <1>7, <3>3 DEF Fields, Work, At
      <4>2. CASE new.outcome = "released"
        BY <1>3, <4>2 DEF Concluded, new
      <4>3. CASE new.outcome = heap[o].outcome
        BY <1>1, <1>2, <1>3, <4>1, <4>3, ConcludedStays DEF new
      <4> QED
        BY <4>1, <4>2, <4>3
    <3> QED
      BY <3>1, <3>2, <3>3
  <2> QED
    BY <1>1, <2>1, OwnStep DEF Serves
<1>9. CASE Count(r)
  <2>1. Part(new) = [Part(heap[o]) EXCEPT !.turns = @ + 1]
    BY <1>2, <1>7, <1>9 DEF Part, Fields
  <2>2. Book' = [Book EXCEPT ![s].current.turns = @ + 1]
    <3>1. Entry(s)' = [Entry(s) EXCEPT !.current.turns = @ + 1]
      BY <1>5, <2>1
    <3> QED
      BY <1>6, <3>1
  <2>3. Register!Count(s)
    BY <1>6, <2>2 DEF Register!Count, Register!Kept
  <2> QED
    BY <1>8, <2>3 DEF Register!Next
<1>10. ASSUME NEW x \in Outcomes, new = [heap[o] EXCEPT !.outcome = x],
              x # "none" \/ x = heap[o].outcome
       PROVE  Register!Next \/ UNCHANGED Book
  <2>1. Part(new) = [Part(heap[o]) EXCEPT !.outcome = x]
    BY <1>2, <1>10 DEF Part, Fields
  <2>2. CASE x = heap[o].outcome
    <3>1. Part(new) = Part(heap[o])
      BY <2>1, <2>2 DEF Part
    <3> QED
      BY <1>5, <1>6, <3>1
  <2>3. CASE x # "none"
    <3>1. Book' = [Book EXCEPT ![s].current.outcome = x]
      <4>1. Entry(s)' = [Entry(s) EXCEPT !.current.outcome = x]
        BY <1>5, <2>1
      <4> QED
        BY <1>6, <4>1
    <3>2. Register!Conclude(s)
      BY <1>6, <2>3, <3>1 DEF Register!Conclude, Register!Kept
    <3> QED
      BY <3>2 DEF Register!Next
  <2> QED
    BY <1>10, <2>2, <2>3
<1>11. CASE Work(r) \/ Publish(r)
  <2>1. heap[o].outcome \in Outcomes
    BY <1>2 DEF Fields
  <2>2. \E x \in Outcomes : /\ new = [heap[o] EXCEPT !.outcome = x]
                            /\ x # "none" \/ x = heap[o].outcome
    BY <1>7, <1>11, <2>1 DEF Outcomes
  <2> QED
    BY <1>8, <1>10, <2>2
<1> QED
  BY <1>9, <1>11

LEMMA RowsElse ==
    ASSUME Held, NEW r \in Slot, job[r].sid \in Session,
           \/ UNCHANGED rows \/ Execute(r) \/ (pc[r] = "write" /\ Upsert(job[r].sid, job[r].snap))
    PROVE  \A u \in Session \ {job[r].sid} : rows'[u] = rows[u]
BY DEF Execute, Upsert, Held, Shape

LEMMA QuietLocal ==
    ASSUME Held, NEW r \in Slot, Commit(r) \/ RefundAgain(r) \/ Read(r)
    PROVE  /\ Local(r, job[r].sid) /\ NoneNew /\ job[r].sid \in Session /\ pc[r] \in Holding
           /\ UNCHANGED <<heap, sessions, answered, unsaved, loose>>
           /\ pc'[r] \in Holding /\ job'[r].at = job[r].at /\ job'[r].ref = job[r].ref
           /\ job'[r].sid = job[r].sid
           /\ pc'[r] = "write" => job'[r].snap = heap[job[r].ref]
           /\ Commit(r) \/ RefundAgain(r) => pc'[r] = "publish"
<1> DEFINE s == job[r].sid
           o == job[r].ref
<1>1. /\ pc[r] \in Holding \ {"write"} /\ SlotOK(r)
      /\ UNCHANGED <<heap, sessions, opened, answered, faults, unsaved, loose>>
  BY DEF Commit, Execute, RefundAgain, Read, At, Holding, Pc, Held, history
<1>2. s \in Session /\ heap[o] \in Fields /\ job[r] \in Job
  BY <1>1 DEF SlotOK, Held, Shape, Holding, Pc, Alive
<1>3. PICK j \in Job :
        /\ job' = [job EXCEPT ![r] = j]
        /\ j.at = job[r].at /\ j.sid = s /\ j.ref = o /\ (Read(r) => j.snap = heap[o])
  <2>1. CASE Read(r)
    <3> DEFINE j == [job[r] EXCEPT !.snap = heap[o]]
    <3>1. j \in Job /\ job' = [job EXCEPT ![r] = j]
      BY <1>2, <2>1 DEF Read, Job, Held, Shape
    <3> QED
      BY <1>2, <3>1 DEF Job
  <2>2. CASE ~Read(r)
    <3>1. job' = [job EXCEPT ![r] = job[r]]
      BY <2>2 DEF Commit, RefundAgain, Held, Shape
    <3> QED
      BY <1>2, <2>2, <3>1
  <2> QED
    BY <2>1, <2>2
<1>4. PICK p \in {"publish", "write"} :
        /\ pc' = [pc EXCEPT ![r] = p]
        /\ p = "write" => Read(r)
        /\ Commit(r) \/ RefundAgain(r) => p = "publish"
  BY DEF Commit, RefundAgain, Read, Goto
<1>5. Moved(r) /\ pc'[r] = p /\ job'[r] = j
  BY <1>3, <1>4 DEF Moved, Pc, Held, Shape
<1>6. NoneNew
  BY <1>1 DEF NoneNew, Same, Alive
<1>7. \A u \in Session \ {s} : rows'[u] = rows[u]
  <2>1. UNCHANGED rows \/ Execute(r)
    BY DEF Commit, RefundAgain, Read, tables
  <2> QED
    BY <1>2, <2>1, RowsElse
<1>8. Local(r, s)
  BY <1>1, <1>2, <1>3, <1>5, <1>7 DEF Local, Alive, OnBooks
<1> QED
  BY <1>1, <1>2, <1>3, <1>4, <1>5, <1>6, <1>8 DEF Holding, Pc

LEMMA QuietKept ==
    ASSUME Held, Held', NEW r \in Slot, Commit(r) \/ RefundAgain(r) \/ Read(r),
           NEW s \in Session, s = job[r].sid, OnBooks(s)', OnBooks(s), Alone(s)
    PROVE  Alone(s)' /\ (Register!Next \/ UNCHANGED Book)
<1> DEFINE o == job[r].ref
<1>1. /\ Local(r, s) /\ NoneNew /\ Serves(r, s) /\ pc[r] \in Holding
      /\ UNCHANGED <<heap, sessions, answered>>
      /\ pc'[r] \in Holding /\ job'[r].at = job[r].at /\ job'[r].ref = job[r].ref
      /\ job'[r].sid = s /\ (pc'[r] = "write" => job'[r].snap = heap[o])
      /\ (Commit(r) \/ RefundAgain(r) => pc'[r] = "publish")
  BY QuietLocal DEF Serves
<1>2. /\ Live(s) = {o} /\ Current(s) = Part(heap[o]) /\ Live(s)' = {o}
      /\ Current(s)' = Part(heap[o])
  BY <1>1, ServedObject, OwnLive
<1>3. Alone(s)'
  <2>1. Concluded(s)'
    <3>1. CASE Read(r)
      <4>1. pc[r] = "save" /\ UNCHANGED rows
        BY <3>1 DEF Read, At, tables
      <4> QED
        BY <1>1, <1>2, <4>1, ConcludedStays
    <3>2. CASE ~Read(r)
      BY <1>1, <3>2 DEF Concluded, Serves
    <3> QED
      BY <3>1, <3>2
  <2> QED
    BY <1>1, <2>1, OwnStep
<1>4. /\ Book[s] = Entry(s) /\ Book[s] # None /\ Book' = [Book EXCEPT ![s] = Entry(s)']
      /\ Entry(s)' = Entry(s) => UNCHANGED Book
  BY <1>1, EditBook
<1>5. CASE rows'[s] = rows[s]
  <2>1. Entry(s)' = Entry(s)
    BY <1>1, <1>2, <1>5 DEF Entry, Saved
  <2> QED
    BY <1>3, <1>4, <2>1
<1>6. CASE rows'[s] # rows[s]
  <2>1. rows[s] # None /\ rows' = [rows EXCEPT ![s].outcome = "executed"]
    BY <1>6 DEF Commit, Execute, RefundAgain, Read, tables
  <2>2. rows[s] \in Fields
    BY <2>1 DEF Held, Shape
  <2>3. rows'[s] = [rows[s] EXCEPT !.outcome = "executed"]
    BY <2>1 DEF Held, Shape
  <2>4. rows'[s] # None
    BY <1>6, <2>1, <2>2, <2>3, SessionStoreAssumption DEF Fields, Outcomes
  <2>5. Part(rows'[s]) = [Part(rows[s]) EXCEPT !.outcome = "executed"]
    BY <2>2, <2>3 DEF Part, Fields
  <2>6. Saved(s)' = [Saved(s) EXCEPT !.outcome = "executed"]
    BY <2>1, <2>4, <2>5 DEF Saved
  <2>7. Entry(s)' = [Entry(s) EXCEPT !.saved.outcome = "executed"]
    BY <1>1, <1>2, <2>6 DEF Entry
  <2>8. Book' = [Book EXCEPT ![s].saved.outcome = "executed"]
    BY <1>4, <2>7
  <2>9. Register!Record(s)
    BY <1>4, <2>8 DEF Register!Record, Register!Kept
  <2> QED
    BY <1>3, <2>9 DEF Register!Next
<1> QED
  BY <1>5, <1>6

LEMMA EndLocal ==
    ASSUME Held, NEW r \in Slot,
           \/ LoadMiss(r) \/ LoadFails(r) \/ Leave(r) \/ CommitUnacknowledged(r)
           \/ Write(r) \/ WriteFails(r) \/ Skip(r)
    PROVE  /\ Local(r, job[r].sid) /\ NoneNew /\ job[r].sid \in Session
           /\ UNCHANGED sessions /\ Collect(heap) /\ pc'[r] = "idle"
           /\ pc[r] # "publish"
           /\ unsaved \subseteq unsaved' /\ loose \subseteq loose'
<1> DEFINE s == job[r].sid
<1>1. Done(r) /\ s \in Session /\ pc[r] \notin {"idle", "publish"}
  BY DEF LoadMiss, LoadFails, Missed, Leave, CommitUnacknowledged, Execute, Write, WriteFails,
         Skip, Answer, At, Held, SlotOK
<1>2. Moved(r) /\ UNCHANGED sessions /\ NoneNew /\ Collect(heap)
  BY <1>1, DoneOK DEF Done
<1>3. pc'[r] = "idle" /\ job'[r] = NoJob
  BY <1>1 DEF Done, Goto, Held, Shape
<1>4. \A u \in Session \ {s} : rows'[u] = rows[u]
  <2>1. UNCHANGED rows \/ Execute(r) \/ (pc[r] = "write" /\ Upsert(s, job[r].snap))
    BY DEF LoadMiss, LoadFails, Missed, Leave, CommitUnacknowledged, Write, WriteFails, Skip,
           tables, At
  <2> QED
    BY <1>1, <2>1, RowsElse
<1>5. \A u \in Session \ {s} : answered'[u] = answered[u]
  BY DEF LoadMiss, LoadFails, Missed, Leave, CommitUnacknowledged, Write, WriteFails, Skip, Answer,
         Held, Shape
<1>6. /\ unsaved \subseteq unsaved' /\ loose \subseteq loose'
      /\ unsaved' \subseteq unsaved \cup {s} /\ loose' \subseteq loose \cup {s}
  BY DEF LoadMiss, LoadFails, Missed, Leave, CommitUnacknowledged, Write, WriteFails, Skip, history
<1>7. \A o \in Object : heap'[o] = IF o \in Referenced' THEN heap[o] ELSE None
  BY <1>2 DEF Collect
<1>8. Local(r, s)
  BY <1>2, <1>3, <1>4, <1>5, <1>6, <1>7 DEF Local, Alive, OnBooks, NoJob
<1> QED
  BY <1>1, <1>2, <1>3, <1>6, <1>8

(* The session is saved, and what the client is told is what was saved.    *)
LEMMA SaveKept ==
    ASSUME Held, Held', NEW r \in Slot, pc[r] = "write",
           NEW s \in Session, s = job[r].sid, OnBooks(s)', OnBooks(s), Alone(s), Local(r, s),
           NoneNew, UNCHANGED sessions, Collect(heap), pc'[r] = "idle",
           Upsert(s, job[r].snap), answered'[s] \in {answered[s], job[r].snap.turns}
    PROVE  Alone(s)' /\ Register!Next
<1> DEFINE o == job[r].ref
           snap == job[r].snap
<1>1. Serves(r, s) /\ pc[r] \in Holding /\ snap = heap[o]
  BY DEF Serves, Holding, Pc, Alone, Owns
<1>2. /\ Live(s) = {o} /\ Current(s) = Part(snap) /\ snap \in Fields
      /\ Live(s)' = {o} /\ Current(s)' = Part(snap) /\ heap'[o] = snap
  BY <1>1, ServedObject, OwnLive
<1>3. rows'[s] # None
  BY UpsertRows
<1>4. rows'[s].turns = snap.turns /\ rows'[s].outcome = snap.outcome
  <2>1. rows'[s] = snap \/ rows'[s] = [snap EXCEPT !.pin = rows[s].pin]
    BY DEF Upsert, Held, Shape
  <2> QED
    BY <1>2, <2>1 DEF Fields
<1>5. Saved(s)' = Part(snap)
  BY <1>3, <1>4 DEF Saved, Part
<1>6. Alone(s)'
  <2>1. Concluded(s)'
    BY <1>2, <1>4 DEF Concluded
  <2> QED
    BY <1>1, <2>1, OwnStep
<1>7. /\ Book[s] = Entry(s) /\ Book[s] # None /\ Book' = [Book EXCEPT ![s] = Entry(s)']
  BY EditBook
<1>8. Saved(s).outcome # "none" => Current(s).outcome # "none"
  <2>1. ASSUME rows[s] # None, rows[s].outcome # "none" PROVE heap[o].outcome # "none"
    <3>1. Concluded(s) /\ \A q \in Slot : Serves(q, s) => q = r
      BY <1>1 DEF Alone
    <3> QED
      BY <1>2, <2>1, <3>1 DEF Concluded
  <2> QED
    BY <1>1, <1>2, <2>1 DEF Saved, Part
<1>9. /\ Entry(s) = [current |-> Current(s), saved |-> Saved(s), answered |-> answered[s]]
      /\ Entry(s)' = [current |-> Current(s), saved |-> Current(s), answered |-> answered'[s]]
      /\ Current(s).turns = snap.turns
  BY <1>2, <1>5 DEF Entry, Part
<1>10. /\ Entry(s)' = [Entry(s) EXCEPT !.saved = Entry(s).current, !.answered = answered'[s]]
       /\ Entry(s).current = Current(s) /\ Entry(s).saved = Saved(s)
       /\ Entry(s).answered = answered[s]
  <2> DEFINE e == Entry(s)
             m == [e EXCEPT !.saved = e.current]
             e2 == Entry(s)'
  <2>1. e = [current |-> Current(s), saved |-> Saved(s), answered |-> answered[s]]
        /\ e2 = [current |-> Current(s), saved |-> Current(s), answered |-> answered'[s]]
    BY <1>9
  <2> HIDE DEF e, e2
  <2>2. e.current = Current(s) /\ e.saved = Saved(s) /\ e.answered = answered[s]
    BY <2>1
  <2>3. m = [current |-> Current(s), saved |-> Current(s), answered |-> answered[s]]
    BY <2>1, <2>2
  <2> HIDE DEF m
  <2>4. e2 = [m EXCEPT !.answered = answered'[s]]
    BY <2>1, <2>3
  <2> QED
    BY <2>2, <2>4 DEF e, e2, m
<1>11. Book' = [Book EXCEPT ![s].saved = Book[s].current, ![s].answered = answered'[s]]
  BY <1>7, <1>10
<1>12. Register!Save(s)
  <2>1. Register!Kept(s)
    BY <1>7 DEF Register!Kept
  <2>2. Book[s].saved.outcome # "none" => Book[s].current.outcome # "none"
    BY <1>7, <1>8, <1>10
  <2>3. answered'[s] \in {Book[s].answered, Book[s].current.turns}
    BY <1>7, <1>9, <1>10
  <2> QED
    BY <1>11, <2>1, <2>2, <2>3 DEF Register!Save
<1> QED
  BY <1>6, <1>12 DEF Register!Next

LEMMA EndKept ==
    ASSUME Held, Held', NEW r \in Slot,
           \/ LoadMiss(r) \/ LoadFails(r) \/ Leave(r) \/ CommitUnacknowledged(r)
           \/ Write(r) \/ WriteFails(r) \/ Skip(r),
           NEW s \in Session, s = job[r].sid, OnBooks(s)', OnBooks(s), Alone(s)
    PROVE  Alone(s)' /\ (Register!Next \/ UNCHANGED Book)
<1> DEFINE o == job[r].ref
<1>1. /\ Local(r, s) /\ NoneNew /\ Serves(r, s)
      /\ UNCHANGED sessions /\ Collect(heap) /\ pc'[r] = "idle" /\ pc[r] # "publish"
  BY EndLocal DEF Serves
<1>2. ~CommitUnacknowledged(r) /\ ~Skip(r)
  BY DEF CommitUnacknowledged, Skip, OnBooks
<1>3. ASSUME UNCHANGED <<rows, answered>> PROVE Alone(s)' /\ UNCHANGED Book
  <2>1. Live(s)' = Live(s) /\ Current(s)' = Current(s) /\ \A x \in Live(s) : heap'[x] = heap[x]
    <3>1. CASE pc[r] \in Holding
      BY <1>1, <3>1, ServedObject, OwnLive
    <3>2. CASE pc[r] \notin Holding
      <4>1. pc[r] # "idle"
        BY <1>1, SessionStoreAssumption DEF Serves, Held, SlotOK, NoJob
      <4>2. pc[r] = "load" /\ job[r].at \in Worker
        BY <3>2, <4>1 DEF Holding, Held, Shape, SlotOK
      <4>3. \A w \in Worker : sessions[w][s] = None
        BY <1>1, <4>2 DEF Alone, Owns
      <4>4. Live(s) = {}
        BY <4>3, LiveNone
      <4>5. Live(s)' = {}
        BY <1>1, <4>4 DEF NoneNew, Same, Alive, Live
      <4> QED
        BY <1>3, <4>4, <4>5 DEF Current, Saved
    <3> QED
      BY <3>1, <3>2
  <2>2. Concluded(s)'
    BY <1>1, <1>3, <2>1, ConcludedStays
  <2>3. Alone(s)'
    BY <1>1, <2>2, OwnStep
  <2>4. Entry(s)' = Entry(s)
    BY <1>3, <2>1 DEF Entry, Saved
  <2> QED
    BY <1>1, <2>3, <2>4, EditBook
<1>4. CASE LoadMiss(r) \/ LoadFails(r) \/ Leave(r)
  BY <1>3, <1>4 DEF LoadMiss, LoadFails, Missed, Leave, tables
<1>5. CASE Write(r)
  <2>1. /\ pc[r] = "write" /\ Upsert(s, job[r].snap)
        /\ answered'[s] \in {answered[s], job[r].snap.turns}
    BY <1>5 DEF Write, Answer, At, Held, Shape
  <2> QED
    BY <1>1, <2>1, SaveKept
<1>6. CASE WriteFails(r)
  <2>1. pc[r] = "write" /\ UNCHANGED answered /\ (UNCHANGED rows \/ Upsert(s, job[r].snap))
    BY <1>6 DEF WriteFails, At
  <2> QED
    BY <1>1, <1>3, <2>1, SaveKept
<1> QED
  BY <1>2, <1>4, <1>5, <1>6

(* A new object has what the table says of its conversation.               *)
LEMMA AdoptKept ==
    ASSUME Held, Held', NEW r \in Slot, NEW w \in Worker, NEW s \in Session,
           NEW kind \in {"turn", "accept"}, NEW fields \in Fields,
           Adopt(r, w, kind, s, fields), job[r].ref = None, job[r].sid \in {s, None},
           fields.sid = s, UNCHANGED <<rows, answered, unsaved, loose>>
    PROVE  /\ Local(r, s)
           /\ OnBooks(s) /\ Saved(s) = Part(fields) /\ Live(s) = {}
                 /\ (\A q \in Slot : Serves(q, s) => q = r)
                 /\ (\A v \in Worker : sessions[v][s] = None)
              => Alone(s)' /\ UNCHANGED Book
<1>0. Adopted(r, w, kind, s, fields)
  BY AdoptFrame
<1>1. /\ Free \in Object /\ ~Alive(Free) /\ Free # None
      /\ Moved(r) /\ pc'[r] = "found"
      /\ job'[r].at = w /\ job'[r].sid = s /\ job'[r].ref = Free
  BY <1>0 DEF Adopted
<1>2. \A v \in Worker, u \in Session :
          sessions'[v][u] = IF v = w /\ u = s THEN Free ELSE sessions[v][u]
  BY <1>0 DEF Adopted
<1>3. \A o \in Object :
          heap'[o] = IF o = Free THEN fields ELSE IF o \in Referenced' THEN heap[o] ELSE None
  BY <1>0 DEF Adopted
<1>4. fields # None
  BY SessionStoreAssumption
<1>5. Local(r, s)
  BY <1>1, <1>2, <1>3 DEF Local, Alive, OnBooks
<1>6. ASSUME OnBooks(s), Saved(s) = Part(fields), Live(s) = {},
             \A q \in Slot : Serves(q, s) => q = r, \A v \in Worker : sessions[v][s] = None
      PROVE  Alone(s)' /\ UNCHANGED Book
  <2>1. \A q \in Slot : Serves(q, s)' => q = r
    BY <1>1, <1>6, MovedOthers DEF Held, Serves
  <2>2. Live(s)' = {Free}
    <3>1. ASSUME NEW o \in Live(s)' PROVE o = Free
      <4>1. o \in Object /\ heap'[o] # None /\ heap'[o].sid = s
        BY <3>1 DEF Live
      <4> QED
        BY <1>3, <1>6, <4>1 DEF Live
    <3>2. Free \in Live(s)'
      BY <1>1, <1>3, <1>4 DEF Live
    <3> QED
      BY <3>1, <3>2
  <2>3. heap'[Free] = fields
    BY <1>1, <1>3
  <2>4. Owns(r, s)'
    BY <1>1, <1>2, <1>6 DEF Owns
  <2>5. Concluded(s)'
    <3>1. rows[s] # None => rows[s].outcome = fields.outcome
      BY <1>6 DEF Saved, Part
    <3> QED
      BY <2>2, <2>3, <3>1 DEF Concluded
  <2>6. Alone(s)'
    BY <1>2, <1>6, <2>1, <2>4, <2>5 DEF Alone
  <2>7. Current(s) = Saved(s) /\ Saved(s)' = Saved(s)
    BY <1>6 DEF Current, Saved
  <2>8. Current(s)' = Part(fields)
    <3>1. (CHOOSE x \in {Free} : TRUE) = Free
      OBVIOUS
    <3> QED
      BY <2>2, <2>3, <3>1 DEF Current
  <2>9. Entry(s)' = Entry(s)
    BY <1>6, <2>7, <2>8 DEF Entry
  <2>10. OnBooks(s)'
    BY <1>6 DEF OnBooks
  <2> QED
    BY <1>5, <1>6, <2>6, <2>9, <2>10, EditBook
<1> QED
  BY <1>5, <1>6

(* What is left of Solitude is what a request that reads its session is    *)
(* looking for.                                                            *)
LEMMA LocalSolitude ==
    ASSUME Held, Solitude, NEW r \in Slot, NEW s \in Session, Local(r, s),
           OnBooks(s)' => Alone(s)', pc'[r] = "load" => job'[r].sid = s /\ answered'[s] > 0,
           answered[s] <= answered'[s], answered'[s] \in Nat
    PROVE  Solitude'
<1>1. ASSUME NEW u \in Session, OnBooks(u)' PROVE Alone(u)'
  BY <1>1, LocalElse DEF Solitude, Local
<1>2. ASSUME NEW q \in Slot, pc'[q] = "load" PROVE answered'[job'[q].sid] > 0
  <2>1. CASE q = r
    BY <1>2, <2>1
  <2>2. CASE q # r
    <3>1. pc[q] = "load" /\ job'[q] = job[q]
      BY <1>2, <2>2, MovedOthers DEF Held, Local
    <3>2. job[q].sid \in Session /\ answered[job[q].sid] > 0
      BY <3>1 DEF Held, SlotOK, Solitude
    <3>3. answered[s] \in Nat
      BY DEF Held, Shape
    <3> QED
      BY <3>1, <3>2, <3>3 DEF Local
  <2> QED
    BY <2>1, <2>2
<1> QED
  BY <1>1, <1>2 DEF Solitude

LEMMA OpenKept ==
    ASSUME Held, Held', Solitude, NEW r \in Slot, NEW w \in Worker, Open(r, w)
    PROVE  Solitude' /\ (Register!Next \/ UNCHANGED Book)
<1>1. PICK s \in Session, p \in Pin :
         /\ Unused(s)
         /\ Adopt(r, w, "turn", s, [sid |-> s, pin |-> p, turns |-> 0, outcome |-> "none"])
  BY DEF Open
<1> DEFINE new == [sid |-> s, pin |-> p, turns |-> 0, outcome |-> "none"]
<1>2. /\ new \in Fields /\ new.sid = s
      /\ Part(new) = [turns |-> 0, outcome |-> "none"]
  BY SessionStoreAssumption DEF Fields, Outcomes, Part
<1>3. job[r] = NoJob /\ job[r].ref = None /\ job[r].sid = None
  BY DEF Open, At, Held, SlotOK, NoJob
<1>4. rows[s] = None /\ Live(s) = {} /\ answered[s] = 0
  BY <1>1 DEF Unused, Live
<1>5. UNCHANGED <<rows, answered, unsaved, loose>>
  BY DEF Open, tables, history
<1>6. Saved(s) = Part(new)
  BY <1>2, <1>4 DEF Saved
<1> HIDE DEF new
<1>7. Adopt(r, w, "turn", s, new)
  BY <1>1 DEF new
<1>8. \A q \in Slot : ~Serves(q, s)
  <2>1. ASSUME NEW q \in Slot, job[q].sid = s PROVE FALSE
    <3>1. pc[q] # "idle"
      BY <2>1, SessionStoreAssumption DEF Held, SlotOK, NoJob
    <3>2. pc[q] # "load"
      BY <1>4, <2>1 DEF Solitude
    <3>3. job[q].ref \in Live(s)
      BY <2>1, <3>1, <3>2 DEF Held, Shape, SlotOK, Holding, Live, Alive
    <3> QED
      BY <1>4, <3>3
  <2> QED
    BY <2>1 DEF Serves
<1>9. \A v \in Worker : sessions[v][s] = None
  <2>1. ASSUME NEW v \in Worker, sessions[v][s] # None PROVE FALSE
    <3>1. sessions[v][s] \in Live(s)
      BY <2>1 DEF Held, Shape, Shelved, Live, Alive
    <3> QED
      BY <1>4, <3>1
  <2> QED
    BY <2>1
<1>10. Local(r, s) /\ (OnBooks(s) => Alone(s)' /\ UNCHANGED Book)
  BY <1>2, <1>3, <1>4, <1>5, <1>6, <1>7, <1>8, <1>9, AdoptKept
<1>11. OnBooks(s)' <=> OnBooks(s)
  BY <1>5 DEF OnBooks
<1>12. pc'[r] # "load"
  BY <1>2, <1>3, <1>7, AdoptFrame DEF Adopted
<1>13. Solitude'
  BY <1>4, <1>5, <1>10, <1>11, <1>12, LocalSolitude
<1>14. Register!Next \/ UNCHANGED Book
  BY <1>10, <1>11, DropBook
<1> QED
  BY <1>13, <1>14

LEMMA LoadKept ==
    ASSUME Held, Held', NEW r \in Slot, LoadHit(r), NEW s \in Session, s = job[r].sid
    PROVE  /\ Local(r, s) /\ pc'[r] = "found" /\ UNCHANGED <<answered, unsaved, loose>>
           /\ OnBooks(s) /\ Alone(s) => Alone(s)' /\ UNCHANGED Book
<1>1. /\ pc[r] = "load" /\ rows[s] # None /\ Adopt(r, job[r].at, job[r].kind, s, rows[s])
      /\ UNCHANGED <<rows, answered, unsaved, loose>>
  BY DEF LoadHit, At, tables, history
<1>2. /\ job[r].at \in Worker /\ job[r].kind \in {"turn", "accept"} /\ job[r].ref = None
  BY <1>1 DEF Held, Shape, SlotOK, Job
<1>3. rows[s] \in Fields /\ rows[s].sid = s /\ Saved(s) = Part(rows[s])
  BY <1>1 DEF Held, Shape, Saved
<1>4. ASSUME Alone(s)
      PROVE  /\ Live(s) = {} /\ \A v \in Worker : sessions[v][s] = None
             /\ \A q \in Slot : Serves(q, s) => q = r
  <2>1. Serves(r, s)
    BY DEF Serves
  <2>2. \A v \in Worker : sessions[v][s] = None
    BY <1>1, <1>4, <2>1 DEF Alone, Owns
  <2>3. Live(s) = {}
    BY <1>4, <2>2, LiveNone
  <2> QED
    BY <1>4, <2>1, <2>2, <2>3 DEF Alone
<1>5. /\ Local(r, s)
      /\ OnBooks(s) /\ Alone(s) => Alone(s)' /\ UNCHANGED Book
  <2> DEFINE w == job[r].at
             kind == job[r].kind
             fields == rows[s]
  <2> HIDE DEF w, kind, fields
  <2>1. /\ w \in Worker /\ kind \in {"turn", "accept"} /\ fields \in Fields
        /\ Adopt(r, w, kind, s, fields) /\ fields.sid = s /\ Saved(s) = Part(fields)
    BY <1>1, <1>2, <1>3 DEF w, kind, fields
  <2> QED
    BY <1>1, <1>2, <1>4, <2>1, AdoptKept
<1>6. pc'[r] = "found"
  BY <1>1 DEF Adopt, Goto, Held, Shape
<1> QED
  BY <1>1, <1>5, <1>6

LEMMA ArriveKept ==
    ASSUME Held, Held', Solitude, NEW r \in Slot, NEW w \in Worker,
           NEW s \in Session, NEW kind \in {"turn", "accept"}, Arrive(r, w, kind, s)
    PROVE  Solitude' /\ (Register!Next \/ UNCHANGED Book)
<1> DEFINE j == [at |-> w, kind |-> kind, sid |-> s, ref |-> sessions[w][s], snap |-> None]
           p == IF sessions[w][s] = None THEN "load" ELSE "found"
<1>1. /\ pc[r] = "idle" /\ answered[s] > 0
      /\ job' = [job EXCEPT ![r] = j] /\ pc' = [pc EXCEPT ![r] = p]
      /\ loose' = IF InService(s) \/ HeldElsewhere(w, s) THEN loose \cup {s} ELSE loose
      /\ UNCHANGED <<heap, sessions, rows, answered, unsaved>>
  BY DEF Arrive, At, Goto, tables
<1>2. j \in Job /\ p \in Pc
  BY DEF Job, Pc, Held, Shape
<1>3. Moved(r) /\ pc'[r] = p /\ job'[r] = j
  BY <1>1, <1>2 DEF Moved, Held, Shape
<1>4. job[r].sid = None
  BY <1>1 DEF Held, SlotOK, NoJob
<1>5. Local(r, s)
  BY <1>1, <1>3, <1>4 DEF Local, Alive, OnBooks
<1>6. ASSUME OnBooks(s)' PROVE Alone(s)' /\ UNCHANGED Book
  <2>1. ~InService(s) /\ ~HeldElsewhere(w, s) /\ OnBooks(s)
    BY <1>1, <1>6 DEF OnBooks
  <2>2. \A q \in Slot : Serves(q, s)' => q = r
    BY <1>5, <2>1, MovedOthers DEF InService, Serves, Local, Held
  <2>3. \A v \in Worker : sessions[v][s] # None => v = w
    BY <2>1 DEF HeldElsewhere
  <2>4. Owns(r, s)'
    BY <1>1, <1>3, <2>3 DEF Owns, Holding, Pc
  <2>5. /\ Live(s)' = Live(s) /\ Entry(s)' = Entry(s)
    BY <1>1 DEF Live, Entry, Current, Saved
  <2>6. Concluded(s)'
    <3>1. Concluded(s) /\ \A q \in Slot : ~Serves(q, s)
      BY <2>1 DEF Solitude, Alone, InService, Serves
    <3> QED
      BY <1>1, <2>5, <3>1 DEF Concluded
  <2>7. Alone(s)'
    BY <1>1, <2>2, <2>3, <2>4, <2>6 DEF Alone
  <2> QED
    BY <1>5, <1>6, <2>1, <2>5, <2>7, EditBook
<1>7. answered[s] \in Nat
  BY DEF Held, Shape
<1>8. Solitude'
  BY <1>1, <1>3, <1>5, <1>6, <1>7, LocalSolitude
<1>9. Register!Next \/ UNCHANGED Book
  BY <1>5, <1>6, DropBook
<1> QED
  BY <1>8, <1>9

LEMMA StepKept ==
    ASSUME Held, Held', Solitude, NEW r \in Slot, Step(r), NEW s \in Session, s = job[r].sid
    PROVE  Solitude' /\ (Register!Next \/ UNCHANGED Book)
<1> DEFINE End == \/ LoadMiss(r) \/ LoadFails(r) \/ Leave(r) \/ CommitUnacknowledged(r)
                  \/ Write(r) \/ WriteFails(r) \/ Skip(r)
           Quiet == Commit(r) \/ RefundAgain(r) \/ Read(r)
           Working == Count(r) \/ Work(r) \/ Publish(r)
<1>1. End \/ Quiet \/ Working \/ LoadHit(r)
  BY DEF Step
<1>2. /\ Local(r, s) /\ pc'[r] # "load"
      /\ unsaved \subseteq unsaved' /\ loose \subseteq loose'
  <2>1. CASE End
    BY <2>1, EndLocal
  <2>2. CASE Quiet
    BY <2>2, QuietLocal DEF Holding
  <2>3. CASE Working
    BY <2>3, WorkLocal DEF Holding
  <2>4. CASE LoadHit(r)
    BY <2>4, LoadKept
  <2> QED
    BY <1>1, <2>1, <2>2, <2>3, <2>4
<1>3. answered[s] <= answered'[s] /\ answered[s] \in Nat /\ answered'[s] \in Nat
  <2>1. answered[s] \in Nat /\ answered'[s] \in Nat
    BY <1>2 DEF Held, Shape
  <2>2. CASE UNCHANGED answered
    BY <2>1, <2>2
  <2>3. ASSUME NEW n, Answer(r, n) PROVE answered[s] <= answered'[s]
    <3>1. answered'[s] = IF answered[s] > n THEN answered[s] ELSE n
      BY <2>3 DEF Answer, Held, Shape
    <3> QED
      BY <2>1, <3>1
  <2>4. UNCHANGED answered \/ \E n : Answer(r, n)
    BY DEF Step, LoadHit, LoadMiss, LoadFails, Missed, Count, Work, Leave, Commit,
           CommitUnacknowledged, RefundAgain, Publish, Read, Write, WriteFails, Skip
  <2> QED
    BY <2>1, <2>2, <2>3, <2>4
<1>4. ASSUME OnBooks(s)' PROVE Alone(s)' /\ (Register!Next \/ UNCHANGED Book)
  <2>1. OnBooks(s) /\ Alone(s)
    BY <1>2, <1>4 DEF OnBooks, Solitude
  <2>2. CASE End
    BY <1>4, <2>1, <2>2, EndKept
  <2>3. CASE Quiet
    BY <1>4, <2>1, <2>3, QuietKept
  <2>4. CASE Working
    BY <1>4, <2>1, <2>4, WorkKept
  <2>5. CASE LoadHit(r)
    BY <2>1, <2>5, LoadKept
  <2> QED
    BY <1>1, <2>2, <2>3, <2>4, <2>5
<1>5. Solitude'
  BY <1>2, <1>3, <1>4, LocalSolitude
<1>6. Register!Next \/ UNCHANGED Book
  BY <1>2, <1>4, DropBook
<1> QED
  BY <1>5, <1>6

LEMMA StillKept ==
    ASSUME Solitude, UNCHANGED <<pc, job, heap, sessions, rows, answered, unsaved, loose>>
    PROVE  Solitude' /\ UNCHANGED Book
<1>1. ASSUME NEW s \in Session PROVE Live(s)' = Live(s) /\ (OnBooks(s)' <=> OnBooks(s))
  BY DEF Live, OnBooks
<1>2. ASSUME NEW s \in Session, Alone(s) PROVE Alone(s)'
  <2>1. Concluded(s)'
    BY <1>1, <1>2 DEF Alone, Concluded, Serves
  <2> QED
    BY <1>2, <2>1 DEF Alone, Owns, Serves
<1>3. Solitude'
  BY <1>1, <1>2 DEF Solitude
<1>4. ASSUME NEW s \in Session PROVE Entry(s)' = Entry(s)
  BY <1>1 DEF Entry, Current, Saved
<1> QED
  BY <1>1, <1>3, <1>4, BookIs, BookIsPrimed

(* When a worker dies, its conversations go on from the table.             *)
LEMMA CrashAlone ==
    ASSUME Held, Held', NEW w \in Worker, Crash(w), NEW s \in Session, Alone(s)
    PROVE  /\ Alone(s)' /\ Saved(s)' = Saved(s)
           /\ Live(s)' # {} => Current(s)' = Current(s)
<1>1. /\ \A q \in Slot : IF job[q].at = w THEN pc'[q] = "idle" /\ job'[q] = NoJob
                         ELSE pc'[q] = pc[q] /\ job'[q] = job[q]
      /\ \A v \in Worker : sessions'[v][s] = IF v = w THEN None ELSE sessions[v][s]
      /\ Collect(heap) /\ UNCHANGED rows
  BY DEF Crash, tables, Held, Shape
<1>2. /\ \A v \in Worker, u \in Session : sessions'[v][u] # None => sessions'[v][u] = sessions[v][u]
      /\ \A o \in Object : heap'[o] = IF o \in Referenced' THEN heap[o] ELSE None
  BY <1>1 DEF Crash, Held, Shape, Collect
<1>3. ASSUME NEW q \in Slot, Serves(q, s)'
      PROVE  /\ job[q].at # w /\ job[q].at \in Worker /\ pc'[q] = pc[q] /\ job'[q] = job[q]
             /\ Serves(q, s) /\ Owns(q, s)
  <2>1. job[q].at # w /\ pc'[q] = pc[q] /\ job'[q] = job[q]
    BY <1>1, <1>3, SessionStoreAssumption DEF Serves, NoJob
  <2>2. Serves(q, s) /\ Owns(q, s)
    BY <1>3, <2>1 DEF Serves, Alone
  <2>3. job[q].at \in Worker
    BY <2>2, SessionStoreAssumption DEF Serves, Held, SlotOK, NoJob
  <2> QED
    BY <2>1, <2>2, <2>3
<1>4. CASE \E v \in Worker \ {w} : sessions[v][s] # None
  <2>1. PICK v \in Worker \ {w} : sessions[v][s] # None
    BY <1>4
  <2> DEFINE o == sessions[v][s]
  <2>2. Live(s) = {o} /\ o \in Object
    BY <2>1, LiveIs DEF Held, Shape
  <2>3. o \in Referenced' /\ heap'[o] = heap[o]
    BY <1>1, <1>2, <2>1, <2>2, ReferencedArePrimed
  <2>4. Live(s)' = {o}
    <3>1. \A x \in Live(s)' : x \in Live(s)
      BY <1>2 DEF Live
    <3>2. o \in Live(s)'
      BY <2>2, <2>3 DEF Live
    <3> QED
      BY <2>2, <3>1, <3>2
  <2>5. Current(s)' = Current(s)
    <3>1. (CHOOSE x \in {o} : TRUE) = o
      OBVIOUS
    <3> QED
      BY <2>2, <2>3, <2>4, <3>1 DEF Current
  <2>6. Concluded(s)'
    <3>1. Concluded(s)
      BY DEF Alone
    <3>2. ASSUME NEW q \in Slot, Serves(q, s) PROVE Serves(q, s)' /\ pc'[q] = pc[q]
      <4>1. v = job[q].at
        BY <2>1, <3>2 DEF Alone, Owns
      <4> QED
        BY <1>1, <2>1, <3>2, <4>1 DEF Serves
    <3> QED
      BY <1>1, <2>2, <2>3, <2>4, <3>1, <3>2 DEF Concluded
  <2>7. ASSUME NEW q \in Slot, Serves(q, s)' PROVE Owns(q, s)'
    <3>1. pc[q] = "write" => job[q].ref = o
      BY <1>3, <2>1, <2>7 DEF Owns, Holding, Pc
    <3> QED
      BY <1>1, <1>3, <2>3, <2>7, <3>1 DEF Owns
  <2>8. Alone(s)'
    BY <1>1, <1>3, <2>6, <2>7 DEF Alone
  <2> QED
    BY <1>1, <2>5, <2>8 DEF Saved
<1>5. CASE \A v \in Worker \ {w} : sessions[v][s] = None
  <2>1. \A v \in Worker : sessions'[v][s] = None
    BY <1>1, <1>5
  <2>2. ASSUME NEW q \in Slot, Serves(q, s)' PROVE pc'[q] \notin Holding /\ Owns(q, s)'
    <3>1. pc[q] \notin Holding
      <4>1. sessions[job[q].at][s] = None
        BY <1>3, <1>5, <2>2
      <4>2. pc[q] \in Holding => job[q].ref = None /\ job[q].ref \in Object
        BY <1>3, <2>2, <4>1 DEF Owns, Held, SlotOK
      <4> QED
        BY <4>2, SessionStoreAssumption
    <3> QED
      BY <1>3, <2>1, <2>2, <3>1 DEF Owns, Holding, Pc
  <2>3. ASSUME NEW o \in Live(s)' PROVE FALSE
    <3>1. o \in Object /\ o # None /\ heap'[o] # None /\ heap'[o].sid = s /\ o \in Referenced'
          /\ heap'[o] = heap[o]
      BY <1>2, <2>3, SessionStoreAssumption DEF Live
    <3>2. CASE \E q \in Slot : o = job'[q].ref
      <4>1. PICK q \in Slot : o = job'[q].ref
        BY <3>2
      <4>2. pc'[q] \in Holding
        BY <3>1, <4>1, NoJobTyped DEF Held, Shape, SlotOK, Holding
      <4>3. Serves(q, s)'
        BY <3>1, <4>1, <4>2 DEF Serves, Held, SlotOK
      <4> QED
        BY <2>2, <4>2, <4>3
    <3>3. CASE \E v \in Worker, t \in Session : o = sessions'[v][t]
      <4>1. PICK v \in Worker, t \in Session : o = sessions'[v][t]
        BY <3>3
      <4>2. t = s
        BY <3>1, <4>1 DEF Held, Shelved
      <4> QED
        BY <2>1, <3>1, <4>1, <4>2
    <3> QED
      BY <3>1, <3>2, <3>3, ReferencedArePrimed
  <2>4. Live(s)' = {}
    BY <2>3
  <2>5. Alone(s)'
    BY <1>3, <2>1, <2>2, <2>4 DEF Alone, Concluded
  <2> QED
    BY <1>1, <2>4, <2>5 DEF Saved
<1> QED
  BY <1>4, <1>5

LEMMA CrashKept ==
    ASSUME Held, Held', Solitude, NEW w \in Worker, Crash(w)
    PROVE  Solitude' /\ Register!Next
<1> DEFINE S == {s \in Session : Live(s)' = {}}
<1>1. UNCHANGED <<answered, unsaved, loose>>
  BY DEF Crash, history
<1>2. ASSUME NEW s \in Session PROVE OnBooks(s)' <=> OnBooks(s)
  BY <1>1 DEF OnBooks
<1>3. Solitude'
  <2>1. ASSUME NEW q \in Slot, pc'[q] = "load" PROVE pc[q] = "load" /\ job'[q] = job[q]
    BY <2>1 DEF Crash, Held, Shape
  <2> QED
    BY <1>1, <1>2, <2>1, CrashAlone DEF Solitude
<1>4. ASSUME NEW s \in Session
      PROVE  Book'[s] = IF s \in S /\ Book[s] # None
                        THEN [Book[s] EXCEPT !.current = Book[s].saved] ELSE Book[s]
  <2>1. /\ Book[s] = IF OnBooks(s) THEN Entry(s) ELSE None
        /\ Book'[s] = IF OnBooks(s) THEN Entry(s)' ELSE None
    BY <1>2, BookIs, BookIsPrimed
  <2>2. CASE ~OnBooks(s)
    BY <2>1, <2>2
  <2>3. CASE OnBooks(s)
    <3>1. /\ Saved(s)' = Saved(s) /\ answered'[s] = answered[s]
          /\ Live(s)' # {} => Current(s)' = Current(s)
      BY <1>1, <2>3, CrashAlone DEF Solitude
    <3>2. Entry(s) # None
      BY EntryTyped DEF Held
    <3>3. CASE s \in S
      <4>1. Current(s)' = Saved(s)
        BY <3>1, <3>3 DEF Current
      <4>2. Entry(s)' = [Entry(s) EXCEPT !.current = Entry(s).saved]
        BY <3>1, <4>1 DEF Entry
      <4> QED
        BY <2>1, <2>3, <3>2, <3>3, <4>2
    <3>4. CASE s \notin S
      <4>1. Entry(s)' = Entry(s)
        BY <3>1, <3>4 DEF Entry
      <4> QED
        BY <2>1, <2>3, <3>4, <4>1
    <3> QED
      BY <3>3, <3>4
  <2> QED
    BY <2>2, <2>3
<1>5. Book' = [s \in Session |-> Book'[s]]
  BY BookIsPrimed
<1> HIDE DEF S
<1>6. Register!Recover(S)
  BY <1>4, <1>5 DEF Register!Recover, Register!Kept
<1>7. S \in SUBSET Session
  BY DEF S
<1> QED
  BY <1>3, <1>6, <1>7 DEF Register!Next

LEMMA InitKept == Init => Solitude /\ Register!Init
<1> SUFFICES ASSUME Init PROVE Solitude /\ Register!Init
  OBVIOUS
<1>1. Held
  BY InitHeld
<1>2. ASSUME NEW s \in Session PROVE Live(s) = {} /\ OnBooks(s) /\ rows[s] = None
  BY DEF Init, Live, OnBooks
<1>3. ASSUME NEW s \in Session PROVE Alone(s)
  <2>1. \A q \in Slot : ~Serves(q, s)
    BY SessionStoreAssumption DEF Init, Serves, NoJob
  <2>2. \A w \in Worker : sessions[w][s] = None
    BY DEF Init
  <2> QED
    BY <1>2, <2>1, <2>2 DEF Alone, Concluded
<1>4. Solitude
  BY <1>3 DEF Solitude, Init
<1>5. ASSUME NEW s \in Session
      PROVE  Entry(s) = [current |-> Register!Blank, saved |-> Register!Blank, answered |-> 0]
  BY <1>2 DEF Entry, Current, Saved, Register!Blank, Init
<1>6. Register!Init
  BY <1>2, <1>5, BookIs DEF Register!Init
<1> QED
  BY <1>4, <1>6

LEMMA NextKept ==
    ASSUME Held, Held', Solitude, [Next]_vars
    PROVE  Solitude' /\ (Register!Next \/ UNCHANGED Book)
<1>1. ASSUME NEW r \in Slot, NEW w \in Worker,
             Open(r, w) \/ \E s \in Session, kind \in {"turn", "accept"} : Arrive(r, w, kind, s)
      PROVE  Solitude' /\ (Register!Next \/ UNCHANGED Book)
  BY <1>1, OpenKept, ArriveKept
<1>2. ASSUME NEW r \in Slot, Step(r) PROVE Solitude' /\ (Register!Next \/ UNCHANGED Book)
  <2>1. job[r].sid \in Session
    BY <1>2 DEF Step, LoadHit, LoadMiss, LoadFails, Missed, Count, Work, Leave, Commit,
                CommitUnacknowledged, Execute, RefundAgain, Publish, Read, Write, WriteFails, Skip,
                At, Held, SlotOK
  <2>2. PICK s \in Session : s = job[r].sid
    BY <2>1
  <2> QED
    BY <1>2, <2>2, StepKept
<1>3. ASSUME NEW w \in Worker, Connect(w) \/ Crash(w)
      PROVE  Solitude' /\ (Register!Next \/ UNCHANGED Book)
  <2>1. CASE Connect(w)
    BY <2>1, StillKept DEF Connect, service, tables, history
  <2> QED
    BY <1>3, <2>1, CrashKept
<1>4. CASE UNCHANGED vars
  BY <1>4, StillKept DEF vars, service, tables, history
<1> QED
  BY <1>1, <1>2, <1>3, <1>4 DEF Next

(* A conversation that is served by one worker at a time is a durable      *)
(* session, whatever crashes or fails: its turns and its outcome go on     *)
(* from where the last answer left them (store.persist).                   *)
THEOREM ImplementsDurableSession == Spec => StaysDurable
<1>1. Init => Held /\ Solitude /\ Register!Init
  BY InitHeld, InitKept
<1>2. Held /\ Solitude /\ [Next]_vars => Held' /\ Solitude' /\ [Register!Next]_Book
  <2> SUFFICES ASSUME Held, Solitude, [Next]_vars
               PROVE  Held' /\ Solitude' /\ [Register!Next]_Book
    OBVIOUS
  <2>1. Held'
    BY NextHeld
  <2> QED
    BY <2>1, NextKept
<1> QED
  BY <1>1, <1>2, PTL DEF Spec, StaysDurable, Register!Spec
=============================================================================
