--------------------------- MODULE DurableSession ---------------------------
(***************************************************************************)
(* What the session store promises of one conversation: there is a single  *)
(* session, worked on in memory, saved before an answer leaves, and        *)
(* continued after a restart from what was saved last (store.persist:      *)
(* "memory is the truth, Postgres is for the recovery after a restart").   *)
(* Nothing is promised of a conversation once it is off the books.         *)
(***************************************************************************)
EXTENDS Naturals

CONSTANTS Session, Outcomes, Off

VARIABLE book  \* conversation -> the session, its saved copy, turns answered

Blank == [turns |-> 0, outcome |-> "none"]

Init == book = [s \in Session |->
                  [current |-> Blank, saved |-> Blank, answered |-> 0]]

Kept(s) == book[s] # Off

(* A turn is counted, or the outcome changes.                              *)
Count(s) == Kept(s) /\ book' = [book EXCEPT ![s].current.turns = @ + 1]

Conclude(s) ==
    /\ Kept(s)
    /\ \E o \in Outcomes : book' = [book EXCEPT ![s].current.outcome = o]

(* db.execute_once: the outcome is written with the execution.             *)
Record(s) == Kept(s) /\ book' = [book EXCEPT ![s].saved.outcome = "executed"]

(* The session is saved, and the answer leaves or is lost.  An outcome     *)
(* that has been written gives way to another one only.                    *)
Save(s) ==
    /\ Kept(s)
    /\ book[s].saved.outcome # "none" => book[s].current.outcome # "none"
    /\ \E told \in {book[s].answered, book[s].current.turns} :
         book' = [book EXCEPT ![s].saved = book[s].current, ![s].answered = told]

Drop(s) == book' = [book EXCEPT ![s] = Off]

(* A restart may meet several conversations at once.                       *)
Recover(S) ==
    book' = [s \in Session |-> IF s \in S /\ Kept(s)
                               THEN [book[s] EXCEPT !.current = book[s].saved]
                               ELSE book[s]]

Next ==
    \/ \E s \in Session : Count(s) \/ Conclude(s) \/ Record(s) \/ Save(s) \/ Drop(s)
    \/ \E S \in SUBSET Session : Recover(S)

Spec == Init /\ [][Next]_book

-----------------------------------------------------------------------------
(* No answered turn is forgotten by a restart: the limits of a             *)
(* conversation go on from where they were (store.get_session).            *)
AnsweredIsSaved ==
    \A s \in Session :
        Kept(s) => /\ book[s].answered <= book[s].saved.turns
                   /\ book[s].saved.turns <= book[s].current.turns

(* The outcome of an execution is not erased (db.execute_once): what is    *)
(* written goes from none to an outcome and from one outcome to another.   *)
OutcomeStays ==
    [][\A s \in Session : Kept(s) /\ Kept(s)' /\ book[s].saved.outcome # "none"
                              => book'[s].saved.outcome # "none"]_book
=============================================================================
