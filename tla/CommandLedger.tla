---------------------------- MODULE CommandLedger ----------------------------
(***************************************************************************)
(* What the command API promises about each command id, whatever is lost,  *)
(* repeated, restarted or sent twice at once: the id is decided at most     *)
(* once, for one request; what the decision changes it changes then and     *)
(* only then; and every caller who learns an outcome learns that one.       *)
(***************************************************************************)
EXTENDS Naturals

CONSTANTS Requests,   \* records with the fields id, type, target and print
          Answers, None

VARIABLES decided,    \* what was decided for an id, a request and its answer
          acted,      \* how often the id changed a task
          told        \* the outcome a caller has learnt last

Ids == {r.id : r \in Requests}
Decision == [request : Requests, answer : Answers]

Init ==
  /\ decided = [i \in Ids |-> None]
  /\ acted = [i \in Ids |-> 0]
  /\ told = None

Decide(r) ==
  /\ decided[r.id] = None
  /\ LET d == decided'[r.id] IN
       d \in Decision /\ d.request = r /\ decided' = [decided EXCEPT ![r.id] = d]
  /\ \E n \in {0, 1} : acted' = [acted EXCEPT ![r.id] = @ + n]
  /\ told' = told

Tell(r) ==
  /\ decided[r.id] # None /\ decided[r.id].request = r
  /\ told' = decided[r.id]
  /\ UNCHANGED <<decided, acted>>

Next == \E r \in Requests : Decide(r) \/ Tell(r)
Spec == Init /\ [][Next]_<<decided, acted, told>>
=============================================================================
