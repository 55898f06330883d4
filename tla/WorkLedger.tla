----------------------------- MODULE WorkLedger -----------------------------
(***************************************************************************)
(* What the dispatcher promises the rest of the engine about one asset: it *)
(* is accepted, it passes through all handlers of its pipeline or is given *)
(* up on the way, and only then is it done.  An asset may be accepted      *)
(* again at any time; callers see a finished one only after it has passed  *)
(* or was given up at least once.                                          *)
(***************************************************************************)
CONSTANT Items

VARIABLES
  status,   \* "new", "pending" or "done"
  passed,   \* the items that passed through their pipeline
  excused   \* those that were given up, or could not be loaded

vars == <<status, passed, excused>>

Init ==
  /\ status = [i \in Items |-> "new"]
  /\ passed = {} /\ excused = {}

Accept(i) ==
  /\ status' = [status EXCEPT ![i] = "pending"]
  /\ UNCHANGED <<passed, excused>>

Pass(i) == passed' = passed \cup {i} /\ UNCHANGED excused

Excuse(i) == excused' = excused \cup {i} /\ UNCHANGED passed

\* An accepted item passes through its pipeline, or is given up.
Leave(i) ==
  /\ status[i] # "new"
  /\ Pass(i) \/ Excuse(i)
  /\ UNCHANGED status

Complete(i) ==
  /\ status[i] = "pending" /\ i \in passed \cup excused
  /\ status' = [status EXCEPT ![i] = "done"]
  /\ UNCHANGED <<passed, excused>>

\* A pipeline that finds the completion channel full completes an item in
\* the step in which it leaves, and so does the pump with one that it cannot
\* load.
LeaveAndComplete(i) ==
  /\ status[i] # "new"
  /\ Pass(i) \/ Excuse(i)
  /\ status' = [status EXCEPT ![i] = "done"]

Next == \E i \in Items : Accept(i) \/ Leave(i) \/ Complete(i) \/ LeaveAndComplete(i)

Spec == Init /\ [][Next]_vars
=============================================================================
