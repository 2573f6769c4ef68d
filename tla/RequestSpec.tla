---------------------------- MODULE RequestSpec ----------------------------
(***************************************************************************)
(* What golbang-core promises the HTTP layer about one submitted request,  *)
(* whatever the scheduler does inside: it is refused on the spot or        *)
(* queued; a queued request starts at most once; the first terminal event  *)
(* it is sent, the one its handler acts on, is its answer and stands;      *)
(* Cancelled is said only to a client that went away, Timeout only after   *)
(* the timer of the phase the request is in ran out; and a request still   *)
(* in the queue is never told it completed.                                *)
(***************************************************************************)
CONSTANTS Reqs, Timed

VARIABLES
  stage,      \* where each request stands, or its answer
  gone,       \* clients that cancelled
  overdue     \* requests whose current timer ran out

Completed == {"Stop", "Length"}
Answers == Completed \cup {"refused", "Failed", "Cancelled", "Timeout", "Lost"}
Stages == {"new", "queued", "running"} \cup Answers

Init ==
  /\ stage = [r \in Reqs |-> "new"]
  /\ gone = {} /\ overdue = {}

\* What may happen to the stage of one request.
Arrives(r) == stage[r] = "new" /\ stage'[r] \in {"queued", "refused"}

Starts(r) == stage[r] = "queued" /\ stage'[r] = "running"

FailsQueued(r) ==
  /\ stage[r] = "queued"
  /\ \/ stage'[r] = "Failed"
     \/ stage'[r] = "Timeout" /\ r \in overdue

EndsRunning(r) ==
  /\ stage[r] = "running"
  /\ \/ stage'[r] \in Completed \cup {"Failed", "Lost"}
     \/ stage'[r] = "Cancelled" /\ r \in gone
     \/ stage'[r] = "Timeout" /\ r \in overdue

\* The worker moves any number of requests; a request that starts gets a
\* fresh timer, also when it fails as it starts.
Progress ==
  /\ stage' \in [Reqs -> Stages]
  /\ \A r \in Reqs :
       \/ stage'[r] = stage[r]
       \/ Arrives(r) \/ Starts(r) \/ FailsQueued(r) \/ EndsRunning(r)
  /\ overdue' \subseteq overdue
  /\ \A r \in Reqs : Starts(r) => r \notin overdue'
  /\ \A r \in overdue \ overdue' : stage[r] = "queued" /\ stage'[r] \in {"running", "Failed"}
  /\ UNCHANGED gone

\* A request that failed may still have its slot: its client may go away and its
\* timer run out as if it were running.
Waits == {"queued", "running", "Failed"}

GoesAway(r) ==
  /\ stage[r] \in Waits
  /\ gone' = gone \cup {r}
  /\ UNCHANGED <<stage, overdue>>

RunsOut(r) ==
  /\ r \in Timed /\ stage[r] \in Waits
  /\ overdue' = overdue \cup {r}
  /\ UNCHANGED <<stage, gone>>

Next == Progress \/ \E r \in Reqs : GoesAway(r) \/ RunsOut(r)

Spec == Init /\ [][Next]_<<stage, gone, overdue>>
=============================================================================
