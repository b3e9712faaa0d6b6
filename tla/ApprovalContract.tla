-------------------------- MODULE ApprovalContract --------------------------
(***************************************************************************)
(* What the approval workflow promises a tool owner (ADR 0008, ADR 0017),  *)
(* without stores, clocks or calls in flight: a request is asked, granted  *)
(* or closed by a human or by time, used at most once, and serves at most  *)
(* one call, after it was used.  Closed and used requests stay so.         *)
(***************************************************************************)
CONSTANTS Requests, Callers

VARIABLES
  life,    \* the life of each request
  served   \* the callers each request let through

Ask(r) ==
  /\ life[r] = "none"
  /\ life' = [life EXCEPT ![r] = "asked"]
  /\ UNCHANGED served

Approve(r) ==
  /\ life[r] = "asked"
  /\ life' = [life EXCEPT ![r] = "granted"]
  /\ UNCHANGED served

(* Rejected, or expired before or after the approval; a sweep closes       *)
(* several requests at once.                                               *)
Close(R) ==
  /\ \A r \in R : life[r] \in {"asked", "granted"}
  /\ life' = [r \in Requests |-> IF r \in R THEN "closed" ELSE life[r]]
  /\ UNCHANGED served

Use(r) ==
  /\ life[r] = "granted"
  /\ life' = [life EXCEPT ![r] = "used"]
  /\ UNCHANGED served

Serve(r, c) ==
  /\ life[r] = "used"
  /\ served[r] = {}
  /\ served' = [served EXCEPT ![r] = {c}]
  /\ UNCHANGED life

Init ==
  /\ life = [r \in Requests |-> "none"]
  /\ served = [r \in Requests |-> {}]

Next ==
  \/ \E r \in Requests : Ask(r) \/ Approve(r) \/ Use(r)
  \/ \E R \in SUBSET Requests : Close(R)
  \/ \E r \in Requests, c \in Callers : Serve(r, c)

Spec == Init /\ [][Next]_<<life, served>>
=============================================================================
