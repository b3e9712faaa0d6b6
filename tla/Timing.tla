------------------------------- MODULE Timing -------------------------------
(***************************************************************************)
(* The clock of the server process, shared by its limiter and its key      *)
(* cache (time.monotonic and datetime.now in the code).                    *)
(***************************************************************************)
EXTENDS Naturals

CONSTANT MaxClock  \* bound on the clock

ASSUME ClockAssumption == MaxClock \in Nat

VARIABLE clock

Advance == clock < MaxClock /\ clock' = clock + 1
=============================================================================
