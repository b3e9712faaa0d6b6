------------------------------- MODULE Startup -------------------------------
(***************************************************************************)
(* How replicas of different releases come up on one database              *)
(* (db/migrations.py, build_services), and how one that serves answers the *)
(* readiness probe (readiness.py).                                         *)
(*                                                                         *)
(* Every statement of migrate is a step; the connection of a process that  *)
(* dies is closed by PostgreSQL, which also gives its advisory lock back.  *)
(* A replica that only migrates (hoc db migrate) is one nobody probes.     *)
(***************************************************************************)
EXTENDS Naturals, Sequences, FiniteSets

CONSTANTS
  Replicas,
  Latest,        \* the last migration each replica's code knows
  AutoMigrate,   \* the replicas that migrate (db_auto_migrate, hoc db migrate)
  Probed,        \* a replica whose readiness is asked for
  MaxCrashes     \* bound on the processes that die

ASSUME StartupAssumption ==
  /\ Latest \in [Replicas -> Nat \ {0}]
  /\ AutoMigrate \subseteq Replicas /\ Probed \in Replicas
  /\ MaxCrashes \in Nat

VARIABLES
  applied,   \* schema_migrations: the versions, in the order they were applied
  lock,      \* the holders of the advisory lock: none or one
  boot,      \* the replicas
  crashes,
  up,        \* which of OpenFGA and the connectors' freshness are good
  probe,     \* the check in flight: _inflight
  seen,      \* history: what was good at some instant since the last answer
  answer     \* what the last step answered a probe, if it did

startupVars == <<applied, lock, boot, crashes, up, probe, seen, answer>>

Version == Len(applied)  \* _current, while applied is in order

-----------------------------------------------------------------------------
(* migrate and assert_current                                              *)

Step(r, pc) == boot' = [boot EXCEPT ![r].pc = pc]

(* Mutant: the lock is not asked for.                                      *)
MutantAcquire(r) ==
  /\ boot[r].pc = "start" /\ r \in AutoMigrate
  /\ lock' = lock \cup {r}
  /\ Step(r, "ledger")
  /\ UNCHANGED <<applied, crashes>>

(* pg_advisory_lock waits for its turn.                                    *)
Acquire(r) ==
  /\ boot[r].pc = "start" /\ r \in AutoMigrate
  /\ lock = {}
  /\ lock' = {r}
  /\ Step(r, "ledger")
  /\ UNCHANGED <<applied, crashes>>

(* The ledger is created if it is not there, and read: a schema this code  *)
(* does not know is left alone, otherwise pending() is fixed now.          *)
Plan(r) ==
  /\ boot[r].pc = "ledger"
  /\ boot' = [boot EXCEPT ![r] = [pc   |-> IF Version > Latest[r] THEN "release" ELSE "apply",
                                  next |-> Version + 1]]
  /\ UNCHANGED <<applied, lock, crashes>>

(* One migration in a transaction of its own.  The version is the primary  *)
(* key of the ledger; a transaction that fails for another reason leaves   *)
(* nothing behind.                                                         *)
Apply(r) ==
  /\ boot[r].pc = "apply" /\ boot[r].next <= Latest[r]
  /\ \/ /\ \A i \in DOMAIN applied : applied[i] # boot[r].next
        /\ applied' = Append(applied, boot[r].next)
        /\ boot' = [boot EXCEPT ![r].next = @ + 1]
     \/ /\ boot' = [boot EXCEPT ![r].pc =
             IF \E i \in DOMAIN applied : applied[i] = boot[r].next THEN "conflict" ELSE "release"]
        /\ UNCHANGED applied
  /\ UNCHANGED <<lock, crashes>>

(* The finally clause: the lock is released whether all was applied or     *)
(* something was raised.                                                   *)
Release(r) ==
  /\ boot[r].pc \in {"release", "apply"}
  /\ boot[r].pc = "apply" => boot[r].next > Latest[r]
  /\ lock' = lock \ {r}
  /\ Step(r, IF boot[r].pc = "apply" THEN "serving" ELSE "failed")
  /\ UNCHANGED <<applied, crashes>>

(* Without db_auto_migrate the schema has to be exactly the code's.        *)
AssertCurrent(r) ==
  /\ boot[r].pc = "start" /\ r \notin AutoMigrate
  /\ Step(r, IF Version = Latest[r] THEN "serving" ELSE "failed")
  /\ UNCHANGED <<applied, lock, crashes>>

(* The process dies and is started again.                                  *)
Crash(r) ==
  /\ crashes < MaxCrashes /\ boot[r].pc # "start"
  /\ crashes' = crashes + 1
  /\ boot' = [boot EXCEPT ![r] = [pc |-> "start", next |-> 1]]
  /\ lock' = lock \ {r}
  /\ UNCHANGED applied

-----------------------------------------------------------------------------
(* ReadinessProbe                                                          *)

Dependencies == {"schema", "openfga", "connectors"}
Good == up \cup (IF Version = Latest[Probed] THEN {"schema"} ELSE {})

(* Mutant: a check that is done answers the next probe too.                *)
MutantAsk ==
  /\ boot[Probed].pc = "serving" /\ probe.pc \in {"idle", "done"}
  /\ IF probe.pc = "idle"
     THEN probe' = [pc |-> "postgres", ok |-> TRUE] /\ answer' = {}
     ELSE probe' = probe /\ answer' = {probe.ok}
  /\ UNCHANGED <<applied, lock, boot, crashes, up>>

(* run: a check starts unless one is in flight; a probe that finds one     *)
(* waits for its outcome, which changes nothing here.                      *)
Ask ==
  /\ boot[Probed].pc = "serving" /\ probe.pc \in {"idle", "done"}
  /\ probe' = [pc |-> "postgres", ok |-> TRUE]
  /\ answer' = {}
  /\ UNCHANGED <<applied, lock, boot, crashes, up>>

(* _check, which goes on when one dependency fails.  PostgreSQL may fail   *)
(* to answer.                                                              *)
Check ==
  /\ boot[Probed].pc = "serving"
  /\ \/ /\ probe.pc = "postgres"
        /\ \E reached \in BOOLEAN :
             probe' = [pc |-> "openfga", ok |-> reached /\ Version = Latest[Probed]]
        /\ answer' = {}
     \/ /\ probe.pc = "openfga"
        /\ probe' = [pc |-> "connectors", ok |-> probe.ok /\ "openfga" \in up]
        /\ answer' = {}
     \/ /\ probe.pc = "connectors"
        /\ probe' = [pc |-> "done", ok |-> probe.ok /\ "connectors" \in up]
        /\ answer' = {probe'.ok}
  /\ UNCHANGED <<applied, lock, boot, crashes, up>>

(* OpenFGA goes and comes, the connectors go stale and are synced.         *)
Toggle(d) ==
  /\ up' = IF d \in up THEN up \ {d} ELSE up \cup {d}
  /\ answer' = {}
  /\ UNCHANGED <<applied, lock, boot, crashes, probe>>

-----------------------------------------------------------------------------
StartupInit ==
  /\ applied = << >>
  /\ lock = {}
  /\ boot = [r \in Replicas |-> [pc |-> "start", next |-> 1]]
  /\ crashes = 0
  /\ up = {"openfga", "connectors"}
  /\ probe = [pc |-> "idle", ok |-> FALSE]
  /\ seen = up
  /\ answer = {}

(* A process that dies takes its check with it.                            *)
BootStep ==
  /\ \E r \in Replicas : Acquire(r) \/ Plan(r) \/ Apply(r) \/ Release(r)
                         \/ AssertCurrent(r) \/ Crash(r)
  /\ probe' = IF boot'[Probed].pc = "serving" THEN probe ELSE [pc |-> "idle", ok |-> FALSE]
  /\ answer' = {}
  /\ UNCHANGED up

ProbeStep == Ask \/ Check \/ \E d \in {"openfga", "connectors"} : Toggle(d)

StartupNext ==
  /\ BootStep \/ ProbeStep
  /\ seen' = (IF answer = {} THEN seen ELSE Good) \cup Good'

StartupSpec == StartupInit /\ [][StartupNext]_startupVars

-----------------------------------------------------------------------------
(* Properties                                                              *)

(* "Apply every pending migration, one transaction each, serialized across *)
(* processes" (migrations.py:86, 89-90): replicas of two releases that     *)
(* boot at once on an empty database, and die at any point of it, apply    *)
(* every migration once and in order, none of them trips over another, and *)
(* none serves before the schema has all it knows.                         *)
SchemaInStep ==
  /\ \A i \in DOMAIN applied : applied[i] = i
  /\ \A r \in Replicas : /\ boot[r].pc # "conflict"
                         /\ boot[r].pc = "serving" => Version >= Latest[r]

(* "every dependency the next decision needs, checked now" (system.py:42): *)
(* an answer of ready rests on a check of its own or on the one in flight, *)
(* never on an older one: since the answer before it, each dependency was  *)
(* seen good and the schema was exactly the code's.                        *)
ReadyWasSeen == answer = {TRUE} => seen = Dependencies
=============================================================================
