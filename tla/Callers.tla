------------------------------ MODULE Callers ------------------------------
(***************************************************************************)
(* Who a verified token stands for (identity/callers.py, api/deps.py): an  *)
(* agent named after its client, or a human.                               *)
(*                                                                         *)
(* claims is a record of the claims the code reads; "" is a claim that is  *)
(* absent or empty.  username is split into the prefix `service-account-`  *)
(* and the rest of preferred_username.                                     *)
(***************************************************************************)

CONSTANTS
  References,   \* the names that can be part of a reference
  AnyValue      \* a detection without marker_value

NoCaller  == [kind |-> "none", ref |-> ""]
User(name) == [kind |-> "user", ref |-> name]

(* _agent: a client id that is missing or cannot be a reference is refused. *)
Agent(client) ==
  IF client \in References THEN [kind |-> "agent", ref |-> client] ELSE NoCaller

(* Mutant: the marker counts whatever its value.                           *)
MutantMarked(claims, detection) == claims.marker # ""

Marked(claims, detection) ==
  claims.marker # "" /\ detection.value \in {AnyValue, claims.marker}

(* A Keycloak service account, by its user name.                           *)
ServiceAccount(claims, detection) == detection.fallback /\ claims.username.service

(* caller_from_identity: a token marked as an agent's is never downgraded  *)
(* to a human, and a user name alone makes nobody an agent.                *)
CallerOf(claims, detection) ==
  CASE Marked(claims, detection) ->
         Agent(IF claims.id # "" THEN claims.id ELSE claims.azp)
    [] ~Marked(claims, detection) /\ ServiceAccount(claims, detection)
                                  /\ claims.username.name \in {"", claims.azp} ->
         Agent(claims.username.name)
    [] OTHER -> User(claims.subject)

(* require_agent and require_user                                          *)
Admits(route, caller) == caller.kind = route
=============================================================================
