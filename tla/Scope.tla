-------------------------------- MODULE Scope --------------------------------
(***************************************************************************)
(* Capabilities and scopes (core/scope.py) and what a token's checks make  *)
(* of them (tokens/biscuit/datalog.py).                                    *)
(*                                                                         *)
(* A capability [kind, text, pattern] stands for the kind and the resource *)
(* string; text is the string as a sequence, without the one trailing '*'  *)
(* that makes it a pattern (core/refs.py allows no other '*').             *)
(***************************************************************************)
EXTENDS Naturals, Sequences

StartsWith(text, prefix) ==
  /\ Len(prefix) <= Len(text)
  /\ \A i \in 1..Len(prefix) : text[i] = prefix[i]

(* Capability.covers *)
CapCovers(own, other) ==
  /\ own.kind = other.kind
  /\ IF own.pattern THEN StartsWith(other.text, own.text)
                    ELSE ~other.pattern /\ own.text = other.text

(* Scope.covers *)
Covers(scope, cap) == \E own \in scope : CapCovers(own, cap)

(* Scope.is_subset_of *)
IsSubsetOf(scope, other) == \A cap \in scope : Covers(other, cap)

(* The Datalog of a block: the authority's cap_exact and cap_prefix facts, *)
(* or the alternatives of an attenuation check.  An empty scope permits    *)
(* nothing.                                                                *)
Permits(scope, ask) ==
  \E cap \in scope :
    /\ cap.kind = ask.kind
    /\ IF cap.pattern THEN StartsWith(ask.text, cap.text) ELSE cap.text = ask.text
=============================================================================
