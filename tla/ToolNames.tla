------------------------------ MODULE ToolNames ------------------------------
(***************************************************************************)
(* How the MCP proxy (integrations/mcp.py) puts the name of an upstream in *)
(* front of its tools and takes it off again.  Names are sequences of      *)
(* characters here, because splitting them is what could go wrong.         *)
(***************************************************************************)
EXTENDS Naturals, Sequences

CONSTANT Characters  \* what names are made of

Underscore == "_"
ToolPrefix == "tool:"  \* five characters, and one here

ASSUME CharactersAssumption == Underscore \in Characters

(* The first of the two characters of each separator `__` in a name; two   *)
(* separators may overlap.                                                 *)
Separators(name) == {i \in 1..(Len(name) - 1) : name[i] = Underscore /\ name[i + 1] = Underscore}

(* _UPSTREAM_NAME, and no separator.                                       *)
ValidUpstream(server) ==
  /\ Len(server) > 0
  /\ server[1] \notin {Underscore, "-"}
  /\ \A i \in DOMAIN server : server[i] \notin {ToolPrefix, "/", " "}
  /\ Separators(server) = {}

(* _prefixed                                                               *)
Prefixed(server, tool) == server \o <<Underscore, Underscore>> \o tool

(* Mutant: the name is split at the last separator.                        *)
MutantPartition(name) ==
  IF Separators(name) = {}
  THEN [server |-> name, found |-> FALSE, tool |-> << >>]
  ELSE LET i == CHOOSE i \in Separators(name) : \A j \in Separators(name) : j <= i
       IN  [server |-> SubSeq(name, 1, i - 1), found |-> TRUE,
            tool |-> SubSeq(name, i + 2, Len(name))]

(* str.partition: the first separator.                                     *)
Partition(name) ==
  IF Separators(name) = {}
  THEN [server |-> name, found |-> FALSE, tool |-> << >>]
  ELSE LET i == CHOOSE i \in Separators(name) : \A j \in Separators(name) : i <= j
       IN  [server |-> SubSeq(name, 1, i - 1), found |-> TRUE,
            tool |-> SubSeq(name, i + 2, Len(name))]

(* _default_resource                                                       *)
DefaultResource(name) == Partition(name).server \o <<"/">> \o Partition(name).tool
=============================================================================
