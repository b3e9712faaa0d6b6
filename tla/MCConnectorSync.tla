-------------------------- MODULE MCConnectorSync --------------------------
(* One connector with two tuples.                                          *)
EXTENDS ConnectorSync, TLC

CONSTANTS k1, t1, t2

MCTuples == {t1, t2}
OneSource == [t \in MCTuples |-> k1]
=============================================================================
