------------------------- MODULE MCCrailOutputstream -------------------------
(* Model values for CrailOutputstream: storage servers on distinct hosts, *)
(* and two servers on one host listening on different ports.             *)
EXTENDS CrailOutputstream

DistinctHosts == {[ip |-> 1, port |-> 1], [ip |-> 2, port |-> 1]}
SameHost      == {[ip |-> 1, port |-> 1], [ip |-> 1, port |-> 2]}
=============================================================================
