-------------------------- MODULE MCFreshnessGate --------------------------
(* A small instance of the freshness gate: one service whose two signals   *)
(* come from two sources at different times.                               *)
EXTENDS FreshnessGate

CONSTANTS svc, prom, k8s, lat, mem, low, high

MCKnown == [t \in Types |-> {lat, mem}]

Data(l, m) == [f \in Fields |-> IF f = lat THEN l ELSE m]

Frag(source, at, aware, fields) ==
  [id |-> svc, type |-> "service", source |-> source, at |-> at,
   aware |-> aware, clash |-> FALSE, fields |-> fields]

TwoSignals ==
  { Frag(prom, 0, FALSE, Data(high, NoValue)),
    Frag(prom, 1, FALSE, Data(low, NoValue)),
    Frag(k8s,  2, FALSE, Data(NoValue, low)),
    Frag(k8s,  3, FALSE, Data(low, high)),
    Frag(k8s,  1, TRUE,  Data(low, high)) }
=============================================================================
