----------------------------- MODULE MCStateBus -----------------------------
(* Small instances of the state bus for TLC. *)
EXTENDS FreshnessGate

CONSTANTS svc, gpu, prom, k8s, lat, mem, low, high, raw

MCKnown == [t \in Types |-> IF t = "service" THEN {lat, mem} ELSE {mem}]

Data(l, m) == [f \in Fields |-> IF f = lat THEN l ELSE m]

Frag(id, type, source, at, aware, fields) ==
  [id |-> id, type |-> type, source |-> source, at |-> at,
   aware |-> aware, clash |-> FALSE, fields |-> fields]

Clashing(frag) == [frag EXCEPT !.clash = TRUE]

(* Full, partial, tied and late ones, one from the future, some of another *)
(* type, with a value that validation refuses, a time zone or a key that   *)
(* names no field.                                                         *)
MixedFragments ==
  { Frag(svc, "service", prom, 0, FALSE, Data(low, NoValue)),
    Frag(svc, "service", k8s,  2, FALSE, Data(NoValue, high)),
    Frag(svc, "service", prom, 2, FALSE, Data(high, low)),
    Frag(svc, "service", k8s,  2, TRUE,  Data(high, NoValue)),
    Clashing(Frag(svc, "node", k8s, 3, FALSE, Data(raw, NoValue))),
    Frag(gpu, "node",    k8s,  1, FALSE, Data(low, raw)),
    Frag(gpu, "node",    prom, 1, TRUE,  Data(low, high)),
    Frag(gpu, "node",    prom, 2, FALSE, Data(low, high)) }
=============================================================================
