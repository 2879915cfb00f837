----------------------------- MODULE MCSessions -----------------------------
(* An instance of Sessions for TLC: two tabs, of one browser or of two.    *)
EXTENDS Sessions

CONSTANTS t1, t2, laptop, phone

OneBrowserOrTwo ==
  {[t \in Tabs |-> laptop], [t \in Tabs |-> IF t = t1 THEN laptop ELSE phone]}
=============================================================================
