------------------------------ MODULE MCDemand ------------------------------
(* Small instances of Demand for TLC: s1 is read by a worker, s2 also gets  *)
(* webhooks.                                                                *)
EXTENDS Demand, TLC

CONSTANTS pa, pb, s1, s2

MCHandles == {pa, pb}
MCSources == {s1, s2}
MCKick == {s2}

\* A source both profiles have, or a profile of its own that comes and goes.
MCStartProfiles == {(pa :> {s2}) @@ (pb :> {s2}), (pa :> {s1}) @@ (pb :> {})}
MCSaves == {<<pa, {}>>, <<pa, {s1}>>}

\* A save gives a profile the source another one has.
SharedStart == {(pa :> {s1}) @@ (pb :> {s2})}
SharingSaves == {<<pa, {s1, s2}>>}
=============================================================================
