----------------------------- MODULE MCBackend ------------------------------
(* Dispatch, commit and restart on small instances.                         *)
EXTENDS Backend, TLC

CONSTANTS a1, a2, a3, a4, b1, b2, b3

\* two lanes with three physical registers each
LanePhys == 0 :> {a1, a2, a3} @@ 1 :> {b1, b2, b3}
LaneSymmetry == Permutations({a1, a2, a3}) \cup Permutations({b1, b2, b3})
\* one lane, the registers in their order: they are interchangeable
OnePhys == 0 :> {a1, a2, a3, a4}
InOrderInit == BackendInit /\ rmap = <<a1, a2>> /\ fl[0] = <<a3, a4>>
MCLiveSpec == InOrderInit /\ [][Tick]_vars /\ Running
=============================================================================
