-------------------------------- MODULE Geom --------------------------------
(* The core's width (core/smolrv64_geom.vh), shared by every module of it.  *)
EXTENDS Naturals

CONSTANT IW     \* the group width: ops that dispatch, and that commit, a cycle
ASSUME WidthAssumption == IW \in Nat \ {0}
=============================================================================
