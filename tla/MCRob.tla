------------------------------- MODULE MCRob -------------------------------
(* The reorder buffer on its own, driven by the inputs it is built for.     *)
EXTENDS RobWindow
=============================================================================
