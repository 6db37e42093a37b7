----------------------------- MODULE MCDdrSync ------------------------------
(* The memory port's crossing: its requests, its returns and its snoops together. *)
EXTENDS DdrSync
=============================================================================
