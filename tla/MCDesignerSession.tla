--------------------------- MODULE MCDesignerSession ---------------------------
(***************************************************************************)
(* Any sequence of turns with any sly_data.                                 *)
(***************************************************************************)
EXTENDS DesignerSession
===============================================================================
