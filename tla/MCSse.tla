-------------------------------- MODULE MCSse --------------------------------
(***************************************************************************)
(* Sse has its instance in Sse.cfg: numbers and names only.                *)
(***************************************************************************)
EXTENDS Sse
=============================================================================
