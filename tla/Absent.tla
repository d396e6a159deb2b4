-------------------------------- MODULE Absent --------------------------------
(***************************************************************************)
(* What the code has where nothing is stored: Python's None, which Redis   *)
(* answers for a key or a field that does not exist.                       *)
(***************************************************************************)
CONSTANT None
=============================================================================
