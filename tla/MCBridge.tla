-------------------------------- MODULE MCBridge --------------------------------
(* Three requests on a bridge with one place, and a restart.                   *)
EXTENDS CursorBridge
================================================================================
