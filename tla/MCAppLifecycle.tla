--------------------------- MODULE MCAppLifecycle ---------------------------
(* A handler and other tasks call stop(); two attempts to start.           *)
EXTENDS AppLifecycle

CONSTANTS main, other, handler
=============================================================================
