-------------------------- MODULE MCMediaTransfer --------------------------
(* Two uploads, the second from a client of another make, and a download.  *)
EXTENDS MediaTransfer

CONSTANTS u1, u2, d1, a1
=============================================================================
