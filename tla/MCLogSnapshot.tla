--------------------------- MODULE MCLogSnapshot ---------------------------
(***************************************************************************)
(* A log of up to four bytes, written to up to three times while it is read.   *)
(***************************************************************************)
EXTENDS LogSnapshot

MCInitialLogs == {<<1, 2>>}
MCRewrites == {<<>>, <<2, 1>>}
MCPreviousSizes == {{}, {1}, {3}}
=============================================================================
