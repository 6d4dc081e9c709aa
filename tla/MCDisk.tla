------------------------------- MODULE MCDisk -------------------------------
(* Two objects and a placeholder; the lengths leave room for two uploads,  *)
(* and one content has the length of another.                              *)
EXTENDS Disk, TLC

CONSTANTS k1, k2, p, empty, short, long, torn

MCKeys == {k1, k2, p}
MCPending == {p}
MCContents == {empty, short, long, torn}
MCSize == (empty :> 0) @@ (short :> 1) @@ (long :> 2) @@ (torn :> 2)
=============================================================================
