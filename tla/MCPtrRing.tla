----------------------------- MODULE MCPtrRing -----------------------------
(***************************************************************************)
(* PtrRing with pointers of four bytes in a ring of fifteen: as with the   *)
(* 2003 bytes and pointers of eight of the code, three bytes are left over *)
(* at the end, and in time a pointer starts at every position.             *)
(***************************************************************************)
EXTENDS PtrRing

TwoPackets == {1, 2}
=============================================================================
