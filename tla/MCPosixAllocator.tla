-------------------------- MODULE MCPosixAllocator --------------------------
(* An instance of PosixAllocator for TLC. *)
EXTENDS PosixAllocator
=============================================================================
