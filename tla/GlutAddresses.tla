---------------------------- MODULE GlutAddresses ----------------------------
(* What the two halves of GlutMaster share: a GlutWindow is a GlutTimer, so   *)
(* both are known by the address of the same object.                          *)
EXTENDS FiniteSets

CONSTANTS
  Addresses,   \* where GlutTimer and GlutWindow objects may live
  NULL         \* the null pointer

ASSUME AddressesAssumption ==
  /\ IsFiniteSet(Addresses)
  /\ NULL \notin Addresses

=============================================================================
