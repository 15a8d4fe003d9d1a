------------------------------- MODULE MCSetup -------------------------------
(* An instance of Setup for TLC.                                           *)
EXTENDS Setup, TLC

CONSTANTS a, b

MCAddresses == {a, b}
AddressSymmetry == Permutations({a, b})
MCFaults == {"keychain", "reply", "list", "crash", "corrupt"}
=============================================================================
