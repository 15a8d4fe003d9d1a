SPECIFICATION Spec
CONSTANTS
  a = a
  b = b
  Addresses <- MCAddresses
  Earlier = 1
  MaxForms = 3
  Faults <- MCFaults
  MaxFaults = 1
SYMMETRY AddressSymmetry
INVARIANTS SecretsFollowMailboxes ListIsTrue
