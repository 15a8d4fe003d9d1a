----------------------------- MODULE MCMailSync ------------------------------
(* Small mailboxes for TLC. *)
EXTENDS MailSync, TLC

CONSTANTS m1, m2, m3, m4

\* Messages are interchangeable: they arrive in any order and are never compared.
Symmetry == Permutations(Messages)

=============================================================================
