---------------------------- MODULE LastWriteWins ----------------------------
(***************************************************************************)
(* What the metadata server promises of a tone file (PROJECT.md, section   *)
(* 3): it is the arbiter, and the file it holds is a greatest one of all   *)
(* the versions that were ever put, in whatever order they came; it is     *)
(* replaced by nothing but a greater one.                                  *)
(***************************************************************************)
CONSTANT Beats(_, _)   \* the order of versions

VARIABLES put, value

Greatest(versions) == {w \in versions : \A u \in versions : ~Beats(u, w)}

Init == put = {} /\ value = {}

Put(v) ==
  /\ put' = put \union {v}
  /\ \E w \in Greatest(put') : value' = {w}
  /\ value # {} /\ value \subseteq Greatest(put') => value' = value

Next == \E v \in put' : Put(v)

Spec == Init /\ [][Next]_<<put, value>>
=============================================================================
