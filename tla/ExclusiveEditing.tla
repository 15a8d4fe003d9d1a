--------------------------- MODULE ExclusiveEditing ---------------------------
(***************************************************************************)
(* What the thread locks promise to the people who share a mailbox: at any *)
(* moment at most one of them is handling a given thread, and the thread   *)
(* passes from one person to another only through a moment when nobody     *)
(* handles it.  ThreadLock is shown to implement this specification.       *)
(***************************************************************************)

CONSTANT Actors     \* the people (locked_by values), e.g. Jan and Simona

VARIABLE editors    \* the people who may rightfully edit and send

TypeOK == editors \subseteq Actors

Init == editors = {}

\* A person starts handling a thread that nobody handles.
Enter(a) == editors = {} /\ editors' = {a}

\* The thread becomes free: closed, lost, or the lease ran out.
Leave == editors # {} /\ editors' = {}

Next == Leave \/ \E a \in Actors : Enter(a)

Spec == Init /\ [][Next]_editors

=============================================================================
