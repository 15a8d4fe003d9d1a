------------------------------ MODULE TaskStates ------------------------------
(***************************************************************************)
(* The email-as-task state machine: the edge table of                      *)
(* packages/shared/src/states.ts, and resolveEvent of                      *)
(* backend/src/engines/state-machine.ts, which interprets it.              *)
(***************************************************************************)

TaskState == {"needs-reply", "drafted", "waiting", "follow-up", "done"}

\* TASK_STATE_TRANSITIONS, the edges applied at once and those only proposed.
AutoEdges ==
  {<<"needs-reply", "drafted">>, <<"needs-reply", "done">>, <<"drafted", "waiting">>,
   <<"waiting", "follow-up">>, <<"follow-up", "waiting">>}

ProposeEdges ==
  {<<"drafted", "needs-reply">>, <<"waiting", "needs-reply">>, <<"waiting", "done">>,
   <<"follow-up", "needs-reply">>, <<"follow-up", "done">>, <<"done", "needs-reply">>}

Edges == AutoEdges \union ProposeEdges

\* EVENT_TARGET
EventTarget ==
  [e \in {"draft-created", "user-sent", "inbound-thanks", "deadline-lapsed",
          "new-inbound", "draft-discarded", "mark-done"} |->
     CASE e = "draft-created" -> "drafted"
       [] e = "user-sent" -> "waiting"
       [] e \in {"inbound-thanks", "mark-done"} -> "done"
       [] e = "deadline-lapsed" -> "follow-up"
       [] e \in {"new-inbound", "draft-discarded"} -> "needs-reply"]

\* resolveEvent(from, event).kind
Resolve(from, event) ==
  LET edge == <<from, EventTarget[event]>>
  IN CASE edge \in AutoEdges -> "apply"
       [] edge \in ProposeEdges -> "propose"
       [] OTHER -> "noop"

=============================================================================
