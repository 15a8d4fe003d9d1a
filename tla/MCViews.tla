-------------------------------- MODULE MCViews --------------------------------
(* Instances of Views for TLC: two threads with up to two tasks and two    *)
(* promises before the first page is asked for.                            *)
EXTENDS Views

MCThread == {"t1", "t2"}
MCDirection == {"my-promise", "they-asked"}
MCImportanceOf == [t \in MCThread |-> IF t = "t1" THEN 0 ELSE 2]

MCTasks ==
  UNION {[1 .. n -> [thread : MCThread, state : {"needs-reply", "waiting", "done"}]] : n \in 0 .. 2}

MCStocked(ts, ps) ==
  [threads |-> [t \in MCThread |-> 0], tasks |-> ts, promises |-> ps,
   drafts |-> {}, transitions |-> {}]

MCPromised(t, due) == [thread |-> t, direction |-> "my-promise", due |-> due, status |-> "open"]

\* Any tasks without a promise, and two tasks to do with a promise each.
MCStock ==
  {MCStocked(ts, {}) : ts \in MCTasks} \union
  {MCStocked([i \in 1 .. 2 |-> [thread |-> <<"t1", "t2">>[i], state |-> "needs-reply"]],
     {MCPromised("t1", d), MCPromised("t2", e)}) : d, e \in {None, 0, 1, 2}}
=============================================================================
