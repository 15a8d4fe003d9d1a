---------------------------- MODULE MailSync_proofs ----------------------------
(***************************************************************************)
(* Proofs about MailSync, for any messages, backlog, faults and bounds:    *)
(* the cursor is honest, the cache mirrors the server, and every message   *)
(* is processed once.  The first two rest on the inductive invariant       *)
(* Consistent, about what a FETCH in progress has delivered and has yet to *)
(* deliver; the last on Tracked, which follows a message from there into   *)
(* the hands of the cycle.  And about Threading, for any headers and any   *)
(* number of messages: one place for every message, threads that are       *)
(* conversations, roots that settle and replies to their addressee.        *)
(***************************************************************************)
EXTENDS MailSync, Threading, FiniteSetTheorems, SequenceTheorems,
        WellFoundedInduction, TLAPS

FolderRow == [uidValidity : Nat, lastSeenUid : Nat, highestModseq : Nat]
PollState == [before : Nat, firstSync : BOOLEAN,
              fetchFrom : Nat \union {None}, changedSince : Nat \union {None}]
TopState == [uid : Nat, modseq : Nat]

\* The types the argument needs.
Typed ==
  /\ uidValidity \in Nat /\ uidNext \in Uids /\ highestModseq \in Nat
  /\ DOMAIN box \subseteq 1..(uidNext - 1)
  /\ \A u \in DOMAIN box : box[u] \in Mail
  /\ folder \in FolderRow
  /\ DOMAIN rows \subseteq Uids
  /\ \A u \in DOMAIN rows : rows[u] \in Row
  /\ poll \in PollState
  /\ wire \subseteq Uids \X Mail
  /\ top \in TopState

\* A session sees one numbering, and no folder row is ahead of the server.
Session ==
  /\ folder.uidValidity <= uidValidity
  /\ pc \in {"fetch", "storing", "deltas", "flags"} => folder.uidValidity = uidValidity

\* Nothing is cached, or counted as seen, that the server has yet to number.
Below ==
  folder.uidValidity = uidValidity =>
    /\ folder.lastSeenUid < uidNext
    /\ \A u \in DOMAIN rows : u < uidNext

\* What a FETCH of messages still has to deliver: the server's messages, above
\* those it has delivered, each once.
WireOK ==
  pc = "storing" =>
    /\ top.uid < uidNext
    /\ \A w \in wire : /\ w[1] < uidNext /\ top.uid < w[1]
                       /\ w[1] \in DOMAIN box => w[2].msg = box[w[1]].msg
    /\ \A w, x \in wire : w[1] = x[1] => w = x

\* The range leaves no gap above the cursor.
RangeOK ==
  pc \in {"fetch", "storing"} =>
    poll.fetchFrom \in Nat /\ poll.fetchFrom <= folder.lastSeenUid + 1

\* A message of the range is cached, still to come, or newer than the answer.
Reached ==
  pc = "storing" =>
    \A u \in DOMAIN box : u >= poll.fetchFrom =>
      \/ u \in DOMAIN rows
      \/ \E w \in wire : w[1] = u
      \/ top.uid < u /\ \A w \in wire : w[1] < u

Consistent ==
  Typed /\ Session /\ Below /\ WireOK /\ RangeOK /\ Reached /\ CursorIsHonest /\ CacheIsMirror

InSession == {"fetch", "storing", "deltas", "flags"}

-----------------------------------------------------------------------------
(* The plan and the helpers.                                               *)

LEMMA PlanFacts ==
  ASSUME Typed
  PROVE  /\ SyncPlan.full \in BOOLEAN
         /\ SyncPlan.full => SyncPlan.fetchFrom = 1
         /\ ~SyncPlan.full =>
              /\ folder.uidValidity = uidValidity
              /\ SyncPlan.fetchFrom \in {None, folder.lastSeenUid + 1}
         /\ SyncPlan.changedSince \in Nat \union {None}
  BY DEF Typed, FolderRow, SyncPlan, None, HasNew, FirstNew

LEMMA WithFacts ==
  ASSUME NEW f, NEW u, NEW v
  PROVE  /\ DOMAIN With(f, u, v) = DOMAIN f \union {u}
         /\ With(f, u, v)[u] = v
         /\ \A x \in DOMAIN f : x # u => With(f, u, v)[x] = f[x]
  BY DEF With

LEMMA RestrictFacts ==
  ASSUME NEW f, NEW S \in SUBSET (DOMAIN f)
  PROVE  DOMAIN Restrict(f, S) = S /\ \A x \in S : Restrict(f, S)[x] = f[x]
  BY DEF Restrict

-----------------------------------------------------------------------------
(* The steps.                                                              *)

\* A step that touches neither the server nor the cache and ends outside a
\* session.
LEMMA Passive ==
  ASSUME Consistent, UNCHANGED <<server, cache>>, pc' \notin InSession,
         poll' \in PollState, wire' \subseteq Uids \X Mail, top' \in TopState
  PROVE  Consistent'
  <1>1. Typed'
    BY DEF Consistent, Typed, server, cache
  <1>2. /\ Session' /\ Below' /\ WireOK' /\ RangeOK' /\ Reached'
    BY DEF Consistent, Session, Below, WireOK, RangeOK, Reached, server, cache, InSession
  <1>3. CursorIsHonest' /\ CacheIsMirror'
    BY DEF Consistent, CursorIsHonest, CacheIsMirror, server, cache
  <1> QED BY <1>1, <1>2, <1>3 DEF Consistent

LEMMA ArriveStep ==
  ASSUME Consistent, NEW m \in Messages, Arrive(m)
  PROVE  Consistent'
  <1> DEFINE fresh == [msg |-> m, seen |-> FALSE, modseq |-> highestModseq']
  <1>0. /\ highestModseq' \in Nat /\ uidNext' = uidNext + 1 /\ uidNext \in Nat \ {0}
        /\ UNCHANGED <<uidValidity, cache, local>>
        /\ box' = With(box, uidNext, fresh)
    BY DEF Consistent, Typed, Arrive, Change, Uids
  <1>1. fresh \in Mail
    BY <1>0 DEF Mail
  <1>2. /\ DOMAIN box' = DOMAIN box \union {uidNext} /\ box'[uidNext] = fresh
        /\ uidNext \notin DOMAIN box
        /\ \A u \in DOMAIN box : box'[u] = box[u] /\ u < uidNext /\ u \in Nat
    <2>1. uidNext \notin DOMAIN box /\ \A u \in DOMAIN box : u < uidNext /\ u \in Nat
      BY <1>0 DEF Consistent, Typed
    <2> HIDE DEF fresh
    <2>2. /\ DOMAIN box' = DOMAIN box \union {uidNext} /\ box'[uidNext] = fresh
          /\ \A u \in DOMAIN box : u # uidNext => box'[u] = box[u]
      BY <1>0 DEF With
    <2> QED BY <2>1, <2>2
  <1>3. Typed'
    <2>1. DOMAIN box' \subseteq 1..(uidNext' - 1)
      BY <1>0, <1>2 DEF Consistent, Typed
    <2>2. \A u \in DOMAIN box' : box'[u] \in Mail
      BY <1>1, <1>2 DEF Consistent, Typed
    <2>3. uidValidity' \in Nat /\ uidNext' \in Uids /\ highestModseq' \in Nat
      BY <1>0 DEF Consistent, Typed, Uids
    <2> QED BY <1>0, <2>1, <2>2, <2>3 DEF Consistent, Typed, cache, local
  <1>4. Session' /\ RangeOK'
    BY <1>0 DEF Consistent, Session, RangeOK, cache, local
  <1>5. Below'
    BY <1>0 DEF Consistent, Below, Typed, FolderRow, Uids, cache
  <1>6. WireOK'
    <2>0. pc' = pc /\ top' = top /\ wire' = wire
      BY <1>0 DEF local
    <2> SUFFICES ASSUME pc = "storing"
                 PROVE  WireOK'
      BY <2>0 DEF WireOK
    <2>1. WireOK BY DEF Consistent
    <2>2. \A w \in wire : w[1] \in Nat /\ w[1] < uidNext
      BY <2>1 DEF WireOK, Consistent, Typed, Uids
    <2>3. ASSUME NEW w \in wire, w[1] \in DOMAIN box'
          PROVE  w[1] \in DOMAIN box /\ box'[w[1]] = box[w[1]]
      <3>1. w[1] # uidNext
        BY <1>0, <2>2
      <3> QED BY <1>2, <2>3, <3>1
    <2>4. top.uid < uidNext'
      BY <1>0, <2>1 DEF WireOK, Consistent, Typed, TopState
    <2>5. ASSUME NEW w \in wire
          PROVE  /\ w[1] < uidNext' /\ top.uid < w[1]
                 /\ w[1] \in DOMAIN box' => w[2].msg = box'[w[1]].msg
      <3>1. w[1] < uidNext'
        BY <1>0, <2>2
      <3>2. top.uid < w[1]
        BY <2>1 DEF WireOK
      <3>3. w[1] \in DOMAIN box' => w[2].msg = box'[w[1]].msg
        BY <2>1, <2>3 DEF WireOK
      <3> QED BY <3>1, <3>2, <3>3
    <2>6. \A w, x \in wire : w[1] = x[1] => w = x
      BY <2>1 DEF WireOK
    <2> QED BY <2>0, <2>4, <2>5, <2>6 DEF WireOK
  <1>7. Reached'
    <2> SUFFICES ASSUME pc = "storing", NEW u \in DOMAIN box', u >= poll.fetchFrom
                 PROVE  \/ u \in DOMAIN rows
                        \/ \E w \in wire : w[1] = u
                        \/ top.uid < u /\ \A w \in wire : w[1] < u
      BY <1>0 DEF Reached, local, cache
    <2>1. CASE u \in DOMAIN box
      BY <2>1 DEF Consistent, Reached
    <2>2. CASE u = uidNext
      BY <2>2 DEF Consistent, WireOK
    <2> QED BY <1>2, <2>1, <2>2
  <1>8. CursorIsHonest'
    <2> SUFFICES ASSUME folder.uidValidity = uidValidity, NEW u \in DOMAIN box',
                        u <= folder.lastSeenUid
                 PROVE  u \in DOMAIN rows
      BY <1>0 DEF CursorIsHonest, cache
    <2>1. u # uidNext
      BY <1>0 DEF Consistent, Below, Typed, FolderRow
    <2> QED BY <1>2, <2>1 DEF Consistent, CursorIsHonest
  <1>9. CacheIsMirror'
    <2> SUFFICES ASSUME NEW u \in DOMAIN rows
                 PROVE  /\ rows[u].uidValidity = folder.uidValidity
                        /\ folder.uidValidity = uidValidity /\ u \in DOMAIN box' =>
                             rows[u].msg = box'[u].msg
      BY <1>0 DEF CacheIsMirror, cache
    <2>1. folder.uidValidity = uidValidity => u # uidNext
      BY <1>0 DEF Consistent, Below, Typed, Uids
    <2> QED BY <1>2, <2>1 DEF Consistent, CacheIsMirror
  <1> QED BY <1>3, <1>4, <1>5, <1>6, <1>7, <1>8, <1>9 DEF Consistent

\* A change of flags or an expunge: the server keeps a part of what it holds.
LEMMA ShrinkStep ==
  ASSUME Consistent, UNCHANGED <<uidValidity, uidNext, cache, local>>,
         highestModseq' \in Nat, DOMAIN box' \subseteq DOMAIN box,
         \A u \in DOMAIN box' : box'[u] \in Mail /\ box'[u].msg = box[u].msg
  PROVE  Consistent'
  <1>1. Typed'
    BY DEF Consistent, Typed, cache, local
  <1>2. Session' /\ Below' /\ RangeOK'
    BY DEF Consistent, Session, Below, RangeOK, cache, local
  <1>3. WireOK'
    BY DEF Consistent, WireOK, local
  <1>4. Reached'
    BY DEF Consistent, Reached, local, cache
  <1>5. CursorIsHonest' /\ CacheIsMirror'
    BY DEF Consistent, CursorIsHonest, CacheIsMirror, cache
  <1> QED BY <1>1, <1>2, <1>3, <1>4, <1>5 DEF Consistent

LEMMA MarkSeenStep ==
  ASSUME Consistent, NEW u \in DOMAIN box, MarkSeen(u)
  PROVE  Consistent'
  <1>1. highestModseq' \in Nat /\ UNCHANGED <<uidValidity, uidNext, cache, local>>
    BY DEF Consistent, Typed, MarkSeen, Change
  <1>2. DOMAIN box' = DOMAIN box
    BY DEF MarkSeen
  <1>3. \A v \in DOMAIN box : box[v] \in Mail
    BY DEF Consistent, Typed
  <1>4. \A v \in DOMAIN box' : box'[v] \in Mail /\ box'[v].msg = box[v].msg
    <2> SUFFICES ASSUME NEW v \in DOMAIN box PROVE box'[v] \in Mail /\ box'[v].msg = box[v].msg
      BY <1>2
    <2>1. CASE v # u
      BY <1>3, <2>1 DEF MarkSeen
    <2>2. CASE v = u
      <3>1. box'[u] = [box[u] EXCEPT !.seen = TRUE, !.modseq = highestModseq']
        BY DEF MarkSeen
      <3> QED BY <1>1, <1>3, <2>2, <3>1 DEF Mail
    <2> QED BY <2>1, <2>2
  <1> QED BY <1>1, <1>2, <1>4, ShrinkStep

LEMMA ExpungeStep ==
  ASSUME Consistent, NEW u \in DOMAIN box, Expunge(u)
  PROVE  Consistent'
  <1>1. highestModseq' \in Nat /\ UNCHANGED <<uidValidity, uidNext, cache, local>>
    BY DEF Consistent, Typed, Expunge, Change
  <1>2. DOMAIN box' \subseteq DOMAIN box /\ \A v \in DOMAIN box' : box'[v] = box[v]
    BY RestrictFacts DEF Expunge
  <1> QED BY <1>1, <1>2, ShrinkStep DEF Consistent, Typed

LEMMA RenumberStep ==
  ASSUME Consistent, Renumber
  PROVE  Consistent'
  <1> DEFINE n == Cardinality(DOMAIN box)
  <1>1. n \in Nat
    <2>1. IsFiniteSet(1..(uidNext - 1))
      BY FS_Interval DEF Consistent, Typed, Uids
    <2> QED BY <2>1, FS_Subset, FS_CardinalityType DEF Consistent, Typed
  <1>2. PICK old \in [1..n -> DOMAIN box] : box' = [i \in 1..n |-> box[old[i]]]
    BY DEF Renumber
  <1>3. /\ uidNext' = n + 1 /\ uidValidity' = uidValidity + 1
        /\ UNCHANGED <<highestModseq, cache, local>> /\ pc \notin InSession
    BY DEF Renumber, InSession, Fault
  <1>4. Typed'
    <2>1. DOMAIN box' \subseteq 1..(uidNext' - 1)
      BY <1>1, <1>2, <1>3
    <2>2. \A u \in DOMAIN box' : box'[u] \in Mail
      BY <1>2 DEF Consistent, Typed
    <2> QED BY <1>1, <1>3, <2>1, <2>2 DEF Consistent, Typed, cache, local, Uids
  <1>5. folder.uidValidity # uidValidity' /\ folder.uidValidity <= uidValidity'
    BY <1>3 DEF Consistent, Session, Typed, FolderRow
  <1>6. Session' /\ Below' /\ WireOK' /\ RangeOK' /\ Reached'
    BY <1>3, <1>5 DEF Session, Below, WireOK, RangeOK, Reached, InSession, cache, local
  <1>7. CursorIsHonest' /\ CacheIsMirror'
    BY <1>3, <1>5 DEF Consistent, CursorIsHonest, CacheIsMirror, cache
  <1> QED BY <1>4, <1>6, <1>7 DEF Consistent

-----------------------------------------------------------------------------
(* A session.                                                              *)

LEMMA SyncOnceStep ==
  ASSUME Consistent, SyncOnce
  PROVE  Consistent'
  <1> DEFINE plan == SyncPlan
  <1>1. /\ rows' = InvalidateFolder(plan.full)
        /\ folder' = [uidValidity |-> uidValidity,
                      lastSeenUid |-> IF plan.full THEN 0 ELSE folder.lastSeenUid,
                      highestModseq |-> highestModseq]
        /\ poll' = [poll EXCEPT !.fetchFrom = plan.fetchFrom,
                                !.changedSince = plan.changedSince]
        /\ pc' \in {"fetch", "deltas", "enumerate"}
        /\ pc' = "fetch" => plan.fetchFrom # None
        /\ UNCHANGED <<server, wire, top>>
    BY DEF SyncOnce
  <1>2. /\ plan.full \in BOOLEAN
        /\ plan.full => plan.fetchFrom = 1
        /\ ~plan.full => /\ folder.uidValidity = uidValidity
                         /\ plan.fetchFrom \in {None, folder.lastSeenUid + 1}
        /\ plan.changedSince \in Nat \union {None}
    BY PlanFacts DEF Consistent
  <1> HIDE DEF plan
  <1>3. /\ folder.lastSeenUid \in Nat /\ uidValidity \in Nat /\ highestModseq \in Nat
        /\ poll \in PollState
    BY DEF Consistent, Typed, FolderRow
  <1>4. /\ folder' \in FolderRow /\ folder'.uidValidity = uidValidity
        /\ folder'.lastSeenUid = IF plan.full THEN 0 ELSE folder.lastSeenUid
    BY <1>1, <1>2, <1>3 DEF FolderRow
  <1>5. plan.fetchFrom \in Nat \union {None}
    BY <1>2, <1>3
  <1>6. poll' \in PollState /\ poll'.fetchFrom = plan.fetchFrom
    BY <1>1, <1>2, <1>3, <1>5 DEF PollState
  <1>7. /\ plan.full => DOMAIN rows' = {}
        /\ ~plan.full => rows' = rows
    BY <1>1 DEF InvalidateFolder
  <1>8. Typed'
    BY <1>1, <1>2, <1>4, <1>6, <1>7 DEF Consistent, Typed, server
  <1>9. Session' /\ WireOK' /\ Reached'
    BY <1>1, <1>3, <1>4 DEF Session, WireOK, Reached, server
  <1>10. RangeOK'
    <2>1. ASSUME pc' = "fetch" PROVE plan.fetchFrom \in Nat /\ plan.fetchFrom <= folder'.lastSeenUid + 1
      BY <1>1, <1>2, <1>3, <1>4, <2>1 DEF None
    <2> QED BY <1>1, <1>6, <2>1 DEF RangeOK
  <1>11. uidNext \in Uids /\ \A u \in DOMAIN box : u \in Uids
    BY DEF Consistent, Typed, Uids
  <1>12. Below'
    BY <1>1, <1>2, <1>4, <1>7, <1>11 DEF Consistent, Below, server, Uids
  <1>13. CursorIsHonest'
    BY <1>1, <1>2, <1>4, <1>7, <1>11 DEF Consistent, CursorIsHonest, server, Uids
  <1>14. CacheIsMirror'
    BY <1>1, <1>2, <1>4, <1>7 DEF Consistent, CacheIsMirror, server
  <1> QED BY <1>8, <1>9, <1>10, <1>12, <1>13, <1>14 DEF Consistent

LEMMA FetchAnsweredStep ==
  ASSUME Consistent, FetchAnswered
  PROVE  Consistent'
  <1>1. /\ pc = "fetch" /\ pc' = "storing" /\ top' = NoTop
        /\ UNCHANGED <<server, cache, poll>>
        /\ \A w \in wire' : w[1] \in DOMAIN box /\ w = <<w[1], box[w[1]]>>
        /\ \A u \in DOMAIN box : u >= poll.fetchFrom => <<u, box[u]>> \in wire'
    BY DEF FetchAnswered
  <1>2. /\ uidNext \in Uids
        /\ \A u \in DOMAIN box : u \in Uids /\ u < uidNext /\ box[u] \in Mail
    BY DEF Consistent, Typed, Uids
  <1>3. top' \in TopState /\ top'.uid = 0
    BY <1>1 DEF NoTop, TopState
  <1>4. Typed'
    <2>1. wire' \subseteq Uids \X Mail
      BY <1>1, <1>2
    <2> QED BY <1>1, <1>3, <2>1 DEF Consistent, Typed, server, cache
  <1>5. Session' /\ Below' /\ RangeOK' /\ CursorIsHonest' /\ CacheIsMirror'
    BY <1>1 DEF Consistent, Session, Below, RangeOK, CursorIsHonest, CacheIsMirror,
                server, cache
  <1>6. WireOK'
    <2>0. UNCHANGED <<box, uidNext>>
      BY <1>1 DEF server
    <2>1. top'.uid < uidNext
      BY <1>2, <1>3 DEF Uids
    <2>2. \A w \in wire' : /\ w[1] < uidNext /\ top'.uid < w[1]
                           /\ w[2].msg = box[w[1]].msg
      BY <1>1, <1>2, <1>3 DEF Uids
    <2>3. \A w, x \in wire' : w[1] = x[1] => w = x
      BY <1>1
    <2> QED BY <2>0, <2>1, <2>2, <2>3 DEF WireOK
  <1>7. Reached'
    <2>1. \A u \in DOMAIN box : u >= poll.fetchFrom => \E w \in wire' : w[1] = u
      BY <1>1
    <2> QED BY <1>1, <2>1 DEF Reached, server
  <1> QED BY <1>4, <1>5, <1>6, <1>7 DEF Consistent

LEMMA DeliverFacts ==
  ASSUME Typed, NEW w, Deliver(w)
  PROVE  /\ w \in wire /\ wire' = wire \ {w}
         /\ w[1] \in Uids /\ w[2] \in Mail
         /\ \A x \in wire : w[1] <= x[1] /\ x[1] \in Uids
         /\ top' \in TopState /\ top'.uid = Larger(top.uid, w[1])
  <1>1. w \in wire /\ wire' = wire \ {w} /\ \A x \in wire : w[1] <= x[1]
    BY DEF Deliver
  <1>2. w[1] \in Uids /\ w[2] \in Mail /\ \A x \in wire : x[1] \in Uids
    BY <1>1 DEF Typed
  <1>3. Larger(top.uid, w[1]) \in Nat /\ Larger(top.modseq, w[2].modseq) \in Nat
    BY <1>2 DEF Typed, TopState, Mail, Uids, Larger
  <1>4. top' \in TopState /\ top'.uid = Larger(top.uid, w[1])
    BY <1>3 DEF Deliver, TopState
  <1> QED BY <1>1, <1>2, <1>4

LEMMA StoreMessageStep ==
  ASSUME Consistent, NEW w, StoreMessage(w)
  PROVE  Consistent'
  <1> DEFINE row == [msg |-> w[2].msg, seen |-> w[2].seen, uidValidity |-> folder.uidValidity]
  <1>1. /\ pc = "storing" /\ Deliver(w) /\ rows' = With(rows, w[1], row)
        /\ UNCHANGED <<server, folder, pc, poll>>
    BY DEF StoreMessage
  <1>2. /\ w \in wire /\ wire' = wire \ {w}
        /\ w[1] \in Uids /\ w[2] \in Mail
        /\ \A x \in wire : w[1] <= x[1] /\ x[1] \in Uids
        /\ top' \in TopState /\ top'.uid = Larger(top.uid, w[1])
    BY <1>1, DeliverFacts DEF Consistent
  <1>3. row \in Row /\ row.msg = w[2].msg /\ row.uidValidity = folder.uidValidity
    BY <1>2 DEF Row, Mail, Consistent, Typed, FolderRow
  <1> HIDE DEF row
  <1>4. /\ DOMAIN rows' = DOMAIN rows \union {w[1]} /\ rows'[w[1]] = row
        /\ \A u \in DOMAIN rows : u # w[1] => rows'[u] = rows[u]
    BY <1>1 DEF With
  <1>5. /\ top.uid < w[1] /\ w[1] < uidNext
        /\ w[1] \in DOMAIN box => w[2].msg = box[w[1]].msg
        /\ \A x \in wire : x[1] < uidNext /\ (x[1] \in DOMAIN box => x[2].msg = box[x[1]].msg)
        /\ \A x \in wire : x[1] = w[1] => x = w
        /\ \A x, y \in wire : x[1] = y[1] => x = y
    BY <1>1, <1>2 DEF Consistent, WireOK
  <1>6. top'.uid = w[1]
    BY <1>2, <1>5 DEF Larger, Consistent, Typed, TopState, Uids
  <1>7. UNCHANGED <<uidValidity, uidNext, highestModseq, box>>
    BY <1>1 DEF server
  <1>8. Typed'
    BY <1>1, <1>2, <1>3, <1>4, <1>7 DEF Consistent, Typed
  <1>9. Session' /\ RangeOK'
    BY <1>1, <1>7 DEF Consistent, Session, RangeOK
  <1>10. Below'
    BY <1>1, <1>4, <1>5, <1>7 DEF Consistent, Below
  <1>11. WireOK'
    <2>1. \A x \in wire' : x[1] < uidNext /\ w[1] < x[1]
      BY <1>2, <1>5 DEF Uids
    <2>2. \A x \in wire' : x[1] \in DOMAIN box => x[2].msg = box[x[1]].msg
      BY <1>2, <1>5
    <2>3. \A x, y \in wire' : x[1] = y[1] => x = y
      BY <1>2, <1>5
    <2> QED BY <1>5, <1>6, <1>7, <2>1, <2>2, <2>3 DEF WireOK
  <1>12. Reached'
    <2> SUFFICES ASSUME NEW u \in DOMAIN box, u >= poll.fetchFrom
                 PROVE  \/ u \in DOMAIN rows'
                        \/ \E x \in wire' : x[1] = u
                        \/ w[1] < u /\ \A x \in wire' : x[1] < u
      BY <1>1, <1>6, <1>7 DEF Reached
    <2>1. \/ u \in DOMAIN rows
          \/ \E x \in wire : x[1] = u
          \/ top.uid < u /\ \A x \in wire : x[1] < u
      BY <1>1 DEF Consistent, Reached
    <2> QED BY <1>2, <1>4, <2>1
  <1>13. CursorIsHonest'
    BY <1>1, <1>4, <1>7 DEF Consistent, CursorIsHonest
  <1>14. CacheIsMirror'
    BY <1>1, <1>3, <1>4, <1>5, <1>7 DEF Consistent, CacheIsMirror
  <1> QED BY <1>8, <1>9, <1>10, <1>11, <1>12, <1>13, <1>14 DEF Consistent

\* Of the folder row, setSyncCursor touches the cursors only, and lastSeenUid
\* never goes back.
LEMMA CursorFacts ==
  ASSUME Typed, NEW uid \in Nat, SetSyncCursor(uid)
  PROVE  /\ folder' \in FolderRow
         /\ folder'.uidValidity = folder.uidValidity
         /\ folder'.lastSeenUid = Larger(folder.lastSeenUid, uid)
  <1> DEFINE last == Larger(folder.lastSeenUid, uid)
             modseq == IF top.modseq = 0 THEN folder.highestModseq ELSE top.modseq
  <1>1. last \in Nat /\ modseq \in Nat
    BY DEF Typed, FolderRow, TopState, Larger
  <1>2. folder' = [folder EXCEPT !.lastSeenUid = last, !.highestModseq = modseq]
    BY DEF SetSyncCursor
  <1>3. folder \in FolderRow
    BY DEF Typed
  <1> HIDE DEF last, modseq
  <1>4. /\ folder' \in FolderRow
        /\ folder'.uidValidity = folder.uidValidity
        /\ folder'.lastSeenUid = last
    BY <1>1, <1>2, <1>3 DEF FolderRow
  <1> QED BY <1>4 DEF last

\* The cursor passes only what the FETCH has delivered.
LEMMA FetchDoneStep ==
  ASSUME Consistent, FetchDone
  PROVE  Consistent'
  <1>1. /\ pc = "storing" /\ wire = {} /\ SetSyncCursor(top.uid)
        /\ pc' \in {"deltas", "enumerate"}
        /\ UNCHANGED <<server, rows, poll, wire, top>>
    BY DEF FetchDone
  <1>2. folder.lastSeenUid \in Nat /\ top.uid \in Nat /\ uidNext \in Nat
    BY DEF Consistent, Typed, FolderRow, TopState, Uids
  <1>3. /\ folder' \in FolderRow
        /\ folder'.uidValidity = folder.uidValidity
        /\ folder'.lastSeenUid = Larger(folder.lastSeenUid, top.uid)
    BY <1>1, <1>2, CursorFacts DEF Consistent
  <1>4. UNCHANGED <<uidValidity, uidNext, highestModseq, box>>
    BY <1>1 DEF server
  <1>5. Typed'
    BY <1>1, <1>3, <1>4 DEF Consistent, Typed
  <1>6. Session' /\ WireOK' /\ RangeOK' /\ Reached'
    BY <1>1, <1>3, <1>4 DEF Consistent, Session, WireOK, RangeOK, Reached
  <1>7. Below'
    <2>1. folder.uidValidity = uidValidity => folder'.lastSeenUid < uidNext
      BY <1>1, <1>2, <1>3 DEF Consistent, Below, WireOK, Larger
    <2> QED BY <1>1, <1>3, <1>4, <2>1 DEF Consistent, Below
  <1>8. CursorIsHonest'
    <2> SUFFICES ASSUME folder.uidValidity = uidValidity, NEW u \in DOMAIN box,
                        u <= folder'.lastSeenUid
                 PROVE  u \in DOMAIN rows
      BY <1>1, <1>3, <1>4 DEF CursorIsHonest
    <2>1. u \in Nat
      BY <1>2 DEF Consistent, Typed
    <2>2. CASE u <= folder.lastSeenUid
      BY <2>2 DEF Consistent, CursorIsHonest
    <2>3. CASE ~(u <= folder.lastSeenUid)
      <3>1. u >= poll.fetchFrom
        BY <1>1, <1>2, <2>1, <2>3 DEF Consistent, RangeOK
      <3>2. ~(top.uid < u)
        BY <1>2, <1>3, <2>1, <2>3 DEF Larger
      <3> QED BY <1>1, <3>1, <3>2 DEF Consistent, Reached
    <2> QED BY <2>2, <2>3
  <1>9. CacheIsMirror'
    BY <1>1, <1>3, <1>4 DEF Consistent, CacheIsMirror
  <1> QED BY <1>5, <1>6, <1>7, <1>8, <1>9 DEF Consistent

LEMMA DeltasAnsweredStep ==
  ASSUME Consistent, DeltasAnswered
  PROVE  Consistent'
  <1>1. /\ pc = "deltas" /\ pc' = "flags" /\ top' = NoTop
        /\ UNCHANGED <<server, cache, poll>>
        /\ \A w \in wire' : w[1] \in DOMAIN box /\ w = <<w[1], box[w[1]]>>
    BY DEF DeltasAnswered
  <1>2. wire' \subseteq Uids \X Mail
    BY <1>1 DEF Consistent, Typed, Uids
  <1>3. top' \in TopState
    BY <1>1 DEF NoTop, TopState
  <1>4. Typed'
    BY <1>1, <1>2, <1>3 DEF Consistent, Typed, server, cache
  <1>5. /\ Session' /\ Below' /\ WireOK' /\ RangeOK' /\ Reached'
        /\ CursorIsHonest' /\ CacheIsMirror'
    BY <1>1 DEF Consistent, Session, Below, WireOK, RangeOK, Reached,
                CursorIsHonest, CacheIsMirror, server, cache
  <1> QED BY <1>4, <1>5 DEF Consistent

LEMMA UpdateFlagsStep ==
  ASSUME Consistent, NEW w, UpdateFlags(w)
  PROVE  Consistent'
  <1>1. /\ pc = "flags" /\ Deliver(w)
        /\ UNCHANGED <<server, folder, pc, poll>>
        /\ rows' = IF w[1] \in DOMAIN rows THEN [rows EXCEPT ![w[1]].seen = w[2].seen]
                   ELSE rows
    BY DEF UpdateFlags
  <1>2. wire' \subseteq wire /\ top' \in TopState
    BY <1>1, DeliverFacts DEF Consistent
  <1>3. /\ DOMAIN rows' = DOMAIN rows
        /\ \A u \in DOMAIN rows : /\ rows'[u] \in Row
                                  /\ rows'[u].msg = rows[u].msg
                                  /\ rows'[u].uidValidity = rows[u].uidValidity
    <2>1. DOMAIN rows' = DOMAIN rows
      BY <1>1
    <2>2. ASSUME NEW u \in DOMAIN rows
          PROVE  \/ rows'[u] = rows[u]
                 \/ rows'[u] = [rows[u] EXCEPT !.seen = w[2].seen]
      BY <1>1
    <2>3. w[2].seen \in BOOLEAN
      BY <1>1, DeliverFacts DEF Consistent, Mail
    <2>4. ASSUME NEW u \in DOMAIN rows
          PROVE  /\ rows'[u] \in Row /\ rows'[u].msg = rows[u].msg
                 /\ rows'[u].uidValidity = rows[u].uidValidity
      <3>1. rows[u] \in Row
        BY DEF Consistent, Typed
      <3> QED BY <2>2, <2>3, <3>1 DEF Row
    <2> QED BY <2>1, <2>4
  <1>4. Typed'
    BY <1>1, <1>2, <1>3 DEF Consistent, Typed, server
  <1>5. /\ Session' /\ Below' /\ WireOK' /\ RangeOK' /\ Reached'
    BY <1>1, <1>3 DEF Consistent, Session, Below, WireOK, RangeOK, Reached, server
  <1>6. CursorIsHonest' /\ CacheIsMirror'
    BY <1>1, <1>3 DEF Consistent, CursorIsHonest, CacheIsMirror, server
  <1> QED BY <1>4, <1>5, <1>6 DEF Consistent

LEMMA FlagsDoneStep ==
  ASSUME Consistent, FlagsDone
  PROVE  Consistent'
  <1>1. /\ pc = "flags" /\ SetSyncCursor(0) /\ pc' = "enumerate"
        /\ UNCHANGED <<server, rows, poll, wire, top>>
    BY DEF FlagsDone
  <1>2. folder.lastSeenUid \in Nat
    BY DEF Consistent, Typed, FolderRow
  <1>3. /\ folder' \in FolderRow
        /\ folder'.uidValidity = folder.uidValidity
        /\ folder'.lastSeenUid = folder.lastSeenUid
    BY <1>1, <1>2, CursorFacts DEF Consistent, Larger
  <1>4. Typed'
    BY <1>1, <1>3 DEF Consistent, Typed, server
  <1>5. /\ Session' /\ Below' /\ WireOK' /\ RangeOK' /\ Reached'
        /\ CursorIsHonest' /\ CacheIsMirror'
    BY <1>1, <1>3 DEF Consistent, Session, Below, WireOK, RangeOK, Reached,
                      CursorIsHonest, CacheIsMirror, server
  <1> QED BY <1>4, <1>5 DEF Consistent

-----------------------------------------------------------------------------
(* The theorems.                                                           *)

LEMMA InitConsistent ==
  ASSUME Init
  PROVE  Consistent
  <1>1. Typed
    BY DEF Init, Typed, NoFolder, FolderRow, NoPoll, PollState, NoTop, TopState, Uids, None
  <1>2. Session /\ Below /\ WireOK /\ RangeOK /\ Reached /\ CursorIsHonest /\ CacheIsMirror
    BY DEF Init, Session, Below, WireOK, RangeOK, Reached, CursorIsHonest, CacheIsMirror,
           NoFolder
  <1> QED BY <1>1, <1>2 DEF Consistent

LEMMA PassiveSteps ==
  ASSUME Consistent,
         \/ PollFolder \/ Enumerate \/ Return
         \/ \E u \in todo : Build(u) \/ BuildFails(u)
         \/ ProcessMessage \/ CycleDone \/ Drop \/ Crash
  PROVE  Consistent'
  <1>1. poll \in PollState /\ wire \subseteq Uids \X Mail /\ top \in TopState
        /\ folder.lastSeenUid \in Nat
    BY DEF Consistent, Typed, FolderRow
  <1>2. NoPoll \in PollState /\ NoTop \in TopState
    BY DEF NoPoll, PollState, NoTop, TopState, None
  <1>3. CASE PollFolder
    <2>1. poll' \in PollState
      BY <1>1, <1>2, <1>3 DEF PollFolder, PollState
    <2> QED BY <1>1, <1>3, <2>1, Passive DEF PollFolder, InSession
  <1>4. CASE Enumerate
    BY <1>1, <1>4, Passive DEF Enumerate, InSession
  <1>5. CASE Return \/ \E u \in todo : Build(u) \/ BuildFails(u)
    BY <1>1, <1>5, Passive DEF Build, BuildFails, NextRow, Return, InSession
  <1>6. CASE ProcessMessage
    BY <1>1, <1>6, Passive DEF ProcessMessage, InSession
  <1>7. CASE CycleDone
    BY <1>1, <1>2, <1>7, Passive DEF CycleDone, InSession
  <1>8. CASE Drop \/ Crash
    <2>1. Abandon
      BY <1>8 DEF Drop, Crash
    <2>2. /\ pc' = "idle" /\ poll' = NoPoll /\ wire' = {} /\ top' = NoTop
          /\ UNCHANGED cache
      BY <2>1 DEF Abandon
    <2>3. UNCHANGED server
      BY <2>1 DEF Abandon
    <2> QED BY <1>2, <2>2, <2>3, Passive DEF InSession
  <1> QED BY <1>3, <1>4, <1>5, <1>6, <1>7, <1>8

LEMMA NextConsistent ==
  ASSUME Consistent, [Next]_vars
  PROVE  Consistent'
  <1>1. CASE Mailbox
    BY <1>1, ArriveStep, MarkSeenStep, ExpungeStep, RenumberStep DEF Mailbox
  <1>2. CASE Poll
    BY <1>2, PassiveSteps, SyncOnceStep, FetchAnsweredStep, StoreMessageStep,
       UpdateFlagsStep, FetchDoneStep, DeltasAnsweredStep, FlagsDoneStep DEF Poll
  <1>3. CASE (\E u \in todo : BuildFails(u)) \/ Drop \/ Crash
    BY <1>3, PassiveSteps
  <1>4. CASE UNCHANGED vars
    <2>1. UNCHANGED <<server, cache, local>>
      BY <1>4 DEF vars
    <2>2. Typed' /\ Session' /\ Below' /\ WireOK' /\ RangeOK' /\ Reached'
      BY <2>1 DEF Consistent, Typed, Session, Below, WireOK, RangeOK, Reached,
                  server, cache, local
    <2>3. CursorIsHonest' /\ CacheIsMirror'
      BY <2>1 DEF Consistent, CursorIsHonest, CacheIsMirror, server, cache
    <2> QED BY <2>2, <2>3 DEF Consistent
  <1> QED BY <1>1, <1>2, <1>3, <1>4 DEF Next

\* What a FETCH has delivered, what it has yet to deliver and what the cursor
\* says fit together in every reachable state.
THEOREM Invariance == Spec => []Consistent
  <1>1. Init => Consistent
    BY InitConsistent
  <1>2. Consistent /\ [Next]_vars => Consistent'
    BY NextConsistent
  <1> QED BY <1>1, <1>2, PTL DEF Spec

\* The sync cursor never passes a message the cache does not hold, whatever
\* drop, crash or renumbering interrupts mailbox-sync.
THEOREM CursorIsHonestHolds == Spec => []CursorIsHonest
  <1>1. Consistent => CursorIsHonest
    BY DEF Consistent
  <1> QED BY <1>1, Invariance, PTL

\* The cached rows belong to the numbering of the folder row and show what the
\* server has under their UIDs.
THEOREM CacheIsMirrorHolds == Spec => []CacheIsMirror
  <1>1. Consistent => CacheIsMirror
    BY DEF Consistent
  <1> QED BY <1>1, Invariance, PTL

-----------------------------------------------------------------------------
(***************************************************************************)
(* What becomes of the fetched messages.  Tracked follows every message    *)
(* from the server's numbering over the cursor into the hands of the       *)
(* cycle; it is inductive on top of Consistent.  Renumbering voids the     *)
(* larger part of it: after one, messages are told apart by UIDs that      *)
(* start anew.                                                             *)
(***************************************************************************)

\* Where a poll stands before the new rows are chosen, and after it has stored
\* the last of them.
Fetching == {"opening", "fetch", "storing", "deltas", "flags", "enumerate"}
Caught == {"deltas", "flags", "enumerate"}

\* The types of what the poll hands on, and when it has any.
Recorded ==
  /\ uidValidity # 0
  /\ triaged \in [Messages -> Nat]
  /\ out \in Seq(Messages) /\ todo \subseteq DOMAIN rows
  /\ pc # "build" => todo = {}
  /\ pc \notin {"build", "triage"} => out = << >>

\* Nothing is known of a message that has yet to arrive.
Known ==
  /\ \A u \in DOMAIN box : box[u].msg \in arrived
  /\ \A u \in DOMAIN rows : rows[u].msg \in arrived
  /\ pc = "storing" => \A w \in wire : w[2].msg \in arrived
  /\ Range(out) \subseteq arrived
  /\ \A m \in Messages : triaged[m] > 0 => m \in arrived

\* A message the server holds has one UID, here and there.
Numbered ==
  /\ \A u, v \in DOMAIN box : box[u].msg = box[v].msg => u = v
  /\ \A u \in DOMAIN rows, v \in DOMAIN box : rows[u].msg = box[v].msg => u = v
  /\ pc = "storing" => \A w \in wire, v \in DOMAIN box : w[2].msg = box[v].msg => w[1] = v

\* What the poll remembers of the cursor is where the cursor stood.
CursorKept ==
  /\ folder.uidValidity = 0 => folder = NoFolder /\ DOMAIN rows = {}
  /\ pc \in {"opening", "fetch", "storing"} => poll.before = folder.lastSeenUid
  /\ poll.firstSync => poll.before = 0

\* The cursor comes to stand on or above every row of a message still there.
AllBelow ==
  /\ pc = "storing" =>
       \A u \in DOMAIN box \intersect DOMAIN rows :
         u <= folder.lastSeenUid \/ u <= top.uid \/ \E w \in wire : w[1] = u
  /\ pc \in Caught =>
       \A u \in DOMAIN box \intersect DOMAIN rows : u <= folder.lastSeenUid

\* A message fetched again is stored over its own row, and one at or below the
\* cursor has a row.
Refetched ==
  pc = "storing" =>
    \A w \in wire : /\ w[1] \in DOMAIN rows => rows[w[1]].msg = w[2].msg
                    /\ w[1] <= folder.lastSeenUid => w[1] \in DOMAIN rows

\* A processed message is behind the cursor, below what the poll takes for new,
\* and in nobody's hands any more; a message in hand is behind the cursor, too.
Once ==
  /\ \A u \in DOMAIN box :
       /\ triaged[box[u].msg] <= 1
       /\ triaged[box[u].msg] = 1 =>
            /\ u <= folder.lastSeenUid /\ u \notin todo /\ box[u].msg \notin Range(out)
            /\ pc \in Fetching => u <= poll.before
       /\ box[u].msg \in Range(out) => u <= folder.lastSeenUid /\ u \notin todo
       /\ u \in todo => u <= folder.lastSeenUid
  /\ \A i, j \in DOMAIN out : out[i] = out[j] /\ out[i] \in Held => i = j

FirstNumbering == Numbered /\ CursorKept /\ AllBelow /\ Refetched /\ Once

Tracked == Recorded /\ Known /\ (uidValidity = 1 => FirstNumbering) /\ NothingSkipped

LEMMA BoxFacts ==
  ASSUME Consistent
  PROVE  /\ uidNext \in Nat \ {0} /\ uidValidity \in Nat
         /\ \A u \in DOMAIN box : u \in Nat \ {0} /\ u < uidNext /\ box[u].msg \in Messages
         /\ \A u \in DOMAIN rows : u \in Nat \ {0} /\ rows[u].msg \in Messages
         /\ folder.lastSeenUid \in Nat /\ folder.uidValidity \in Nat
         /\ poll.before \in Nat /\ top.uid \in Nat
         /\ \A w \in wire : w[1] \in Nat \ {0} /\ w[2].msg \in Messages
  <1>1. \A u \in DOMAIN box : u \in Nat \ {0} /\ u < uidNext
    BY DEF Consistent, Typed, Uids
  <1>2. \A u \in DOMAIN box : box[u].msg \in Messages
    BY DEF Consistent, Typed, Mail
  <1>3. \A u \in DOMAIN rows : u \in Nat \ {0} /\ rows[u].msg \in Messages
    BY DEF Consistent, Typed, Row, Uids
  <1>4. \A w \in wire : w[1] \in Nat \ {0} /\ w[2].msg \in Messages
    BY DEF Consistent, Typed, Mail, Uids
  <1>5. /\ uidNext \in Nat \ {0} /\ uidValidity \in Nat /\ folder.lastSeenUid \in Nat
        /\ folder.uidValidity \in Nat /\ poll.before \in Nat /\ top.uid \in Nat
    BY DEF Consistent, Typed, FolderRow, PollState, TopState, Uids
  <1> QED BY <1>1, <1>2, <1>3, <1>4, <1>5

\* While the server keeps its first numbering, no row is above its next UID.
LEMMA RowsBelow ==
  ASSUME Consistent, FirstNumbering, uidValidity = 1
  PROVE  /\ \A u \in DOMAIN rows : u < uidNext
         /\ folder.lastSeenUid < uidNext
  <1>1. CASE folder.uidValidity = 0
    BY <1>1, BoxFacts DEF FirstNumbering, CursorKept, NoFolder
  <1>2. CASE folder.uidValidity = 1
    BY <1>2 DEF Consistent, Below
  <1>3. folder.uidValidity <= 1 /\ folder.uidValidity \in Nat
    BY BoxFacts DEF Consistent, Session
  <1> QED BY <1>1, <1>2, <1>3

-----------------------------------------------------------------------------
(* The mailbox.                                                            *)

LEMMA ArriveTracked ==
  ASSUME Consistent, Tracked, NEW m \in Messages, Arrive(m)
  PROVE  Tracked'
  <1> DEFINE n == uidNext
  <1>1. /\ UNCHANGED <<uidValidity, cache, local, history>> /\ m \notin arrived
        /\ arrived' = arrived \union {m}
    BY DEF Arrive, Change
  <1>2. /\ DOMAIN box' = DOMAIN box \union {n} /\ box'[n].msg = m
        /\ \A u \in DOMAIN box : box'[u] = box[u]
        /\ n \notin DOMAIN box
    <2>1. n \notin DOMAIN box
      BY BoxFacts
    <2> QED BY <2>1 DEF Arrive, With
  <1>3. Recorded'
    BY <1>1 DEF Tracked, Recorded, cache, local, history
  <1>4. Known'
    BY <1>1, <1>2 DEF Tracked, Known, cache, local, history
  <1>5. NothingSkipped'
    BY <1>1 DEF Tracked, NothingSkipped, InFlight, cache, local, history
  <1>6. ASSUME uidValidity' = 1 PROVE FirstNumbering'
    <2>0. FirstNumbering /\ Known /\ Recorded
      BY <1>1, <1>6 DEF Tracked
    <2>1. n \notin DOMAIN rows
      BY <1>1, <1>6, <2>0, RowsBelow, BoxFacts
    <2>2. Numbered'
      <3>1. /\ \A u \in DOMAIN box : box[u].msg # m
            /\ \A u \in DOMAIN rows : rows[u].msg # m
            /\ pc = "storing" => \A w \in wire : w[2].msg # m
        BY <1>1, <2>0 DEF Known
      <3> QED BY <1>1, <1>2, <2>0, <3>1 DEF FirstNumbering, Numbered, cache, local
    <2>3. CursorKept' /\ Refetched'
      BY <1>1, <2>0 DEF FirstNumbering, CursorKept, Refetched, cache, local
    <2>4. AllBelow'
      BY <1>1, <1>2, <2>0, <2>1 DEF FirstNumbering, AllBelow, cache, local
    <2>5. Once'
      <3>1. triaged[m] = 0 /\ m \notin Range(out)
        BY <1>1, <2>0 DEF Known, Recorded
      <3>2. n \notin todo
        BY <2>0, <2>1 DEF Recorded
      <3>3. \A i \in DOMAIN out : out[i] \in Held' => out[i] \in Held
        BY <1>2, <3>1 DEF Held, Range
      <3>4. \A u \in DOMAIN box' :
              /\ triaged[box'[u].msg] <= 1
              /\ triaged[box'[u].msg] = 1 =>
                   /\ u <= folder.lastSeenUid /\ u \notin todo /\ box'[u].msg \notin Range(out)
                   /\ pc \in Fetching => u <= poll.before
              /\ box'[u].msg \in Range(out) => u <= folder.lastSeenUid /\ u \notin todo
              /\ u \in todo => u <= folder.lastSeenUid
        BY <1>2, <2>0, <3>1, <3>2 DEF FirstNumbering, Once
      <3>5. \A i, j \in DOMAIN out : out[i] = out[j] /\ out[i] \in Held' => i = j
        BY <2>0, <3>3 DEF FirstNumbering, Once
      <3>6. UNCHANGED <<triaged, folder, todo, out, pc, poll>>
        BY <1>1 DEF cache, local, history
      <3> QED BY <3>4, <3>5, <3>6 DEF Once
    <2> QED BY <2>2, <2>3, <2>4, <2>5 DEF FirstNumbering
  <1> QED BY <1>3, <1>4, <1>5, <1>6 DEF Tracked

\* A change of flags or an expunge.
LEMMA ShrinkTracked ==
  ASSUME Consistent, Tracked, UNCHANGED <<uidValidity, arrived, cache, local, history>>,
         DOMAIN box' \subseteq DOMAIN box,
         \A u \in DOMAIN box' : box'[u].msg = box[u].msg
  PROVE  Tracked'
  <1>1. Recorded' /\ NothingSkipped'
    BY DEF Tracked, Recorded, NothingSkipped, InFlight, cache, local, history
  <1>2. Known'
    BY DEF Tracked, Known, cache, local, history
  <1>3. ASSUME uidValidity' = 1 PROVE FirstNumbering'
    <2>0. FirstNumbering
      BY <1>3 DEF Tracked
    <2>1. Numbered' /\ CursorKept' /\ Refetched'
      BY <2>0 DEF FirstNumbering, Numbered, CursorKept, Refetched, cache, local
    <2>2. AllBelow'
      BY <2>0 DEF FirstNumbering, AllBelow, cache, local
    <2>3. Once'
      <3>1. Held' \subseteq Held
        BY DEF Held
      <3> QED BY <2>0, <3>1 DEF FirstNumbering, Once, cache, local, history
    <2> QED BY <2>1, <2>2, <2>3 DEF FirstNumbering
  <1> QED BY <1>1, <1>2, <1>3 DEF Tracked

LEMMA MailboxTracked ==
  ASSUME Consistent, Tracked, Mailbox
  PROVE  Tracked'
  <1>1. CASE \E m \in Messages : Arrive(m)
    BY <1>1, ArriveTracked
  <1>2. ASSUME NEW u \in DOMAIN box, MarkSeen(u) PROVE Tracked'
    <2>1. \A v \in DOMAIN box : box[v] \in Mail
      BY DEF Consistent, Typed
    <2>2. box' = [box EXCEPT ![u].seen = TRUE, ![u].modseq = highestModseq']
      BY <1>2 DEF MarkSeen
    <2>3. DOMAIN box' = DOMAIN box /\ \A v \in DOMAIN box : box'[v].msg = box[v].msg
      BY <2>1, <2>2 DEF Mail
    <2>4. UNCHANGED <<uidValidity, arrived, cache, local, history>>
      BY <1>2 DEF MarkSeen, Change
    <2> QED BY <2>3, <2>4, ShrinkTracked
  <1>3. ASSUME NEW u \in DOMAIN box, Expunge(u) PROVE Tracked'
    <2>1. DOMAIN box' \subseteq DOMAIN box /\ \A v \in DOMAIN box' : box'[v] = box[v]
      BY <1>3, RestrictFacts DEF Expunge
    <2>2. UNCHANGED <<uidValidity, arrived, cache, local, history>>
      BY <1>3 DEF Expunge, Change
    <2> QED BY <2>1, <2>2, ShrinkTracked
  <1>4. CASE Renumber
    <2>1. /\ uidValidity' = uidValidity + 1
          /\ UNCHANGED <<arrived, cache, local, archive, triaged, excused>>
      BY <1>4 DEF Renumber
    <2>2. uidValidity' # 1 /\ uidValidity' # 0
      BY <2>1, BoxFacts DEF Tracked, Recorded
    <2>3. \A u \in DOMAIN box' : \E v \in DOMAIN box : box'[u] = box[v]
      BY <1>4 DEF Renumber
    <2>4. Recorded' /\ NothingSkipped'
      BY <2>1, <2>2 DEF Tracked, Recorded, NothingSkipped, cache, local
    <2>5. Known'
      BY <2>1, <2>3 DEF Tracked, Known, cache, local
    <2> QED BY <2>2, <2>4, <2>5 DEF Tracked
  <1> QED BY <1>1, <1>2, <1>3, <1>4 DEF Mailbox

-----------------------------------------------------------------------------
(* The session.                                                            *)

LEMMA PollFolderTracked ==
  ASSUME Consistent, Tracked, PollFolder
  PROVE  Tracked'
  <1>1. /\ pc = "idle" /\ pc' = "opening"
        /\ poll' = [NoPoll EXCEPT !.before = folder.lastSeenUid,
                                  !.firstSync = (folder = NoFolder)]
        /\ UNCHANGED <<server, cache, wire, top, todo, out, history>>
    BY DEF PollFolder
  <1>2. poll'.before = folder.lastSeenUid /\ poll'.firstSync = (folder = NoFolder)
    BY <1>1 DEF NoPoll
  <1>3. todo = {} /\ out = << >>
    BY <1>1 DEF Tracked, Recorded
  <1>4. InFlight = {} /\ Range(out) = {}
    BY <1>1, <1>3 DEF InFlight, Range
  <1>5. Recorded' /\ Known' /\ NothingSkipped'
    BY <1>1, <1>4 DEF Tracked, Recorded, Known, NothingSkipped, server, cache, history
  <1>6. ASSUME uidValidity' = 1 PROVE FirstNumbering'
    <2>0. FirstNumbering
      BY <1>1, <1>6 DEF Tracked, server
    <2>1. Numbered' /\ Refetched' /\ AllBelow'
      BY <1>1, <2>0 DEF FirstNumbering, Numbered, Refetched, AllBelow, Caught, server, cache
    <2>2. CursorKept'
      <3>1. poll'.firstSync => poll'.before = 0
        <4>1. folder = NoFolder => folder.lastSeenUid = 0
          BY DEF NoFolder
        <4> QED BY <1>2, <4>1, Zenon
      <3> QED BY <1>1, <1>2, <2>0, <3>1 DEF FirstNumbering, CursorKept, cache
    <2>3. Once'
      BY <1>1, <1>2, <2>0 DEF FirstNumbering, Once, Held, server, cache, history
    <2> QED BY <2>1, <2>2, <2>3 DEF FirstNumbering
  <1> QED BY <1>5, <1>6 DEF Tracked

LEMMA SyncOnceTracked ==
  ASSUME Consistent, Tracked, SyncOnce
  PROVE  Tracked'
  <1> DEFINE plan == SyncPlan
  <1>1. /\ pc = "opening"
        /\ rows' = InvalidateFolder(plan.full)
        /\ folder' = [uidValidity |-> uidValidity,
                      lastSeenUid |-> IF plan.full THEN 0 ELSE folder.lastSeenUid,
                      highestModseq |-> highestModseq]
        /\ poll' = [poll EXCEPT !.fetchFrom = plan.fetchFrom,
                                !.changedSince = plan.changedSince]
        /\ pc' \in {"fetch", "deltas", "enumerate"}
        /\ pc' # "fetch" => plan.fetchFrom = None
        /\ UNCHANGED <<server, wire, top, todo, out, history>>
    BY DEF SyncOnce
  <1>2. /\ plan.full \in BOOLEAN
        /\ plan.full <=> (folder.lastSeenUid <= 0 \/ folder.uidValidity # uidValidity)
        /\ plan.full => plan.fetchFrom = 1
        /\ ~plan.full /\ plan.fetchFrom = None => uidNext <= folder.lastSeenUid + 1
    <2>1. plan.full <=> (folder.lastSeenUid <= 0 \/ folder.uidValidity # uidValidity)
      BY DEF SyncPlan
    <2>2. plan.full \in BOOLEAN /\ (plan.full => plan.fetchFrom = 1)
      BY PlanFacts DEF Consistent
    <2>3. ~plan.full /\ HasNew => plan.fetchFrom = folder.lastSeenUid + 1
      BY DEF SyncPlan, FirstNew
    <2>4. folder.lastSeenUid + 1 # None
      BY BoxFacts DEF None
    <2>5. ~HasNew => uidNext <= folder.lastSeenUid + 1
      BY BoxFacts DEF HasNew
    <2> HIDE DEF plan
    <2> QED BY <2>1, <2>2, <2>3, <2>4, <2>5
  <1> HIDE DEF plan
  <1>3. /\ poll'.before = poll.before /\ poll'.firstSync = poll.firstSync
        /\ folder'.lastSeenUid = IF plan.full THEN 0 ELSE folder.lastSeenUid
        /\ folder'.uidValidity = uidValidity
        /\ plan.full => DOMAIN rows' = {}
        /\ ~plan.full => rows' = rows
    BY <1>1, <1>2 DEF InvalidateFolder, Consistent, Typed, PollState
  <1>4. todo = {} /\ out = << >> /\ Range(out) = {}
    BY <1>1 DEF Tracked, Recorded, Range
  <1>5. InFlight = {}
    BY <1>1, <1>4 DEF InFlight
  <1>6. Recorded' /\ Known'
    BY <1>1, <1>3, <1>4 DEF Tracked, Recorded, Known, server, history
  <1>7. NothingSkipped'
    BY <1>1, <1>3, <1>5 DEF Tracked, NothingSkipped, server, history
  <1>8. ASSUME uidValidity' = 1 PROVE FirstNumbering'
    <2>0. FirstNumbering /\ uidValidity = 1
      BY <1>1, <1>8 DEF Tracked, server
    <2>1. Numbered' /\ Refetched'
      BY <1>1, <1>3, <2>0 DEF FirstNumbering, Numbered, Refetched, server
    <2>2. folder'.lastSeenUid = folder.lastSeenUid
      <3>1. folder.uidValidity = 0 \/ folder.uidValidity = 1
        BY <2>0, BoxFacts DEF Consistent, Session
      <3>2. plan.full => folder.lastSeenUid = 0
        BY <1>2, <2>0, <3>1, BoxFacts DEF FirstNumbering, CursorKept, NoFolder
      <3> QED BY <1>2, <1>3, <3>2
    <2>3. CursorKept'
      BY <1>1, <1>3, <2>0, <2>2 DEF FirstNumbering, CursorKept
    <2>4. AllBelow'
      <3>1. ASSUME pc' \in Caught, NEW u \in DOMAIN box, u \in DOMAIN rows'
            PROVE  u <= folder'.lastSeenUid
        BY <1>1, <1>2, <1>3, <2>2, <3>1, BoxFacts DEF Caught, None
      <3> QED BY <1>1, <3>1 DEF AllBelow, server
    <2>5. Once'
      BY <1>1, <1>3, <1>4, <2>0, <2>2 DEF FirstNumbering, Once, Held, Fetching, server, history
    <2> QED BY <2>1, <2>3, <2>4, <2>5 DEF FirstNumbering
  <1> QED BY <1>6, <1>7, <1>8 DEF Tracked

LEMMA FetchAnsweredTracked ==
  ASSUME Consistent, Tracked, FetchAnswered
  PROVE  Tracked'
  <1>1. /\ pc = "fetch" /\ pc' = "storing" /\ top' = NoTop
        /\ UNCHANGED <<server, cache, poll, todo, out, triaged, excused>>
        /\ \A w \in wire' : w[1] \in DOMAIN box /\ w = <<w[1], box[w[1]]>>
        /\ \A u \in DOMAIN box : u >= poll.fetchFrom => <<u, box[u]>> \in wire'
    BY DEF FetchAnswered
  <1>2. \A w \in wire' : w[1] \in DOMAIN box /\ w[2] = box[w[1]]
    BY <1>1
  <1>3. Recorded' /\ NothingSkipped'
    BY <1>1 DEF Tracked, Recorded, NothingSkipped, InFlight, Caught, server, cache
  <1>4. Known'
    BY <1>1, <1>2 DEF Tracked, Known, server, cache
  <1>5. ASSUME uidValidity' = 1 PROVE FirstNumbering'
    <2>0. FirstNumbering
      BY <1>1, <1>5 DEF Tracked, server
    <2>1. Numbered'
      BY <1>1, <1>2, <2>0 DEF FirstNumbering, Numbered, server, cache
    <2>2. Refetched'
      <3>1. folder.uidValidity = uidValidity
        BY <1>1 DEF Consistent, Session
      <3>2. ASSUME NEW w \in wire'
            PROVE  /\ w[1] \in DOMAIN rows => rows[w[1]].msg = w[2].msg
                   /\ w[1] <= folder.lastSeenUid => w[1] \in DOMAIN rows
        BY <1>2, <3>1 DEF Consistent, CursorIsHonest, CacheIsMirror
      <3> QED BY <1>1, <3>2 DEF Refetched, cache
    <2>3. CursorKept'
      BY <1>1, <2>0 DEF FirstNumbering, CursorKept, cache
    <2>4. AllBelow'
      <3>1. ASSUME NEW u \in DOMAIN box \intersect DOMAIN rows, ~(u <= folder.lastSeenUid)
            PROVE  \E w \in wire' : w[1] = u
        <4>1. u >= poll.fetchFrom
          BY <1>1, <3>1, BoxFacts DEF Consistent, RangeOK
        <4> QED BY <1>1, <4>1
      <3> QED BY <1>1, <3>1 DEF AllBelow, Caught, server, cache
    <2>5. Once'
      BY <1>1, <2>0 DEF FirstNumbering, Once, Held, Fetching, server, cache
    <2> QED BY <2>1, <2>2, <2>3, <2>4, <2>5 DEF FirstNumbering
  <1> QED BY <1>3, <1>4, <1>5 DEF Tracked

LEMMA StoreMessageTracked ==
  ASSUME Consistent, Tracked, NEW w, StoreMessage(w)
  PROVE  Tracked'
  <1>1. /\ pc = "storing" /\ pc' = "storing" /\ w \in wire /\ wire' = wire \ {w}
        /\ top'.uid = Larger(top.uid, w[1])
        /\ UNCHANGED <<server, folder, poll, todo, out, history>>
    BY DEF StoreMessage, Deliver
  <1>2. /\ DOMAIN rows' = DOMAIN rows \union {w[1]}
        /\ rows'[w[1]].msg = w[2].msg
        /\ \A u \in DOMAIN rows : u # w[1] => rows'[u] = rows[u]
    BY DEF StoreMessage, With
  <1>3. todo = {} /\ out = << >>
    BY <1>1 DEF Tracked, Recorded
  <1>4. InFlight = {}
    BY <1>1, <1>3 DEF InFlight, Range
  <1>5. Recorded'
    BY <1>1, <1>2, <1>3 DEF Tracked, Recorded, server, history
  <1>6. Known'
    BY <1>1, <1>2 DEF Tracked, Known, server, history
  <1>7. ASSUME uidValidity' = 1 PROVE FirstNumbering' /\ NothingSkipped'
    <2>0. FirstNumbering /\ NothingSkipped /\ uidValidity = 1
      BY <1>1, <1>7 DEF Tracked, server
    <2>1. \A u \in DOMAIN rows : rows'[u].msg = rows[u].msg
      BY <1>1, <1>2, <2>0 DEF FirstNumbering, Refetched
    <2>2. Numbered'
      BY <1>1, <1>2, <2>0, <2>1 DEF FirstNumbering, Numbered, server
    <2>3. Refetched'
      <3>1. ASSUME NEW x \in wire'
            PROVE  x \in wire /\ x[1] # w[1]
        BY <1>1 DEF Consistent, WireOK
      <3> QED BY <1>1, <1>2, <2>0, <3>1 DEF FirstNumbering, Refetched
    <2>4. CursorKept'
      <3>1. folder.uidValidity # 0
        BY <1>1, <2>0 DEF Consistent, Session
      <3> QED BY <1>1, <2>0, <3>1 DEF FirstNumbering, CursorKept
    <2>5. AllBelow'
      <3>1. top'.uid >= top.uid /\ top'.uid >= w[1]
        BY <1>1, BoxFacts DEF Larger
      <3>2. ASSUME NEW u \in DOMAIN box, u \in DOMAIN rows'
            PROVE  u <= folder.lastSeenUid \/ u <= top'.uid \/ \E x \in wire' : x[1] = u
        <4>1. CASE u = w[1]
          BY <3>1, <4>1
        <4>2. CASE u \in DOMAIN rows /\ u # w[1]
          <5>1. u <= folder.lastSeenUid \/ u <= top.uid \/ \E x \in wire : x[1] = u
            BY <1>1, <2>0, <4>2 DEF FirstNumbering, AllBelow
          <5>2. u <= top.uid => u <= top'.uid
            BY <1>1, BoxFacts DEF Larger
          <5> QED BY <1>1, <4>2, <5>1, <5>2
        <4> QED BY <1>2, <3>2, <4>1, <4>2
      <3> QED BY <1>1, <3>2 DEF AllBelow, Caught, server
    <2>6. Once'
      BY <1>1, <2>0 DEF FirstNumbering, Once, Held, server, history
    <2>7. NothingSkipped'
      <3> SUFFICES ASSUME NEW u \in DOMAIN rows', u <= folder.lastSeenUid
                   PROVE  triaged[rows'[u].msg] > 0 \/ rows'[u].msg \in excused
        BY <1>1 DEF NothingSkipped, server, history
      <3>1. u \in DOMAIN rows
        BY <1>1, <1>2, <2>0 DEF FirstNumbering, Refetched
      <3> QED BY <1>4, <2>0, <2>1, <3>1 DEF NothingSkipped
    <2> QED BY <2>2, <2>3, <2>4, <2>5, <2>6, <2>7 DEF FirstNumbering
  <1>8. uidValidity' # 1 => NothingSkipped'
    BY DEF NothingSkipped
  <1> QED BY <1>5, <1>6, <1>7, <1>8 DEF Tracked

LEMMA FetchDoneTracked ==
  ASSUME Consistent, Tracked, FetchDone
  PROVE  Tracked'
  <1>1. /\ pc = "storing" /\ wire = {} /\ pc' \in {"deltas", "enumerate"}
        /\ UNCHANGED <<server, rows, poll, wire, top, todo, out, history>>
        /\ SetSyncCursor(top.uid)
    BY DEF FetchDone
  <1>2. /\ folder'.lastSeenUid = Larger(folder.lastSeenUid, top.uid)
        /\ folder'.uidValidity = folder.uidValidity
    BY <1>1, CursorFacts, BoxFacts DEF Consistent
  <1>3. /\ folder'.lastSeenUid >= folder.lastSeenUid /\ folder'.lastSeenUid >= top.uid
        /\ folder'.lastSeenUid \in Nat
    BY <1>2, BoxFacts DEF Larger
  <1>4. todo = {} /\ out = << >> /\ Range(out) = {}
    BY <1>1 DEF Tracked, Recorded, Range
  <1>5. Recorded' /\ Known'
    BY <1>1 DEF Tracked, Recorded, Known, server, history
  <1>6. ASSUME uidValidity' = 1 PROVE FirstNumbering' /\ NothingSkipped'
    <2>0. FirstNumbering /\ NothingSkipped /\ uidValidity = 1
      BY <1>1, <1>6 DEF Tracked, server
    <2>1. Numbered' /\ Refetched'
      BY <1>1, <2>0 DEF FirstNumbering, Numbered, Refetched, server
    <2>2. CursorKept'
      <3>1. folder.uidValidity # 0
        BY <1>1, <2>0 DEF Consistent, Session
      <3> QED BY <1>1, <1>2, <2>0, <3>1 DEF FirstNumbering, CursorKept
    <2>3. AllBelow'
      <3>1. ASSUME NEW u \in DOMAIN box \intersect DOMAIN rows
            PROVE  u <= folder'.lastSeenUid
        <4>1. u <= folder.lastSeenUid \/ u <= top.uid
          BY <1>1, <2>0 DEF FirstNumbering, AllBelow
        <4> QED BY <1>3, <4>1, BoxFacts
      <3> QED BY <1>1, <3>1 DEF AllBelow, server
    <2>4. Once'
      <3>1. \A u \in DOMAIN box : u <= folder.lastSeenUid => u <= folder'.lastSeenUid
        BY <1>3, BoxFacts
      <3> QED BY <1>1, <1>4, <2>0, <3>1 DEF FirstNumbering, Once, Held, Fetching, server, history
    <2>5. NothingSkipped'
      <3> SUFFICES ASSUME NEW u \in DOMAIN rows, u <= folder'.lastSeenUid
                   PROVE  triaged[rows[u].msg] > 0 \/ rows[u].msg \in excused \union InFlight'
        BY <1>1 DEF NothingSkipped, server, history
      <3>1. CASE u <= folder.lastSeenUid
        <4>1. InFlight = {}
          BY <1>1, <1>4 DEF InFlight
        <4> QED BY <2>0, <3>1, <4>1 DEF NothingSkipped
      <3>2. CASE ~(u <= folder.lastSeenUid)
        <4>1. poll.before = folder.lastSeenUid
          BY <1>1, <2>0 DEF FirstNumbering, CursorKept
        <4>2. u > poll.before
          BY <3>2, <4>1, BoxFacts
        <4>3. rows[u].msg \in InFlight'
          BY <1>1, <4>2 DEF InFlight
        <4> QED BY <4>3
      <3> QED BY <3>1, <3>2
    <2> QED BY <2>1, <2>2, <2>3, <2>4, <2>5 DEF FirstNumbering
  <1>7. uidValidity' # 1 => NothingSkipped'
    BY DEF NothingSkipped
  <1> QED BY <1>5, <1>6, <1>7 DEF Tracked

LEMMA FlagsTracked ==
  ASSUME Consistent, Tracked,
         DeltasAnswered \/ FlagsDone \/ \E w \in wire : UpdateFlags(w)
  PROVE  Tracked'
  <1>1. /\ pc \in {"deltas", "flags"} /\ pc' \in Caught
        /\ UNCHANGED <<server, poll, todo, out, triaged, excused>>
    BY DEF DeltasAnswered, FlagsDone, UpdateFlags, Caught, history
  <1>2. folder'.lastSeenUid = folder.lastSeenUid /\ folder'.uidValidity = folder.uidValidity
    <2>1. CASE FlagsDone
      BY <2>1, CursorFacts, BoxFacts DEF FlagsDone, Larger, Consistent
    <2> QED BY <2>1 DEF DeltasAnswered, UpdateFlags, cache
  <1>3. DOMAIN rows' = DOMAIN rows /\ \A u \in DOMAIN rows : rows'[u].msg = rows[u].msg
    <2>1. CASE \E w \in wire : UpdateFlags(w)
      BY <2>1 DEF UpdateFlags, Consistent, Typed, Row
    <2> QED BY <2>1 DEF DeltasAnswered, FlagsDone, cache
  <1>4. Recorded' /\ Known'
    BY <1>1, <1>3 DEF Tracked, Recorded, Known, Caught, server
  <1>5. NothingSkipped'
    <2>1. InFlight' = InFlight
      <3>1. pc \in Caught
        BY <1>1 DEF Caught
      <3>2. todo \subseteq DOMAIN rows
        BY DEF Tracked, Recorded
      <3> QED BY <1>1, <1>2, <1>3, <3>1, <3>2 DEF InFlight, Caught
    <2> QED BY <1>1, <1>2, <1>3, <2>1 DEF Tracked, NothingSkipped, server
  <1>6. ASSUME uidValidity' = 1 PROVE FirstNumbering'
    <2>0. FirstNumbering /\ uidValidity = 1
      BY <1>1, <1>6 DEF Tracked, server
    <2>1. Numbered' /\ Refetched' /\ AllBelow'
      BY <1>1, <1>2, <1>3, <2>0 DEF FirstNumbering, Numbered, Refetched, AllBelow, Caught, server
    <2>2. CursorKept'
      <3>1. folder.uidValidity # 0
        BY <1>1, <2>0 DEF Consistent, Session
      <3> QED BY <1>1, <1>2, <2>0, <3>1 DEF FirstNumbering, CursorKept, Caught
    <2>3. Once'
      BY <1>1, <1>2, <2>0 DEF FirstNumbering, Once, Held, Fetching, Caught, server
    <2> QED BY <2>1, <2>2, <2>3 DEF FirstNumbering
  <1> QED BY <1>4, <1>5, <1>6 DEF Tracked

-----------------------------------------------------------------------------
(* The new rows and the cycle.                                             *)

LEMMA EnumerateTracked ==
  ASSUME Consistent, Tracked, Enumerate
  PROVE  Tracked'
  <1>1. /\ pc = "enumerate" /\ pc' = "build" /\ todo' = NewRows
        /\ excused' = excused \union
             (IF poll.firstSync THEN {rows[u].msg : u \in DOMAIN rows \ NewRows} ELSE {})
        /\ UNCHANGED <<server, cache, poll, wire, top, out, triaged>>
    BY DEF Enumerate
  <1>2. NewRows \subseteq DOMAIN rows /\ out = << >> /\ Range(out) = {}
    BY <1>1 DEF Tracked, Recorded, NewRows, Range
  <1>3. Recorded' /\ Known'
    BY <1>1, <1>2 DEF Tracked, Recorded, Known, server, cache
  <1>4. NothingSkipped'
    <2> SUFFICES ASSUME uidValidity = 1, NEW u \in DOMAIN rows, u <= folder.lastSeenUid
                 PROVE  \/ triaged[rows[u].msg] > 0
                        \/ rows[u].msg \in excused' \union InFlight'
      BY <1>1 DEF NothingSkipped, server, cache
    <2>1. u \in NewRows => rows[u].msg \in InFlight'
      BY <1>1 DEF InFlight, cache
    <2>2. poll.firstSync /\ u \notin NewRows => rows[u].msg \in excused'
      BY <1>1
    <2>3. ~poll.firstSync /\ u > poll.before => u \in NewRows
      BY DEF NewRows, New
    <2>4. ~poll.firstSync /\ ~(u > poll.before) /\ rows[u].msg \in InFlight =>
            \E v \in DOMAIN rows : v > poll.before /\ rows[v].msg = rows[u].msg
      BY <1>1, <1>2 DEF InFlight, Tracked, Recorded
    <2>5. \/ triaged[rows[u].msg] > 0
          \/ rows[u].msg \in excused
          \/ rows[u].msg \in InFlight
      BY DEF Tracked, NothingSkipped
    <2>6. CASE ~poll.firstSync /\ ~(u > poll.before) /\ rows[u].msg \in InFlight
      <3>1. PICK v \in DOMAIN rows : v > poll.before /\ rows[v].msg = rows[u].msg
        BY <2>4, <2>6
      <3>2. v \in NewRows
        BY <2>6, <3>1 DEF NewRows, New
      <3> QED BY <1>1, <3>1, <3>2 DEF InFlight, cache
    <2> QED BY <1>1, <2>1, <2>2, <2>3, <2>5, <2>6
  <1>5. ASSUME uidValidity' = 1 PROVE FirstNumbering'
    <2>0. FirstNumbering
      BY <1>1, <1>5 DEF Tracked, server
    <2>1. Numbered' /\ CursorKept' /\ AllBelow' /\ Refetched'
      BY <1>1, <2>0 DEF FirstNumbering, Numbered, CursorKept, AllBelow, Refetched, Caught,
                        server, cache
    <2>2. \A u \in DOMAIN box : u \in NewRows => u <= folder.lastSeenUid
      BY <1>1, <1>2, <2>0 DEF FirstNumbering, AllBelow, Caught
    <2>3. \A u \in DOMAIN box : triaged[box[u].msg] = 1 => u \notin NewRows
      <3> SUFFICES ASSUME NEW u \in DOMAIN box, triaged[box[u].msg] = 1, u \in NewRows
                   PROVE  FALSE
        OBVIOUS
      <3>1. u <= poll.before
        BY <1>1, <2>0 DEF FirstNumbering, Once, Fetching
      <3>2. ~poll.firstSync
        BY <2>0, <3>1, BoxFacts DEF FirstNumbering, CursorKept
      <3> QED BY <3>1, <3>2, BoxFacts DEF NewRows, New
    <2>4. Once'
      BY <1>1, <1>2, <2>0, <2>2, <2>3 DEF FirstNumbering, Once, Held, Fetching, server, cache
    <2> QED BY <2>1, <2>4 DEF FirstNumbering
  <1> QED BY <1>3, <1>4, <1>5 DEF Tracked

\* The parts of Tracked that the cycle leaves alone.
LEMMA CycleKeeps ==
  ASSUME Tracked, UNCHANGED <<server, cache>>, pc' \in {"idle", "build", "triage"},
         poll'.firstSync => poll'.before = 0, uidValidity' = 1
  PROVE  Numbered' /\ CursorKept' /\ AllBelow' /\ Refetched'
  BY DEF Tracked, FirstNumbering, Numbered, CursorKept, AllBelow, Refetched, Caught,
         server, cache

LEMMA BuildTracked ==
  ASSUME Consistent, Tracked, NEW u \in todo, Build(u)
  PROVE  Tracked'
  <1> DEFINE m == rows[u].msg
  <1>1. /\ pc = "build" /\ pc' = "build" /\ out' = Append(out, m) /\ todo' = todo \ {u}
        /\ UNCHANGED <<server, cache, poll, wire, top, history>>
    BY DEF Build, NextRow
  <1>2. /\ u \in DOMAIN rows /\ m \in Messages /\ m \in arrived /\ out \in Seq(Messages)
    BY BoxFacts DEF Tracked, Recorded, Known
  <1> HIDE DEF m
  <1>3. /\ out' \in Seq(Messages) /\ DOMAIN out = 1..Len(out) /\ Len(out) \in Nat
        /\ DOMAIN out' = 1..(Len(out) + 1)
        /\ out'[Len(out) + 1] = m
        /\ \A i \in 1..Len(out) : out'[i] = out[i]
    BY <1>1, <1>2
  <1>4. Range(out') = Range(out) \union {m}
    BY <1>3 DEF Range
  <1>5. Recorded'
    BY <1>1, <1>3 DEF Tracked, Recorded, server, cache, history
  <1>6. Known'
    BY <1>1, <1>2, <1>4 DEF Tracked, Known, server, cache, history
  <1>7. NothingSkipped'
    <2>1. InFlight \subseteq InFlight'
      BY <1>1, <1>4 DEF InFlight, cache, m
    <2> QED BY <1>1, <2>1 DEF Tracked, NothingSkipped, server, cache, history
  <1>8. ASSUME uidValidity' = 1 PROVE FirstNumbering'
    <2>0. FirstNumbering /\ uidValidity = 1
      BY <1>1, <1>8 DEF Tracked, server
    <2>1. \A v \in DOMAIN box : box[v].msg = m => v = u
      BY <1>2, <2>0 DEF FirstNumbering, Numbered, m
    <2>2. \A v \in DOMAIN box : box[v].msg = m => box[v].msg \notin Range(out)
      BY <2>0, <2>1 DEF FirstNumbering, Once
    <2>3. \A i, j \in DOMAIN out' : out'[i] = out'[j] /\ out'[i] \in Held => i = j
      <3>1. \A i \in 1..Len(out) : out[i] \in Range(out)
        BY <1>3 DEF Range
      <3>2. m \in Held => m \notin Range(out)
        BY <2>2 DEF Held
      <3>3. \A i, j \in 1..Len(out) : out[i] = out[j] /\ out[i] \in Held => i = j
        BY <1>3, <2>0 DEF FirstNumbering, Once
      <3>4. \A i \in DOMAIN out' : i \in 1..Len(out) \/ i = Len(out) + 1
        BY <1>3
      <3> QED BY <1>3, <3>1, <3>2, <3>3, <3>4
    <2>4. \A v \in DOMAIN box :
            /\ triaged[box[v].msg] <= 1
            /\ triaged[box[v].msg] = 1 =>
                 v <= folder.lastSeenUid /\ v \notin todo' /\ box[v].msg \notin Range(out')
            /\ box[v].msg \in Range(out') => v <= folder.lastSeenUid /\ v \notin todo'
            /\ v \in todo' => v <= folder.lastSeenUid
      BY <1>1, <1>4, <2>0, <2>1 DEF FirstNumbering, Once
    <2>5. Once'
      BY <1>1, <2>3, <2>4 DEF Once, Held, Fetching, server, cache, history
    <2>6. Numbered' /\ CursorKept' /\ AllBelow' /\ Refetched'
      BY <1>1, <1>8, <2>0, CycleKeeps DEF FirstNumbering, CursorKept
    <2> QED BY <2>5, <2>6 DEF FirstNumbering
  <1> QED BY <1>5, <1>6, <1>7, <1>8 DEF Tracked

LEMMA BuildFailsTracked ==
  ASSUME Consistent, Tracked, NEW u \in todo, BuildFails(u)
  PROVE  Tracked'
  <1>1. /\ pc = "build" /\ pc' = "build" /\ todo' = todo \ {u}
        /\ excused' = excused \union {rows[u].msg}
        /\ UNCHANGED <<server, cache, poll, wire, top, out, triaged>>
    BY DEF BuildFails, NextRow
  <1>2. Recorded' /\ Known'
    BY <1>1 DEF Tracked, Recorded, Known, server, cache
  <1>3. NothingSkipped'
    <2>1. InFlight \subseteq InFlight' \union {rows[u].msg}
      BY <1>1 DEF InFlight, cache
    <2> QED BY <1>1, <2>1 DEF Tracked, NothingSkipped, server, cache
  <1>4. ASSUME uidValidity' = 1 PROVE FirstNumbering'
    <2>0. FirstNumbering
      BY <1>1, <1>4 DEF Tracked, server
    <2>1. Once'
      BY <1>1, <2>0 DEF FirstNumbering, Once, Held, Fetching, server, cache
    <2>2. Numbered' /\ CursorKept' /\ AllBelow' /\ Refetched'
      BY <1>1, <1>4, <2>0, CycleKeeps DEF FirstNumbering, CursorKept
    <2> QED BY <2>1, <2>2 DEF FirstNumbering
  <1> QED BY <1>2, <1>3, <1>4 DEF Tracked

LEMMA ProcessMessageTracked ==
  ASSUME Consistent, Tracked, ProcessMessage
  PROVE  Tracked'
  <1> DEFINE h == Head(out)
  <1>1. /\ pc = "triage" /\ pc' = "triage" /\ out # << >> /\ out' = Tail(out)
        /\ triaged' = [triaged EXCEPT ![h] = Smaller(@ + 1, 2)]
        /\ UNCHANGED <<server, cache, poll, wire, top, todo, excused>>
    BY DEF ProcessMessage
  <1>2. out \in Seq(Messages) /\ triaged \in [Messages -> Nat] /\ todo = {}
    BY <1>1 DEF Tracked, Recorded
  <1>3. /\ Len(out) \in Nat \ {0} /\ DOMAIN out = 1..Len(out)
        /\ h = out[1] /\ h \in Messages
        /\ out' \in Seq(Messages) /\ DOMAIN out' = 1..(Len(out) - 1)
        /\ \A i \in 1..(Len(out) - 1) : out'[i] = out[i + 1]
    BY <1>1, <1>2
  <1> HIDE DEF h
  <1>4. /\ h \in Range(out) /\ Range(out') \subseteq Range(out)
        /\ Range(out) \subseteq Range(out') \union {h}
    <2>1. \A i \in DOMAIN out' : i + 1 \in DOMAIN out
      BY <1>3
    <2>2. \A i \in DOMAIN out : i = 1 \/ (i - 1 \in DOMAIN out' /\ out'[i - 1] = out[i])
      BY <1>3
    <2>3. 1 \in DOMAIN out
      BY <1>3
    <2> QED BY <1>3, <2>1, <2>2, <2>3 DEF Range
  <1>5. /\ triaged' \in [Messages -> Nat]
        /\ triaged'[h] > 0
        /\ triaged[h] = 0 => triaged'[h] = 1
        /\ \A m \in Messages : m # h => triaged'[m] = triaged[m]
    BY <1>1, <1>2, <1>3 DEF Smaller
  <1>6. Recorded'
    BY <1>1, <1>3, <1>5 DEF Tracked, Recorded, server, cache
  <1>7. Known'
    BY <1>1, <1>4, <1>5 DEF Tracked, Known, server, cache
  <1>8. NothingSkipped'
    <2>1. InFlight \subseteq InFlight' \union {h}
      BY <1>1, <1>4 DEF InFlight, cache
    <2>2. \A u \in DOMAIN rows : rows[u].msg \in Messages
      BY BoxFacts
    <2> SUFFICES ASSUME uidValidity = 1, NEW u \in DOMAIN rows, u <= folder.lastSeenUid
                 PROVE  \/ triaged'[rows[u].msg] > 0
                        \/ rows[u].msg \in excused \union InFlight'
      BY <1>1 DEF NothingSkipped, server, cache
    <2>3. CASE rows[u].msg = h
      BY <1>5, <2>3
    <2>4. CASE rows[u].msg # h
      BY <1>5, <2>1, <2>2, <2>4 DEF Tracked, NothingSkipped
    <2> QED BY <2>3, <2>4
  <1>9. ASSUME uidValidity' = 1 PROVE FirstNumbering'
    <2>0. FirstNumbering
      BY <1>1, <1>9 DEF Tracked, server
    <2>1. \A u \in DOMAIN box : box[u].msg = h => triaged[h] = 0
      BY <1>2, <1>3, <1>4, <2>0 DEF FirstNumbering, Once
    <2>2. h \in Held => h \notin Range(out')
      <3> SUFFICES ASSUME h \in Held, NEW i \in DOMAIN out', out'[i] = h
                   PROVE  FALSE
        BY DEF Range
      <3>1. i + 1 \in DOMAIN out /\ 1 \in DOMAIN out /\ out[i + 1] = h /\ out[1] = h
        BY <1>3
      <3>2. i + 1 = 1
        BY <2>0, <3>1 DEF FirstNumbering, Once
      <3> QED BY <1>3, <3>2
    <2>3. \A i, j \in DOMAIN out' : out'[i] = out'[j] /\ out'[i] \in Held => i = j
      <3> SUFFICES ASSUME NEW i \in DOMAIN out', NEW j \in DOMAIN out', out'[i] = out'[j],
                          out'[i] \in Held
                   PROVE  i = j
        OBVIOUS
      <3>1. i + 1 \in DOMAIN out /\ j + 1 \in DOMAIN out /\ out[i + 1] = out[j + 1]
            /\ out[i + 1] \in Held
        BY <1>3
      <3>2. i + 1 = j + 1
        BY <2>0, <3>1 DEF FirstNumbering, Once
      <3> QED BY <1>3, <3>2
    <2>4. ASSUME NEW u \in DOMAIN box
          PROVE  /\ triaged'[box[u].msg] <= 1
                 /\ triaged'[box[u].msg] = 1 =>
                      u <= folder.lastSeenUid /\ box[u].msg \notin Range(out')
                 /\ box[u].msg \in Range(out') => u <= folder.lastSeenUid
      <3>1. CASE box[u].msg = h
        BY <1>4, <1>5, <2>0, <2>1, <2>2, <3>1 DEF FirstNumbering, Once, Held
      <3>2. CASE box[u].msg # h
        BY <1>4, <1>5, <2>0, <3>2, BoxFacts DEF FirstNumbering, Once
      <3> QED BY <3>1, <3>2
    <2>5. Once'
      BY <1>1, <1>2, <2>3, <2>4 DEF Once, Held, Fetching, server, cache
    <2>6. Numbered' /\ CursorKept' /\ AllBelow' /\ Refetched'
      BY <1>1, <1>9, <2>0, CycleKeeps DEF FirstNumbering, CursorKept
    <2> QED BY <2>5, <2>6 DEF FirstNumbering
  <1> QED BY <1>6, <1>7, <1>8, <1>9 DEF Tracked

\* The poll ends, in order or not: whatever it still had in hand is excused.
LEMMA EndTracked ==
  ASSUME Consistent, Tracked, Return \/ CycleDone \/ Abandon, UNCHANGED server
  PROVE  Tracked'
  <1>1. /\ pc' \in {"idle", "triage"} /\ todo' = {}
        /\ pc' = "idle" => out' = << >>
        /\ UNCHANGED <<cache, triaged>>
        /\ out' = out \/ out' = << >>
        /\ excused \subseteq excused'
    BY DEF Return, CycleDone, Abandon, Tracked, Recorded, history
  <1>2. Range(out') \subseteq Range(out) /\ out' \in Seq(Messages)
    <2>1. Range(<< >>) = {} /\ << >> \in Seq(Messages)
      BY DEF Range
    <2>2. out \in Seq(Messages)
      BY DEF Tracked, Recorded
    <2> QED BY <1>1, <2>1, <2>2
  <1>3. Recorded' /\ Known'
    BY <1>1, <1>2 DEF Tracked, Recorded, Known, server, cache
  <1>4. InFlight \subseteq excused' \union InFlight'
    <2>1. CASE Abandon
      BY <2>1 DEF Abandon
    <2>2. CASE Return
      BY <2>2 DEF Return, InFlight
    <2>3. CASE CycleDone
      <3>1. todo = {} /\ Range(out) = {} /\ pc = "triage"
        BY <2>3 DEF CycleDone, Tracked, Recorded, Range
      <3> QED BY <3>1 DEF InFlight
    <2> QED BY <2>1, <2>2, <2>3
  <1>5. NothingSkipped'
    BY <1>1, <1>4 DEF Tracked, NothingSkipped, server, cache
  <1>6. ASSUME uidValidity' = 1 PROVE FirstNumbering'
    <2>0. FirstNumbering
      BY <1>6 DEF Tracked, server
    <2>1. poll'.firstSync => poll'.before = 0
      BY <2>0 DEF Return, CycleDone, Abandon, NoPoll, FirstNumbering, CursorKept
    <2>2. Numbered' /\ CursorKept' /\ AllBelow' /\ Refetched'
      BY <1>1, <1>6, <2>1, CycleKeeps
    <2>3. Once'
      BY <1>1, <1>2, <2>0 DEF FirstNumbering, Once, Held, Fetching, server, cache
    <2> QED BY <2>2, <2>3 DEF FirstNumbering
  <1> QED BY <1>3, <1>5, <1>6 DEF Tracked

-----------------------------------------------------------------------------
(* The theorems about the messages.                                        *)

LEMMA InitTracked ==
  ASSUME Init
  PROVE  Tracked
  <1>1. out = << >> /\ Range(out) = {} /\ DOMAIN out = {} /\ DOMAIN box = {} /\ DOMAIN rows = {}
    BY DEF Init, Range
  <1>2. Recorded /\ Known
    BY <1>1 DEF Init, Recorded, Known
  <1>3. Numbered /\ CursorKept /\ AllBelow /\ Refetched /\ Once
    BY <1>1 DEF Init, Numbered, CursorKept, AllBelow, Refetched, Once, Caught, NoPoll
  <1>4. NothingSkipped
    BY <1>1 DEF NothingSkipped
  <1> QED BY <1>2, <1>3, <1>4 DEF Tracked, FirstNumbering

LEMMA NextTracked ==
  ASSUME Consistent, Tracked, [Next]_vars
  PROVE  Tracked'
  <1>1. CASE Mailbox
    BY <1>1, MailboxTracked
  <1>2. CASE Poll
    <2>1. CASE Return \/ CycleDone
      BY <2>1, EndTracked DEF Return, CycleDone
    <2>2. CASE \E w \in wire : StoreMessage(w) \/ UpdateFlags(w)
      BY <2>2, StoreMessageTracked, FlagsTracked
    <2>3. CASE \E u \in todo : Build(u)
      BY <2>3, BuildTracked
    <2> QED BY <1>2, <2>1, <2>2, <2>3, PollFolderTracked, SyncOnceTracked,
               FetchAnsweredTracked, FetchDoneTracked, FlagsTracked, EnumerateTracked,
               ProcessMessageTracked DEF Poll
  <1>3. CASE \E u \in todo : BuildFails(u)
    BY <1>3, BuildFailsTracked
  <1>4. CASE Drop \/ Crash
    BY <1>4, EndTracked DEF Drop, Crash, Abandon
  <1>5. CASE UNCHANGED vars
    <2>1. UNCHANGED <<server, cache, local, history>>
      BY <1>5 DEF vars
    <2>2. Recorded' /\ Known' /\ NothingSkipped'
      BY <2>1 DEF Tracked, Recorded, Known, NothingSkipped, InFlight, server, cache, local, history
    <2>3. uidValidity' = 1 => Numbered' /\ CursorKept' /\ AllBelow' /\ Refetched'
      BY <2>1 DEF Tracked, FirstNumbering, Numbered, CursorKept, AllBelow, Refetched,
                  server, cache, local, history
    <2>4. uidValidity' = 1 => Once'
      BY <2>1 DEF Tracked, FirstNumbering, Once, Held, server, cache, local, history
    <2> QED BY <2>2, <2>3, <2>4 DEF Tracked, FirstNumbering
  <1> QED BY <1>1, <1>2, <1>3, <1>4, <1>5 DEF Next

\* Where a message of the server may be, in every reachable state: still above
\* the cursor, in the hands of one poll, or processed and behind it.
THEOREM TrackedHolds == Spec => []Tracked
  <1>1. Init => Tracked
    BY InitTracked
  <1>2. Consistent /\ Tracked /\ [Next]_vars => Tracked'
    BY NextTracked
  <1> QED BY <1>1, <1>2, Invariance, PTL DEF Spec

\* No message the server still holds is handed to processMessage twice while
\* the server keeps its numbering, whatever was cut short and polled again.
THEOREM TriagedOnceHolds == Spec => []TriagedOnce
  <1>1. Tracked => TriagedOnce
    BY DEF Tracked, FirstNumbering, Once, TriagedOnce, Held
  <1> QED BY <1>1, TrackedHolds, PTL

\* No row behind the cursor is forgotten, although the cursor is advanced before
\* its message is processed, except by the failures that set `excused`.
THEOREM NothingSkippedHolds == Spec => []NothingSkipped
  <1>1. Tracked => NothingSkipped
    BY DEF Tracked
  <1> QED BY <1>1, TrackedHolds, PTL

-----------------------------------------------------------------------------
(***************************************************************************)
(* Threading.  The recursions of the model run over the hops of a chain,   *)
(* the rows of a folder and the ids in the order they were written; the    *)
(* first lemmas say what such a recursion yields.  Then: the forest of     *)
(* containers, what holds after every row is placed in it, the roots read  *)
(* off it, and what the headers that mail programs write add to it.        *)
(***************************************************************************)

\* What holds of 0 and of every number after one it holds of.
LEMMA NumberByNumber ==
  ASSUME NEW n \in Nat, NEW S, 0 \in S, \A i \in 1..n : i - 1 \in S => i \in S
  PROVE  \A i \in 0..n : i \in S
<1> SUFFICES ASSUME NEW j \in 0..n, j \notin S PROVE FALSE
  OBVIOUS
<1> DEFINE U == {i \in 0..n : i \notin S}
<1>1. U \in SUBSET Nat /\ U # {}
  OBVIOUS
<1>2. PICK i \in U : \A m \in U : <<m, i>> \notin OpToRel(<, Nat)
  BY <1>1, WFMin, NatLessThanWellFounded
<1>3. \A m \in U : ~(m < i)
  BY <1>1, <1>2 DEF OpToRel
<1>4. i \in 1..n /\ i - 1 \in 0..n /\ i - 1 < i
  OBVIOUS
<1>5. i - 1 \in S
  BY <1>3, <1>4
<1> QED BY <1>4, <1>5

\* What holds of an id when it holds of all smaller ones.
LEMMA IdById ==
  ASSUME NEW S, \A i \in Ids : (\A j \in Ids : j < i => j \in S) => i \in S
  PROVE  Ids \subseteq S
<1> SUFFICES ASSUME NEW j \in Ids, j \notin S PROVE FALSE
  OBVIOUS
<1> DEFINE U == {i \in Ids : i \notin S}
<1>1. U \in SUBSET Nat /\ U # {}
  BY IdsAssumption DEF Ids
<1>2. PICK i \in U : \A m \in U : <<m, i>> \notin OpToRel(<, Nat)
  BY <1>1, WFMin, NatLessThanWellFounded
<1>3. \A m \in U : ~(m < i)
  BY <1>1, <1>2 DEF OpToRel
<1> QED BY <1>3

\* A recursion over 0..n, from base by the functions F[1], ..., F[n] ...
Runs(h, n, D, base, F) ==
  /\ h \in [0..n -> D] /\ h[0] = base
  /\ \A i \in 1..n : h[i] = F[i][h[i - 1]]

\* ... has a value at every step.
LEMMA StepByStep ==
  ASSUME NEW n \in Nat, NEW D, NEW base \in D, NEW F \in [1..n -> [D -> D]]
  PROVE  \E h : Runs(h, n, D, base, F)
<1> DEFINE S == {l \in 0..n : \E h : Runs(h, l, D, base, F)}
<1>1. 0 \in S
  <2> DEFINE g == [i \in 0..0 |-> base]
  <2>1. g \in [0..0 -> D] /\ g[0] = base /\ 1..0 = {}
    OBVIOUS
  <2> HIDE DEF g
  <2>2. Runs(g, 0, D, base, F)
    BY <2>1 DEF Runs
  <2> QED BY <2>2
<1>2. ASSUME NEW l \in 1..n, l - 1 \in S PROVE l \in S
  <2>1. PICK h : Runs(h, l - 1, D, base, F)
    BY <1>2
  <2>2. /\ h \in [0..(l - 1) -> D] /\ h[0] = base
        /\ \A i \in 1..(l - 1) : h[i] = F[i][h[i - 1]]
    BY <2>1 DEF Runs
  <2> DEFINE g == [i \in 0..l |-> IF i = l THEN F[l][h[l - 1]] ELSE h[i]]
  <2>3. g \in [0..l -> D]
    <3>1. F[l][h[l - 1]] \in D
      BY <2>2
    <3> QED BY <2>2, <3>1
  <2>4. g[0] = base
    BY <2>2
  <2>5. ASSUME NEW i \in 1..l PROVE g[i] = F[i][g[i - 1]]
    <3>1. CASE i = l
      <4>1. g[i] = F[l][h[l - 1]] /\ g[i - 1] = h[l - 1]
        BY <3>1
      <4> QED BY <3>1, <4>1
    <3>2. CASE i # l
      <4>1. g[i] = h[i] /\ g[i - 1] = h[i - 1] /\ i \in 1..(l - 1)
        BY <3>2
      <4> QED BY <2>2, <4>1
    <3> QED BY <3>1, <3>2
  <2> HIDE DEF g
  <2>6. Runs(g, l, D, base, F)
    BY <2>3, <2>4, <2>5 DEF Runs
  <2> QED BY <2>6
<1> HIDE DEF S
<1>3. \A i \in 0..n : i \in S
  BY <1>1, <1>2, NumberByNumber
<1>4. n \in S
  BY <1>3
<1> QED BY <1>4 DEF S

-----------------------------------------------------------------------------
(* The forest.                                                             *)

\* Every container hangs from an id or from nothing, and no container hangs,
\* however far below, from itself: going up, a rank falls.
Forest(C, up) ==
  /\ up \in [C -> Ids \cup {Nothing}]
  /\ Ids \subseteq C /\ Nothing \notin C
  /\ \E rank \in [C -> Nat] : \A x \in C : up[x] # Nothing => rank[up[x]] < rank[x]

\* What holds of the tops, and of a container when it holds of the one above.
LEMMA FromTheTop ==
  ASSUME NEW C, NEW up, Forest(C, up), NEW S,
         \A x \in C : (up[x] = Nothing \/ up[x] \in S) => x \in S
  PROVE  C \subseteq S
<1> SUFFICES ASSUME NEW c \in C, c \notin S PROVE FALSE
  OBVIOUS
<1>1. PICK rank \in [C -> Nat] : \A x \in C : up[x] # Nothing => rank[up[x]] < rank[x]
  BY DEF Forest
<1> DEFINE U == {x \in C : x \notin S}
           R == {rank[x] : x \in U}
<1>2. R \in SUBSET Nat /\ R # {}
  OBVIOUS
<1>3. PICK r \in R : \A m \in R : <<m, r>> \notin OpToRel(<, Nat)
  BY <1>2, WFMin, NatLessThanWellFounded
<1>4. \A m \in R : ~(m < r)
  BY <1>2, <1>3 DEF OpToRel
<1>5. PICK x \in U : rank[x] = r
  OBVIOUS
<1>6. up[x] # Nothing /\ up[x] \notin S
  BY <1>5
<1>7. up[x] \in C
  BY <1>5, <1>6 DEF Forest
<1>8. rank[up[x]] \in R /\ rank[up[x]] < r
  BY <1>1, <1>5, <1>6, <1>7
<1> QED BY <1>4, <1>8

\* The walk up from each container exists: the least set that is closed.
LEMMA AboveExists ==
  ASSUME NEW C, NEW up \in [C -> Ids \cup {Nothing}], Ids \subseteq C
  PROVE  \E f : f = [y \in C |-> IF up[y] = Nothing THEN {y} ELSE {y} \cup f[up[y]]]
<1> DEFINE Shut(S) == \A w \in S : up[w] # Nothing => up[w] \in S
           From(y) == {z \in C : \A S \in SUBSET C : (y \in S /\ Shut(S)) => z \in S}
           g == [y \in C |-> From(y)]
<1>1. ASSUME NEW y \in C, up[y] = Nothing PROVE From(y) = {y}
  <2>1. {y} \in SUBSET C /\ y \in {y} /\ Shut({y})
    BY <1>1
  <2>2. \A z \in From(y) : z \in {y}
    BY <2>1
  <2>3. y \in From(y)
    OBVIOUS
  <2> QED BY <2>2, <2>3
<1>2. ASSUME NEW y \in C, up[y] # Nothing PROVE up[y] \in C /\ From(y) = {y} \cup From(up[y])
  <2>1. up[y] \in C
    BY <1>2
  <2> DEFINE p == up[y]
             T == {y} \cup From(p)
  <2>2. p \in From(p)
    BY <2>1
  <2>3. Shut(From(p))
    <3> SUFFICES ASSUME NEW w \in From(p), up[w] # Nothing,
                        NEW S \in SUBSET C, p \in S, Shut(S)
                 PROVE  up[w] \in C /\ up[w] \in S
      OBVIOUS
    <3>1. w \in C /\ w \in S
      OBVIOUS
    <3> QED BY <3>1
  <2>4. T \in SUBSET C /\ y \in T /\ Shut(T)
    BY <2>1, <2>2, <2>3
  <2>5. \A z \in From(y) : z \in T
    BY <2>4
  <2>6. y \in From(y)
    OBVIOUS
  <2>7. ASSUME NEW z \in From(p) PROVE z \in From(y)
    <3> SUFFICES ASSUME NEW S \in SUBSET C, y \in S, Shut(S) PROVE z \in S
      OBVIOUS
    <3>1. p \in S
      BY <1>2
    <3> QED BY <3>1
  <2> QED BY <2>1, <2>5, <2>6, <2>7
<1> HIDE DEF From
<1>3. \A y \in C : g[y] = IF up[y] = Nothing THEN {y} ELSE {y} \cup g[up[y]]
  BY <1>1, <1>2
<1>4. g = [y \in C |-> IF up[y] = Nothing THEN {y} ELSE {y} \cup g[up[y]]]
  BY <1>3
<1> HIDE DEF g
<1> QED BY <1>4

\* isAncestorOrSelf, one step at a time.
LEMMA AboveStep ==
  ASSUME NEW C, NEW up \in [C -> Ids \cup {Nothing}], Ids \subseteq C, NEW x \in C
  PROVE  Above(up, x) = IF up[x] = Nothing THEN {x} ELSE {x} \cup Above(up, up[x])
<1> DEFINE H == CHOOSE f : f = [y \in DOMAIN up |-> IF up[y] = Nothing THEN {y}
                                                  ELSE {y} \cup f[up[y]]]
<1>1. DOMAIN up = C
  OBVIOUS
<1>2. H = [y \in DOMAIN up |-> IF up[y] = Nothing THEN {y} ELSE {y} \cup H[up[y]]]
  <2>1. \E f : f = [y \in DOMAIN up |-> IF up[y] = Nothing THEN {y} ELSE {y} \cup f[up[y]]]
    BY <1>1, AboveExists
  <2> QED BY <2>1, Zenon
<1>3. \A y : Above(up, y) = H[y]
  BY DEF Above
<1> HIDE DEF H
<1>4. H[x] = IF up[x] = Nothing THEN {x} ELSE {x} \cup H[up[x]]
  BY <1>1, <1>2
<1> QED BY <1>3, <1>4

\* Every container has a walk up that ends at one top, and whatever lies on it has the
\* rest of that walk as its own.
LEMMA WalksUp ==
  ASSUME NEW C, NEW up, Forest(C, up), NEW x \in C
  PROVE  /\ x \in Above(up, x) /\ Above(up, x) \subseteq {x} \cup Ids
         /\ \A y \in Above(up, x) : Above(up, y) \subseteq Above(up, x)
         /\ \E y \in Above(up, x) :
              /\ up[y] = Nothing
              /\ \A z \in Above(up, x) : up[z] = Nothing => z = y
<1> DEFINE Good(c) ==
             /\ c \in Above(up, c) /\ Above(up, c) \subseteq {c} \cup Ids
             /\ \A y \in Above(up, c) : Above(up, y) \subseteq Above(up, c)
             /\ \E y \in Above(up, c) :
                  /\ up[y] = Nothing
                  /\ \A z \in Above(up, c) : up[z] = Nothing => z = y
           S == {c \in C : Good(c)}
<1>1. up \in [C -> Ids \cup {Nothing}] /\ Ids \subseteq C
  BY DEF Forest
<1>2. ASSUME NEW c \in C, up[c] = Nothing \/ up[c] \in S PROVE c \in S
  <2>1. Above(up, c) = IF up[c] = Nothing THEN {c} ELSE {c} \cup Above(up, up[c])
    BY <1>1, AboveStep
  <2>2. CASE up[c] = Nothing
    <3>1. Above(up, c) = {c}
      BY <2>1, <2>2
    <3> QED BY <3>1, <2>2
  <2>3. CASE up[c] # Nothing
    <3>1. Above(up, c) = {c} \cup Above(up, up[c])
      BY <2>1, <2>3
    <3>2. up[c] \in Ids /\ Good(up[c])
      BY <1>1, <1>2, <2>3
    <3>3. c \in Above(up, c) /\ Above(up, c) \subseteq {c} \cup Ids
      BY <3>1, <3>2
    <3>4. \A y \in Above(up, c) : Above(up, y) \subseteq Above(up, c)
      BY <3>1, <3>2
    <3>5. \E y \in Above(up, c) :
              /\ up[y] = Nothing
              /\ \A z \in Above(up, c) : up[z] = Nothing => z = y
      BY <3>1, <3>2, <2>3
    <3> QED BY <3>3, <3>4, <3>5
  <2> QED BY <2>2, <2>3
<1> HIDE DEF S
<1>3. x \in S
  BY <1>2, FromTheTop
<1> QED BY <1>3 DEF S

\* The top of a container: its own if nothing is above, or else that of what it hangs from.
TopOf(up, x) == CHOOSE y \in Above(up, x) : up[y] = Nothing

LEMMA TopIsAbove ==
  ASSUME NEW C, NEW up, Forest(C, up), NEW x \in C
  PROVE  /\ TopOf(up, x) \in Above(up, x) /\ up[TopOf(up, x)] = Nothing
         /\ TopOf(up, x) \in C /\ TopOf(up, x) \in {x} \cup Ids
         /\ \A y \in Above(up, x) : y \in C /\ TopOf(up, y) = TopOf(up, x)
<1>1. TopOf(up, x) \in Above(up, x) /\ up[TopOf(up, x)] = Nothing
  BY WalksUp DEF TopOf
<1>2. \A y \in Above(up, x) : y \in C
  BY WalksUp DEF Forest
<1>3. ASSUME NEW y \in Above(up, x) PROVE TopOf(up, y) = TopOf(up, x)
  <2>1. TopOf(up, y) \in Above(up, y) /\ up[TopOf(up, y)] = Nothing
    BY <1>2, WalksUp DEF TopOf
  <2>2. TopOf(up, y) \in Above(up, x)
    BY <2>1, WalksUp
  <2> QED BY <1>1, <2>1, <2>2, WalksUp
<1>4. TopOf(up, x) \in {x} \cup Ids
  BY <1>1, WalksUp
<1> QED BY <1>1, <1>2, <1>3, <1>4

LEMMA TopStep ==
  ASSUME NEW C, NEW up, Forest(C, up), NEW x \in C
  PROVE  /\ up[x] = Nothing => TopOf(up, x) = x
         /\ up[x] # Nothing => up[x] \in Ids /\ up[x] \in C /\ TopOf(up, x) = TopOf(up, up[x])
<1>1. up \in [C -> Ids \cup {Nothing}] /\ Ids \subseteq C
  BY DEF Forest
<1>2. Above(up, x) = IF up[x] = Nothing THEN {x} ELSE {x} \cup Above(up, up[x])
  BY <1>1, AboveStep
<1>3. CASE up[x] = Nothing
  <2>1. TopOf(up, x) \in {x}
    BY <1>2, <1>3, TopIsAbove
  <2> QED BY <2>1, <1>3
<1>4. CASE up[x] # Nothing
  <2>1. up[x] \in Ids /\ up[x] \in C
    BY <1>1, <1>4
  <2>2. up[x] \in Above(up, x)
    BY <1>2, <1>4, <2>1, WalksUp
  <2> QED BY <1>4, <2>1, <2>2, TopIsAbove
<1> QED BY <1>3, <1>4

\* link: what hangs a container under one it is not above leaves a forest (jwz.ts, the loop
\* check of both links).
LEMMA HangingKeepsTheForest ==
  ASSUME NEW C, NEW up, Forest(C, up), NEW x \in C, NEW under \in Ids \cup {Nothing},
         MayHang(up, x, under)
  PROVE  Forest(C, [up EXCEPT ![x] = under])
<1> DEFINE new == [up EXCEPT ![x] = under]
<1>1. PICK rank \in [C -> Nat] : \A y \in C : up[y] # Nothing => rank[up[y]] < rank[y]
  BY DEF Forest
<1>2. under \in Ids /\ under \in C /\ x \notin Above(up, under)
  BY DEF MayHang, Forest
<1>3. up \in [C -> Ids \cup {Nothing}] /\ Ids \subseteq C /\ Nothing \notin C
  BY DEF Forest
<1>4. new \in [C -> Ids \cup {Nothing}]
  BY <1>2, <1>3
<1> DEFINE below(y) == x \in Above(up, y)
           lift == [y \in C |-> IF below(y) THEN rank[y] + rank[under] + 1 ELSE rank[y]]
<1>5. lift \in [C -> Nat]
  <2>1. \A y \in C : rank[y] \in Nat
    OBVIOUS
  <2>2. rank[under] \in Nat
    BY <1>2
  <2> HIDE DEF below
  <2> QED BY <2>1, <2>2
<1>6. ASSUME NEW y \in C, new[y] # Nothing PROVE lift[new[y]] < lift[y]
  <2>1. CASE y = x
    <3>1. new[y] = under /\ ~below(under) /\ below(x)
      BY <1>2, <1>3, <2>1, WalksUp
    <3>2. lift[under] = rank[under] /\ lift[x] = rank[x] + rank[under] + 1
      BY <1>2, <3>1
    <3>3. rank[x] \in Nat /\ rank[under] \in Nat
      BY <1>2
    <3> QED BY <2>1, <3>1, <3>2, <3>3
  <2>2. CASE y # x
    <3>1. new[y] = up[y] /\ up[y] # Nothing
      BY <1>3, <1>6, <2>2
    <3>2. up[y] \in C /\ rank[up[y]] < rank[y]
      BY <1>1, <1>3, <3>1
    <3>3. Above(up, y) = {y} \cup Above(up, up[y])
      BY <1>3, <3>1, AboveStep
    <3>4. below(y) <=> below(up[y])
      BY <2>2, <3>3
    <3>5. rank[y] \in Nat /\ rank[up[y]] \in Nat /\ rank[under] \in Nat
      BY <1>2, <3>2
    <3> HIDE DEF below
    <3> QED BY <3>1, <3>2, <3>4, <3>5
  <2> QED BY <2>1, <2>2
<1> HIDE DEF new, lift
<1> QED BY <1>3, <1>4, <1>5, <1>6 DEF Forest, new

-----------------------------------------------------------------------------
(* Wiring a reference chain.                                               *)

HopState(C) == [up : [C -> Ids \cup {Nothing}], prev : Ids \cup {Nothing}]

LEMMA HopTyped ==
  ASSUME NEW C, Ids \subseteq C, NEW w \in HopState(C), NEW self, NEW id \in Ids
  PROVE  Hop(w, self, id) \in HopState(C)
BY DEF HopState, Hop

Hops(hop, C, up, self, chain) ==
  /\ hop \in [0..Len(chain) -> HopState(C)]
  /\ hop[0] = [up |-> up, prev |-> Nothing]
  /\ \A i \in 1..Len(chain) : hop[i] = Hop(hop[i - 1], self, chain[i])
  /\ Wire(up, self, chain) = hop[Len(chain)]

\* The hops of a chain, one by one.
LEMMA HopFunction ==
  ASSUME NEW C, Ids \subseteq C, NEW up \in [C -> Ids \cup {Nothing}], NEW self,
         NEW chain \in Seq(Ids)
  PROVE  \E hop : Hops(hop, C, up, self, chain)
<1> DEFINE n == Len(chain)
           base == [up |-> up, prev |-> Nothing]
           F == [i \in 1..n |-> [w \in HopState(C) |-> Hop(w, self, chain[i])]]
           H == CHOOSE f : f = [i \in 0..n |-> IF i = 0 THEN base
                                               ELSE Hop(f[i - 1], self, chain[i])]
<1>1. n \in Nat /\ \A i \in 1..n : chain[i] \in Ids
  OBVIOUS
<1>2. base \in HopState(C)
  BY DEF HopState
<1>3. \A i \in 1..n, w \in HopState(C) : Hop(w, self, chain[i]) \in HopState(C)
  BY <1>1, HopTyped
<1>4. \A i \in 1..n, w \in HopState(C) :
         F[i][w] = Hop(w, self, chain[i]) /\ F[i][w] \in HopState(C)
  BY <1>3
<1>4a. F \in [1..n -> [HopState(C) -> HopState(C)]]
  BY <1>3
<1> HIDE DEF F, base
<1>5. PICK h : Runs(h, n, HopState(C), base, F)
  <2> HIDE DEF n
  <2> QED BY <1>1, <1>2, <1>4a, StepByStep
<1>5a. /\ h \in [0..n -> HopState(C)] /\ h[0] = base
       /\ \A i \in 1..n : h[i] = F[i][h[i - 1]]
  BY <1>5 DEF Runs
<1>6. h = [i \in 0..n |-> IF i = 0 THEN base ELSE Hop(h[i - 1], self, chain[i])]
  <2>1. ASSUME NEW i \in 0..n
        PROVE  h[i] = IF i = 0 THEN base ELSE Hop(h[i - 1], self, chain[i])
    <3>1. CASE i = 0
      BY <1>5a, <3>1
    <3>2. CASE i # 0
      <4>1. i \in 1..n /\ i - 1 \in 0..n
        BY <1>1, <3>2
      <4>2. h[i - 1] \in HopState(C)
        BY <1>5a, <4>1
      <4> QED BY <1>4, <1>5a, <3>2, <4>1, <4>2
    <3> QED BY <3>1, <3>2
  <2> HIDE DEF n
  <2> QED BY <1>5a, <2>1
<1>7. H = [i \in 0..n |-> IF i = 0 THEN base ELSE Hop(H[i - 1], self, chain[i])]
  BY <1>6, Zenon
<1>8. Wire(up, self, chain) = H[n]
  BY DEF Wire, base
<1> HIDE DEF H
<1>9. H[0] = base /\ \A i \in 1..n : H[i] = Hop(H[i - 1], self, chain[i])
  BY <1>1, <1>7
<1>10. \A i \in 0..n : i \in {j \in 0..n : H[j] \in HopState(C)}
  <2> DEFINE S == {j \in 0..n : H[j] \in HopState(C)}
  <2>1. 0 \in S
    BY <1>1, <1>2, <1>9
  <2>2. \A i \in 1..n : i - 1 \in S => i \in S
    BY <1>1, <1>3, <1>9
  <2> HIDE DEF S, n
  <2> QED BY <1>1, <2>1, <2>2, NumberByNumber DEF S
<1>11. H \in [0..n -> HopState(C)]
  <2> HIDE DEF n
  <2> QED BY <1>7, <1>10
<1>12. Hops(H, C, up, self, chain)
  BY <1>8, <1>9, <1>11 DEF Hops, base
<1> QED BY <1>12

\* Wiring a chain leaves a forest.  Links are new only between two ids of the chain, from
\* one that hung nowhere, and never from the message itself.
LEMMA WiringKeepsTheForest ==
  ASSUME NEW C, NEW up, Forest(C, up), NEW self \in C, NEW chain \in Seq(Ids)
  PROVE  LET w == Wire(up, self, chain)
         IN /\ w \in HopState(C) /\ Forest(C, w.up)
            /\ w.prev \in ToSet(chain) \cup {Nothing} /\ w.prev # self
            /\ \A x \in C : \/ w.up[x] = up[x]
                            \/ /\ up[x] = Nothing /\ x # self
                               /\ x \in ToSet(chain) /\ w.up[x] \in ToSet(chain)
<1>0. up \in [C -> Ids \cup {Nothing}] /\ Ids \subseteq C /\ Nothing \notin C
  BY DEF Forest
<1>a. PICK hop : Hops(hop, C, up, self, chain)
  BY <1>0, HopFunction
<1>1. /\ hop \in [0..Len(chain) -> HopState(C)]
      /\ hop[0] = [up |-> up, prev |-> Nothing]
      /\ \A i \in 1..Len(chain) : hop[i] = Hop(hop[i - 1], self, chain[i])
      /\ Wire(up, self, chain) = hop[Len(chain)]
  BY <1>a DEF Hops
<1> DEFINE n == Len(chain)
           Good(w) ==
             /\ w \in HopState(C) /\ Forest(C, w.up)
             /\ w.prev \in ToSet(chain) \cup {Nothing} /\ w.prev # self
             /\ \A x \in C : \/ w.up[x] = up[x]
                             \/ /\ up[x] = Nothing /\ x # self
                                /\ x \in ToSet(chain) /\ w.up[x] \in ToSet(chain)
           S == {i \in 0..n : Good(hop[i])}
<1>2. n \in Nat /\ \A i \in 1..n : chain[i] \in Ids /\ chain[i] \in ToSet(chain)
  BY DEF ToSet
<1>3. 0 \in S
  <2>1. hop[0].up = up /\ hop[0].prev = Nothing /\ hop[0] \in HopState(C)
    BY <1>1, <1>2
  <2> QED BY <1>0, <1>2, <2>1
<1>4. ASSUME NEW i \in 1..n, i - 1 \in S PROVE i \in S
  <2> DEFINE w == hop[i - 1]
             id == chain[i]
  <2>1. Good(w) /\ hop[i] = Hop(w, self, id) /\ id \in Ids /\ id \in ToSet(chain) /\ id \in C
    BY <1>0, <1>1, <1>2, <1>4
  <2>2. hop[i] \in HopState(C)
    BY <1>1
  <2> HIDE DEF w, id
  <2>3. CASE id = self
    <3>1. hop[i] = w
      BY <2>1, <2>3 DEF Hop
    <3>2. Good(hop[i])
      BY <2>1, <3>1
    <3> QED BY <3>2
  <2>4. CASE id # self /\ w.up[id] = Nothing /\ MayHang(w.up, id, w.prev)
    <3>1. hop[i].up = [w.up EXCEPT ![id] = w.prev] /\ hop[i].prev = id
      BY <2>1, <2>4 DEF Hop
    <3>2. w.prev \in ToSet(chain) /\ w.prev \in Ids /\ w.up \in [C -> Ids \cup {Nothing}]
      BY <2>1, <2>4 DEF MayHang, HopState
    <3>3. Forest(C, hop[i].up)
      BY <2>1, <2>4, <3>1, <3>2, HangingKeepsTheForest
    <3>4. \A x \in C : hop[i].up[x] = IF x = id THEN w.prev ELSE w.up[x]
      BY <3>1, <3>2
    <3>5. \A x \in C : \/ hop[i].up[x] = up[x]
                       \/ /\ up[x] = Nothing /\ x # self
                          /\ x \in ToSet(chain) /\ hop[i].up[x] \in ToSet(chain)
      <4> SUFFICES ASSUME NEW x \in C
                   PROVE  \/ hop[i].up[x] = up[x]
                          \/ /\ up[x] = Nothing /\ x # self
                             /\ x \in ToSet(chain) /\ hop[i].up[x] \in ToSet(chain)
        OBVIOUS
      <4>1. CASE x = id
        <5>1. Nothing \notin ToSet(chain)
          BY <1>0, <1>2 DEF ToSet
        <5>2. up[x] = Nothing
          BY <2>1, <2>4, <4>1, <5>1
        <5> QED BY <2>1, <2>4, <3>2, <3>4, <4>1, <5>2
      <4>2. CASE x # id
        BY <2>1, <3>4, <4>2
      <4> QED BY <4>1, <4>2
    <3>6. Good(hop[i])
      BY <2>1, <2>2, <2>4, <3>1, <3>3, <3>5
    <3> QED BY <3>6
  <2>5. CASE id # self /\ ~(w.up[id] = Nothing /\ MayHang(w.up, id, w.prev))
    <3>1. hop[i].up = w.up /\ hop[i].prev = id
      BY <2>1, <2>5 DEF Hop
    <3> QED BY <2>1, <2>2, <2>5, <3>1
  <2> QED BY <2>3, <2>4, <2>5
<1> HIDE DEF S
<1>5. \A i \in 0..n : i \in S
  BY <1>2, <1>3, <1>4, NumberByNumber
<1>6. Good(hop[n])
  BY <1>2, <1>5 DEF S
<1> QED BY <1>1, <1>6

-----------------------------------------------------------------------------
(* Placing the rows.                                                       *)

Heads == [id : Ids \cup {NoId}, chain : Seq(Ids), moved : BOOLEAN]

TreeState(C) == [of : [C -> Nat], up : [C -> Ids \cup {Nothing}]]

LEMMA SelfTyped ==
  ASSUME NEW C, Ids \subseteq C, NEW t, NEW h \in Heads, NEW n, -n \in C
  PROVE  SelfOf(t, h, n) \in C
BY DEF SelfOf, Heads

LEMMA PlaceTyped ==
  ASSUME NEW C, Ids \subseteq C, NEW t \in TreeState(C), NEW h \in Heads, NEW n \in Nat, -n \in C
  PROVE  Place(t, h, n) \in TreeState(C)
<1> DEFINE self == SelfOf(t, h, n)
           w == Wire(t.up, self, h.chain)
<1>1. t.up \in [C -> Ids \cup {Nothing}] /\ t.of \in [C -> Nat] /\ h.chain \in Seq(Ids)
  BY DEF TreeState, Heads
<1>2. self \in C
  BY SelfTyped
<1> HIDE DEF self
<1>3. PICK hop : Hops(hop, C, t.up, self, h.chain)
  BY <1>1, HopFunction
<1>4. Len(h.chain) \in Nat /\ w \in HopState(C)
  BY <1>1, <1>3 DEF Hops
<1> HIDE DEF w
<1>5. w.prev \in Ids \cup {Nothing} /\ w.up \in [C -> Ids \cup {Nothing}]
  BY <1>4 DEF HopState
<1>6. Place(t, h, n) = [of |-> [t.of EXCEPT ![self] = n],
                        up |-> IF MayHang(w.up, self, w.prev)
                               THEN [w.up EXCEPT ![self] = w.prev] ELSE w.up]
  BY DEF Place, self, w
<1>7. [t.of EXCEPT ![self] = n] \in [C -> Nat]
  BY <1>1, <1>2
<1>8. [w.up EXCEPT ![self] = w.prev] \in [C -> Ids \cup {Nothing}]
  BY <1>2, <1>5
<1> QED BY <1>5, <1>6, <1>7, <1>8 DEF TreeState

Bare(C) == [of |-> [x \in C |-> Nothing], up |-> [x \in C |-> Nothing]]

Placed(placed, heads) ==
  LET C == Containers(Len(heads))
  IN /\ placed \in [0..Len(heads) -> TreeState(C)]
     /\ placed[0] = Bare(C)
     /\ \A n \in 1..Len(heads) : placed[n] = Place(placed[n - 1], heads[n], n)
     /\ BuildThreads(heads) = placed[Len(heads)]

\* The trees of the first rows, row by row.
LEMMA PlaceFunction ==
  ASSUME NEW heads \in Seq(Heads)
  PROVE  \E placed : Placed(placed, heads)
<1> DEFINE n == Len(heads)
           C == Containers(n)
           base == Bare(C)
           F == [m \in 1..n |-> [t \in TreeState(C) |-> Place(t, heads[m], m)]]
           H == CHOOSE f : f = [m \in 0..n |-> IF m = 0 THEN base
                                               ELSE Place(f[m - 1], heads[m], m)]
<1>1. n \in Nat /\ \A m \in 1..n : heads[m] \in Heads
  OBVIOUS
<1>2. Ids \subseteq C /\ \A m \in 1..n : -m \in C
  BY DEF Containers
<1>3. base \in TreeState(C)
  BY DEF Bare, TreeState, Nothing
<1> HIDE DEF C
<1>4. \A m \in 1..n, t \in TreeState(C) : Place(t, heads[m], m) \in TreeState(C)
  BY <1>1, <1>2, PlaceTyped
<1>5. F \in [1..n -> [TreeState(C) -> TreeState(C)]]
  BY <1>4
<1>6. \A m \in 1..n, t \in TreeState(C) : F[m][t] = Place(t, heads[m], m)
  OBVIOUS
<1> HIDE DEF F, base
<1>7. PICK h : Runs(h, n, TreeState(C), base, F)
  <2> HIDE DEF n
  <2> QED BY <1>1, <1>3, <1>5, StepByStep
<1>8. /\ h \in [0..n -> TreeState(C)] /\ h[0] = base
      /\ \A m \in 1..n : h[m] = F[m][h[m - 1]]
  BY <1>7 DEF Runs
<1>9. h = [m \in 0..n |-> IF m = 0 THEN base ELSE Place(h[m - 1], heads[m], m)]
  <2>1. ASSUME NEW m \in 0..n
        PROVE  h[m] = IF m = 0 THEN base ELSE Place(h[m - 1], heads[m], m)
    <3>1. CASE m = 0
      BY <1>8, <3>1
    <3>2. CASE m # 0
      <4>1. m \in 1..n /\ m - 1 \in 0..n
        BY <1>1, <3>2
      <4>2. h[m - 1] \in TreeState(C)
        BY <1>8, <4>1
      <4> QED BY <1>6, <1>8, <3>2, <4>1, <4>2
    <3> QED BY <3>1, <3>2
  <2> HIDE DEF n
  <2> QED BY <1>8, <2>1
<1>10. H = [m \in 0..n |-> IF m = 0 THEN base ELSE Place(H[m - 1], heads[m], m)]
  BY <1>9, Zenon
<1>11. BuildThreads(heads) = H[n]
  BY DEF BuildThreads, base, Bare, C
<1> HIDE DEF H
<1>12. H[0] = base /\ \A m \in 1..n : H[m] = Place(H[m - 1], heads[m], m)
  BY <1>1, <1>10
<1>13. \A m \in 0..n : m \in {k \in 0..n : H[k] \in TreeState(C)}
  <2> DEFINE S == {k \in 0..n : H[k] \in TreeState(C)}
  <2>1. 0 \in S
    BY <1>1, <1>3, <1>12
  <2>2. \A m \in 1..n : m - 1 \in S => m \in S
    BY <1>1, <1>4, <1>12
  <2> HIDE DEF S, n
  <2> QED BY <1>1, <2>1, <2>2, NumberByNumber DEF S
<1>14. H \in [0..n -> TreeState(C)]
  <2> HIDE DEF n
  <2> QED BY <1>10, <1>13
<1>15. Placed(H, heads)
  BY <1>11, <1>12, <1>14 DEF Placed, C, base
<1> QED BY <1>15

\* One row: what changes is its container, and links from it or the ids it names to ids it
\* names.
RowPlaced(C, t, h, n, u) ==
  LET self == SelfOf(t, h, n)
  IN /\ self \in C /\ u.of = [t.of EXCEPT ![self] = n]
     /\ Forest(C, u.up)
     /\ \A x \in C : \/ u.up[x] = t.up[x]
                     \/ /\ x \in ToSet(h.chain) \cup {self}
                        /\ u.up[x] \in ToSet(h.chain)

LEMMA PlacingARow ==
  ASSUME NEW C, NEW t \in TreeState(C), Forest(C, t.up), NEW h \in Heads, NEW n \in Nat, -n \in C
  PROVE  RowPlaced(C, t, h, n, Place(t, h, n))
<1> DEFINE self == SelfOf(t, h, n)
           w == Wire(t.up, self, h.chain)
<1>1. Ids \subseteq C /\ h.chain \in Seq(Ids) /\ Nothing \notin C
  BY DEF Forest, Heads
<1>2. self \in C
  BY <1>1, SelfTyped
<1>3. /\ Place(t, h, n).of = [t.of EXCEPT ![self] = n]
      /\ Place(t, h, n).up = IF MayHang(w.up, self, w.prev)
                             THEN [w.up EXCEPT ![self] = w.prev] ELSE w.up
  BY DEF Place
<1> HIDE DEF self
<1>4. /\ w \in HopState(C) /\ Forest(C, w.up)
      /\ w.prev \in ToSet(h.chain) \cup {Nothing} /\ w.prev # self
      /\ \A x \in C : \/ w.up[x] = t.up[x]
                      \/ /\ t.up[x] = Nothing /\ x # self
                         /\ x \in ToSet(h.chain) /\ w.up[x] \in ToSet(h.chain)
  BY <1>1, <1>2, WiringKeepsTheForest
<1> HIDE DEF w
<1>5. w.up \in [C -> Ids \cup {Nothing}] /\ w.prev \in Ids \cup {Nothing}
  BY <1>4 DEF HopState
<1>6. CASE MayHang(w.up, self, w.prev)
  <2>1. Forest(C, [w.up EXCEPT ![self] = w.prev])
    BY <1>2, <1>4, <1>5, <1>6, HangingKeepsTheForest
  <2>2. w.prev \in ToSet(h.chain)
    BY <1>4, <1>6 DEF MayHang
  <2>3. \A x \in C : [w.up EXCEPT ![self] = w.prev][x] = IF x = self THEN w.prev ELSE w.up[x]
    BY <1>5
  <2> QED BY <1>2, <1>3, <1>4, <1>6, <2>1, <2>2, <2>3 DEF self, RowPlaced
<1>7. CASE ~MayHang(w.up, self, w.prev)
  BY <1>2, <1>3, <1>4, <1>7 DEF self, RowPlaced
<1> QED BY <1>6, <1>7

-----------------------------------------------------------------------------
(* What the trees of the first n rows are.                                 *)

\* Each row has one container, its id's or one of its own; an id that rows have is taken.
RowsHeld(t, heads, n) ==
  LET C == Containers(Len(heads))
  IN /\ \A x \in C : t.of[x] \in 0..n
     /\ \A m \in 1..n : \E x \in C : t.of[x] = m
     /\ \A x, y \in C : t.of[x] # Nothing /\ t.of[x] = t.of[y] => x = y
     /\ \A x \in C : t.of[x] # Nothing =>
          \/ x \in Ids /\ heads[t.of[x]].id = x
          \/ x = -t.of[x]
     /\ \A m \in 1..n : heads[m].id # NoId => t.of[heads[m].id] # Nothing
     /\ \A k \in (n + 1)..Len(heads) : t.of[-k] = Nothing /\ t.up[-k] = Nothing

\* A link from x is one that row m asks for.
Calls(heads, m, x) == (x \in Ids /\ x \in Names(heads[m])) \/ x = -m

LinksNamed(t, heads, n) ==
  \A x \in Containers(Len(heads)) : t.up[x] # Nothing =>
    \E m \in 1..n : Calls(heads, m, x) /\ t.up[x] \in ToSet(heads[m].chain)

LEMMA SelfIsFree ==
  ASSUME NEW heads \in Seq(Heads), NEW n \in 1..Len(heads), NEW t, RowsHeld(t, heads, n - 1)
  PROVE  LET self == SelfOf(t, heads[n], n)
         IN /\ t.of[self] = Nothing
            /\ (self \in Ids /\ heads[n].id = self) \/ self = -n
            /\ heads[n].id # NoId => self = heads[n].id \/ t.of[heads[n].id] # Nothing
<1>1. heads[n] \in Heads /\ Len(heads) \in Nat
  OBVIOUS
<1>2. heads[n].id # NoId => heads[n].id \in Ids
  BY <1>1 DEF Heads
<1>3. n \in (n - 1 + 1)..Len(heads)
  BY <1>1
<1>4. t.of[-n] = Nothing
  BY <1>3 DEF RowsHeld
<1> QED BY <1>2, <1>4 DEF SelfOf

LEMMA PlacingHolds ==
  ASSUME NEW heads \in Seq(Heads), NEW n \in 1..Len(heads),
         NEW t \in TreeState(Containers(Len(heads))), Forest(Containers(Len(heads)), t.up),
         RowsHeld(t, heads, n - 1), LinksNamed(t, heads, n - 1)
  PROVE  LET u == Place(t, heads[n], n)
         IN RowsHeld(u, heads, n) /\ LinksNamed(u, heads, n)
<1> DEFINE C == Containers(Len(heads))
           self == SelfOf(t, heads[n], n)
           u == Place(t, heads[n], n)
<1>1. Len(heads) \in Nat /\ heads[n] \in Heads /\ n \in Nat
  OBVIOUS
<1>2. /\ -n \in C /\ Ids \subseteq C
      /\ \A x \in C : x \in Ids \/ \E k \in 1..Len(heads) : x = -k
      /\ \A i \in Ids : i \in Nat \ {0}
  BY <1>1, IdsAssumption DEF Containers, Ids
<1>3. /\ self \in C /\ u.of = [t.of EXCEPT ![self] = n]
      /\ \A x \in C : \/ u.up[x] = t.up[x]
                      \/ /\ x \in ToSet(heads[n].chain) \cup {self}
                         /\ u.up[x] \in ToSet(heads[n].chain)
  <2>1. t \in TreeState(C) /\ Forest(C, t.up)
    OBVIOUS
  <2> HIDE DEF C
  <2>2. RowPlaced(C, t, heads[n], n, Place(t, heads[n], n))
    BY <1>1, <1>2, <2>1, PlacingARow
  <2> QED BY <2>2 DEF RowPlaced
<1>4. /\ t.of[self] = Nothing
      /\ (self \in Ids /\ heads[n].id = self) \/ self = -n
      /\ heads[n].id # NoId => self = heads[n].id \/ t.of[heads[n].id] # Nothing
  BY SelfIsFree
<1>5. t.of \in [C -> Nat]
  BY DEF TreeState
<1> HIDE DEF u, self, C
<1>6. \A x \in C : u.of[x] = IF x = self THEN n ELSE t.of[x]
  BY <1>3, <1>5
<1>7. ToSet(heads[n].chain) \subseteq Ids
  BY <1>1 DEF ToSet, Heads
<1>8. RowsHeld(u, heads, n)
  <2>0. /\ \A x \in C : t.of[x] \in 0..(n - 1)
        /\ \A m \in 1..(n - 1) : \E x \in C : t.of[x] = m
        /\ \A x, y \in C : t.of[x] # Nothing /\ t.of[x] = t.of[y] => x = y
        /\ \A x \in C : t.of[x] # Nothing =>
             \/ x \in Ids /\ heads[t.of[x]].id = x
             \/ x = -t.of[x]
        /\ \A m \in 1..(n - 1) : heads[m].id # NoId => t.of[heads[m].id] # Nothing
        /\ \A k \in (n - 1 + 1)..Len(heads) : t.of[-k] = Nothing /\ t.up[-k] = Nothing
    BY DEF RowsHeld, C
  <2>1. \A x \in C : u.of[x] \in 0..n
    BY <1>1, <1>6, <2>0
  <2>2. ASSUME NEW m \in 1..n PROVE \E x \in C : u.of[x] = m
    <3>1. CASE m = n
      BY <1>3, <1>6, <3>1
    <3>2. CASE m # n
      <4>1. PICK x \in C : t.of[x] = m
        BY <1>1, <2>0, <3>2
      <4>2. x # self
        BY <1>4, <4>1 DEF Nothing
      <4> QED BY <1>6, <4>1, <4>2
    <3> QED BY <3>1, <3>2
  <2>3. \A x, y \in C : u.of[x] # Nothing /\ u.of[x] = u.of[y] => x = y
    <3>1. \A x \in C : t.of[x] # n
      BY <1>1, <2>0
    <3> QED BY <1>6, <2>0, <3>1
  <2>4. \A x \in C : u.of[x] # Nothing => (x \in Ids /\ heads[u.of[x]].id = x) \/ x = -u.of[x]
    BY <1>4, <1>6, <2>0
  <2>5. ASSUME NEW m \in 1..n, heads[m].id # NoId PROVE u.of[heads[m].id] # Nothing
    <3>0. heads[m] \in Heads
      BY <1>1
    <3>1. heads[m].id \in Ids /\ heads[m].id \in C
      BY <1>2, <2>5, <3>0 DEF Heads
    <3>2. CASE heads[m].id = self
      BY <1>1, <1>6, <3>1, <3>2 DEF Nothing
    <3>3. CASE heads[m].id # self
      <4>1. t.of[heads[m].id] # Nothing
        BY <1>1, <1>4, <2>0, <2>5, <3>3
      <4> QED BY <1>6, <3>1, <3>3, <4>1
    <3> QED BY <3>2, <3>3
  <2>6. ASSUME NEW k \in (n + 1)..Len(heads) PROVE u.of[-k] = Nothing /\ u.up[-k] = Nothing
    <3>1. k \in (n - 1 + 1)..Len(heads) /\ k # n /\ k \in 1..Len(heads)
      BY <1>1
    <3>2. -k \in C /\ -k \notin Ids /\ -k # -n
      BY <1>1, <1>2, <3>1 DEF C, Containers
    <3>3. -k # self /\ -k \notin ToSet(heads[n].chain)
      BY <1>4, <1>7, <3>2
    <3> QED BY <1>3, <1>6, <2>0, <3>1, <3>2, <3>3
  <2> QED BY <2>1, <2>2, <2>3, <2>4, <2>5, <2>6 DEF RowsHeld, C
<1>9. LinksNamed(u, heads, n)
  <2> SUFFICES ASSUME NEW x \in C, u.up[x] # Nothing
               PROVE  \E m \in 1..n : Calls(heads, m, x) /\ u.up[x] \in ToSet(heads[m].chain)
    BY DEF LinksNamed, C
  <2>1. CASE u.up[x] = t.up[x]
    <3>1. PICK m \in 1..(n - 1) : Calls(heads, m, x) /\ t.up[x] \in ToSet(heads[m].chain)
      BY <2>1 DEF LinksNamed, C
    <3>2. m \in 1..n
      BY <1>1
    <3> QED BY <2>1, <3>1, <3>2
  <2>2. CASE x \in ToSet(heads[n].chain) \cup {self} /\ u.up[x] \in ToSet(heads[n].chain)
    <3>1. Calls(heads, n, x)
      BY <1>4, <1>7, <2>2 DEF Calls, Names
    <3> QED BY <2>2, <3>1
  <2> QED BY <1>3, <2>1, <2>2
<1> QED BY <1>8, <1>9 DEF u

Built(t, heads) ==
  /\ t \in TreeState(Containers(Len(heads))) /\ Forest(Containers(Len(heads)), t.up)
  /\ RowsHeld(t, heads, Len(heads)) /\ LinksNamed(t, heads, Len(heads))

\* Before the first row.
LEMMA NothingIsPlaced ==
  ASSUME NEW heads \in Seq(Heads), NEW t, t = Bare(Containers(Len(heads)))
  PROVE  Forest(Containers(Len(heads)), t.up) /\ RowsHeld(t, heads, 0) /\ LinksNamed(t, heads, 0)
<1> DEFINE C == Containers(Len(heads))
           L == Len(heads)
           rank == [x \in C |-> 0]
<1>1. L \in Nat
  OBVIOUS
<1>2. /\ \A n \in 1..L : -n \in C
      /\ Ids \subseteq C /\ Nothing \notin C
  BY <1>1, IdsAssumption DEF Containers, Ids, Nothing
<1>3. \A x \in C : t.of[x] = Nothing /\ t.up[x] = Nothing
  BY DEF Bare
<1>4. t.up \in [C -> Ids \cup {Nothing}]
  BY DEF Bare
<1>5. rank \in [C -> Nat]
  OBVIOUS
<1>6. Forest(C, t.up)
  <2> HIDE DEF C, rank
  <2> QED BY <1>2, <1>3, <1>4, <1>5 DEF Forest
<1>7. RowsHeld(t, heads, 0)
  <2>1. 1..0 = {} /\ \A k \in (0 + 1)..L : -k \in C
    BY <1>1, <1>2
  <2> QED BY <1>3, <2>1 DEF RowsHeld, Nothing
<1>8. LinksNamed(t, heads, 0)
  BY <1>3 DEF LinksNamed
<1> QED BY <1>6, <1>7, <1>8

\* buildThreads, before empty containers are spliced out.
LEMMA TreesAreBuilt ==
  ASSUME NEW heads \in Seq(Heads)
  PROVE  Built(BuildThreads(heads), heads)
<1> DEFINE C == Containers(Len(heads))
           L == Len(heads)
<1>1. L \in Nat /\ \A n \in 1..L : heads[n] \in Heads
  OBVIOUS
<1>2. /\ \A n \in 1..L : -n \in C
      /\ Ids \subseteq C /\ Nothing \notin C
  BY <1>1, IdsAssumption DEF Containers, Ids, Nothing
<1>3. PICK placed : Placed(placed, heads)
  BY PlaceFunction
<1>4. /\ placed \in [0..L -> TreeState(C)]
      /\ placed[0] = Bare(C)
      /\ \A n \in 1..L : placed[n] = Place(placed[n - 1], heads[n], n)
      /\ BuildThreads(heads) = placed[L]
  BY <1>3 DEF Placed
<1> DEFINE Good(n) == Forest(C, placed[n].up) /\ RowsHeld(placed[n], heads, n)
                      /\ LinksNamed(placed[n], heads, n)
           S == {n \in 0..L : Good(n)}
<1>5. Good(0)
  BY <1>4, NothingIsPlaced
<1>6. ASSUME NEW n \in 1..L, Good(n - 1) PROVE Good(n)
  <2>1. placed[n - 1] \in TreeState(C) /\ placed[n] = Place(placed[n - 1], heads[n], n)
    BY <1>1, <1>4
  <2>2. n \in Nat /\ -n \in C /\ heads[n] \in Heads
    BY <1>1, <1>2
  <2>3. Forest(C, placed[n].up)
    <3>1. RowPlaced(C, placed[n - 1], heads[n], n, placed[n])
      <4>1. Forest(C, placed[n - 1].up)
        BY <1>6
      <4> HIDE DEF C
      <4> QED BY <2>1, <2>2, <4>1, PlacingARow
    <3> QED BY <3>1 DEF RowPlaced
  <2>4. RowsHeld(placed[n], heads, n) /\ LinksNamed(placed[n], heads, n)
    BY <1>6, <2>1, PlacingHolds
  <2> QED BY <2>3, <2>4
<1> HIDE DEF Good
<1>7. \A n \in 0..L : n \in S
  <2>1. 0 \in S
    BY <1>1, <1>5
  <2>2. \A n \in 1..L : n - 1 \in S => n \in S
    BY <1>1, <1>6
  <2> HIDE DEF S, L
  <2> QED BY <1>1, <2>1, <2>2, NumberByNumber
<1>8. Good(L) /\ placed[L] \in TreeState(C)
  BY <1>1, <1>4, <1>7
<1> QED BY <1>4, <1>8 DEF Built, Good

-----------------------------------------------------------------------------
(* Roots.                                                                  *)

LEMMA BuiltMeans ==
  ASSUME NEW heads \in Seq(Heads), NEW t, Built(t, heads), NEW C, C = Containers(Len(heads))
  PROVE  /\ t.of \in [C -> Nat] /\ t.up \in [C -> Ids \cup {Nothing}]
         /\ Forest(C, t.up) /\ DOMAIN t.of = C
         /\ Ids \subseteq C /\ IsFiniteSet(C)
         /\ \A x \in C : x \in Ids \/ \E k \in 1..Len(heads) : x = -k
         /\ \A x \in C : x \in Int /\ (x > 0 <=> x \in Ids)
<1>0. Len(heads) \in Nat
  OBVIOUS
<1>1. t.of \in [C -> Nat] /\ t.up \in [C -> Ids \cup {Nothing}] /\ Forest(C, t.up)
  BY DEF Built, TreeState
<1>2. \A x \in C : x \in Ids \/ \E k \in 1..Len(heads) : x = -k
  BY DEF Containers
<1>3. \A x \in C : x \in Int /\ (x > 0 <=> x \in Ids)
  BY <1>0, <1>2, IdsAssumption DEF Ids
<1>4. IsFiniteSet(C)
  <2>1. IsFiniteSet(1..N) /\ IsFiniteSet(1..Len(heads))
    BY <1>0, IdsAssumption, FS_Interval
  <2>2. IsFiniteSet({-k : k \in 1..Len(heads)})
    <3> DEFINE T == {-k : k \in 1..Len(heads)}
               f == [k \in 1..Len(heads) |-> -k]
    <3>1. f \in Surjection(1..Len(heads), T)
      BY DEF Surjection
    <3> HIDE DEF f
    <3> QED BY <2>1, <3>1, FS_Surjection
  <2> QED BY <2>1, <2>2, FS_Union DEF Containers, Ids
<1> QED BY <1>1, <1>2, <1>3, <1>4 DEF Containers

\* The container of a row: its id's, or one of its own.
LEMMA RowHasItsContainer ==
  ASSUME NEW heads \in Seq(Heads), NEW t, Built(t, heads), NEW n \in 1..Len(heads)
  PROVE  /\ ContainerOf(t, n) \in Containers(Len(heads)) /\ t.of[ContainerOf(t, n)] = n
         /\ \A x \in Containers(Len(heads)) : t.of[x] = n => x = ContainerOf(t, n)
         /\ \/ ContainerOf(t, n) \in Ids /\ heads[n].id = ContainerOf(t, n)
            \/ ContainerOf(t, n) = -n
<1> DEFINE C == Containers(Len(heads))
<1>1. DOMAIN t.of = C
  BY BuiltMeans
<1>2. /\ \E x \in C : t.of[x] = n
      /\ \A x, y \in C : t.of[x] # Nothing /\ t.of[x] = t.of[y] => x = y
      /\ \A x \in C : t.of[x] # Nothing => (x \in Ids /\ heads[t.of[x]].id = x) \/ x = -t.of[x]
  BY DEF Built, RowsHeld
<1>3. n # Nothing
  BY DEF Nothing
<1> HIDE DEF C
<1>4. ContainerOf(t, n) \in C /\ t.of[ContainerOf(t, n)] = n
  BY <1>1, <1>2 DEF ContainerOf
<1> QED BY <1>2, <1>3, <1>4 DEF C

LEMMA TwoAreMoreThanOne ==
  ASSUME NEW S, IsFiniteSet(S), NEW a \in S, NEW b \in S, a # b
  PROVE  Cardinality(S) > 1
<1>1. IsFiniteSet(S \ {a}) /\ Cardinality(S \ {a}) = Cardinality(S) - 1
  BY FS_RemoveElement
<1>2. Cardinality(S \ {a}) # 0
  BY <1>1, FS_EmptySet
<1> QED BY <1>1, <1>2, FS_CardinalityType

\* Under an empty top there is, on the way up from a message, one that rises to it.
LEMMA OneRises ==
  ASSUME NEW heads \in Seq(Heads), NEW t, Built(t, heads),
         NEW x \in Containers(Len(heads)), t.of[x] # Nothing, t.of[Top(t, x)] = Nothing
  PROVE  \E y \in Risen(t, Top(t, x)) : y \in Above(t.up, x)
<1> DEFINE C == Containers(Len(heads))
           up == t.up
           Held1(c) == \E z \in Above(up, c) : t.of[z] # Nothing
           Rises(c) == \E y \in Risen(t, TopOf(up, c)) : y \in Above(up, c)
           S == {c \in C : t.of[TopOf(up, c)] = Nothing /\ Held1(c) => Rises(c)}
<1>1. Forest(C, up) /\ up \in [C -> Ids \cup {Nothing}] /\ DOMAIN t.of = C /\ Ids \subseteq C
  BY BuiltMeans
<1>2. \A c : Top(t, c) = TopOf(up, c)
  BY DEF Top, TopOf
<1> HIDE DEF C, up
<1>3. ASSUME NEW c \in C, up[c] = Nothing \/ up[c] \in S PROVE c \in S
  <2> SUFFICES ASSUME t.of[TopOf(up, c)] = Nothing, Held1(c) PROVE Rises(c)
    OBVIOUS
  <2>1. Above(up, c) = IF up[c] = Nothing THEN {c} ELSE {c} \cup Above(up, up[c])
    BY <1>1, AboveStep
  <2>2. CASE up[c] = Nothing
    <3>1. TopOf(up, c) = c /\ Above(up, c) = {c}
      BY <1>1, <2>1, <2>2, TopStep
    <3> QED BY <3>1
  <2>3. CASE up[c] # Nothing
    <3> DEFINE p == up[c]
    <3>1. p \in C /\ TopOf(up, c) = TopOf(up, p)
      BY <1>1, <2>3, TopStep
    <3>2. Above(up, c) = {c} \cup Above(up, p)
      BY <2>1, <2>3
    <3>3. Held1(p) => Rises(p)
      BY <1>3, <2>3, <3>1
    <3>4. CASE Held1(p)
      BY <3>1, <3>2, <3>3, <3>4
    <3>5. CASE ~Held1(p)
      <4>1. t.of[c] # Nothing
        BY <3>2, <3>5
      <4>2. TopOf(up, c) # c
        BY <4>1
      <4>3. TopOf(up, c) \in Above(up, c)
        BY <1>1, TopIsAbove
      <4>4. \A y \in Above(up, c) \ {c, TopOf(up, c)} : t.of[y] = Nothing
        BY <3>2, <3>5
      <4>5. c \in Risen(t, TopOf(up, c))
        BY <1>1, <4>1, <4>2, <4>3, <4>4 DEF Risen, up
      <4>6. c \in Above(up, c)
        BY <3>2
      <4> QED BY <4>5, <4>6
    <3> QED BY <3>4, <3>5
  <2> QED BY <2>2, <2>3
<1>4. x \in C /\ x \in Above(up, x)
  BY <1>1, WalksUp DEF C
<1>5. C \subseteq S
  <2> HIDE DEF S
  <2> QED BY <1>1, <1>3, FromTheTop
<1>6. t.of[TopOf(up, x)] = Nothing /\ Held1(x)
  BY <1>2, <1>4
<1>7. Rises(x)
  BY <1>4, <1>5, <1>6
<1> QED BY <1>2, <1>7 DEF up

\* pruneEmpties: the root of a message lies on its way up, is held or an id that several
\* hang from, and is the root of itself.
LEMMA RootOfATree ==
  ASSUME NEW heads \in Seq(Heads), NEW t, Built(t, heads),
         NEW x \in Containers(Len(heads)), t.of[x] # Nothing
  PROVE  /\ TreeRoot(t, x) \in Above(t.up, x)
         /\ TreeRoot(t, x) \in Containers(Len(heads))
         /\ TreeRoot(t, TreeRoot(t, x)) = TreeRoot(t, x)
         /\ TreeRoot(t, x) \in Ids \/ TreeRoot(t, x) = x
         /\ t.of[Top(t, x)] # Nothing => TreeRoot(t, x) = Top(t, x)
<1> DEFINE C == Containers(Len(heads))
           up == t.up
           peak == Top(t, x)
           r == TreeRoot(t, x)
<1>1. Forest(C, up) /\ DOMAIN t.of = C /\ Ids \subseteq C /\ IsFiniteSet(C)
  BY BuiltMeans
<1>2. \A c : Top(t, c) = TopOf(up, c)
  BY DEF Top, TopOf
<1>3. x \in C /\ peak \in Above(up, x)
  BY <1>1, <1>2, TopIsAbove
<1>4. r = IF t.of[peak] # Nothing \/ Cardinality(Risen(t, peak)) > 1 THEN peak
          ELSE CHOOSE y \in Risen(t, peak) : TRUE
  BY DEF TreeRoot
<1>5. r \in Above(up, x)
  <2>1. CASE t.of[peak] # Nothing \/ Cardinality(Risen(t, peak)) > 1
    BY <1>3, <1>4, <2>1
  <2>2. CASE t.of[peak] = Nothing /\ ~(Cardinality(Risen(t, peak)) > 1)
    <3>1. PICK y \in Risen(t, peak) : y \in Above(up, x)
      BY <2>2, OneRises
    <3>2. IsFiniteSet(Risen(t, peak))
      <4>1. Risen(t, peak) \subseteq C
        BY <1>1 DEF Risen
      <4> QED BY <1>1, <4>1, FS_Subset
    <3>3. \A z \in Risen(t, peak) : z = y
      BY <2>2, <3>2, TwoAreMoreThanOne
    <3>4. r = CHOOSE z \in Risen(t, peak) : TRUE
      BY <1>4, <2>2
    <3>5. r = y
      <4> HIDE DEF r, peak
      <4> QED BY <3>1, <3>3, <3>4
    <3> QED BY <3>1, <3>5
  <2> QED BY <2>1, <2>2
<1>6. t.of[peak] # Nothing => r = peak
  BY <1>4
<1> HIDE DEF C, up, r
<1>7. r \in C /\ TopOf(up, r) = TopOf(up, x)
  BY <1>1, <1>3, <1>5, TopIsAbove
<1>8. r \in Ids \/ r = x
  BY <1>1, <1>3, <1>5, WalksUp
<1>9. Top(t, r) = peak
  BY <1>2, <1>7
<1>10. TreeRoot(t, r) = r
  <2> HIDE DEF peak
  <2>1. TreeRoot(t, r) = IF t.of[peak] # Nothing \/ Cardinality(Risen(t, peak)) > 1 THEN peak
                         ELSE CHOOSE y \in Risen(t, peak) : TRUE
    BY <1>9 DEF TreeRoot
  <2> QED BY <1>4, <2>1
<1> QED BY <1>5, <1>6, <1>7, <1>8, <1>10 DEF r, C, up

\* resolveThreadRoots: the root of a row is the id at the root of its tree; a row whose
\* container is its own and stands alone is known by its id or its UID.
LEMMA RootOfARow ==
  ASSUME NEW heads \in Seq(Heads), NEW t, Built(t, heads), NEW n \in 1..Len(heads)
  PROVE  \/ /\ TreeRoot(t, ContainerOf(t, n)) \in Ids
            /\ RootOf(t, heads, n) = TreeRoot(t, ContainerOf(t, n))
         \/ /\ ContainerOf(t, n) = -n /\ TreeRoot(t, ContainerOf(t, n)) = -n
            /\ RootOf(t, heads, n) = IF heads[n].id # NoId THEN heads[n].id ELSE -n
<1> DEFINE x == ContainerOf(t, n)
           r == TreeRoot(t, x)
<1>1. /\ x \in Containers(Len(heads)) /\ t.of[x] = n /\ n # Nothing
      /\ (x \in Ids /\ heads[n].id = x) \/ x = -n
  BY RowHasItsContainer DEF Nothing
<1>2. r \in Containers(Len(heads)) /\ (r \in Ids \/ r = x)
  BY <1>1, RootOfATree
<1>3. r > 0 <=> r \in Ids
  BY <1>2, BuiltMeans
<1>4. RootOf(t, heads, n) = IF r > 0 THEN r ELSE IF heads[n].id # NoId THEN heads[n].id ELSE -n
  BY DEF RootOf
<1> HIDE DEF x, r
<1>5. CASE r \in Ids
  BY <1>3, <1>4, <1>5 DEF x, r
<1>6. CASE r \notin Ids
  BY <1>1, <1>2, <1>3, <1>4, <1>6 DEF x, r
<1> QED BY <1>5, <1>6

LEMMA RootsAreNames ==
  ASSUME NEW heads \in Seq(Heads)
  PROVE  /\ DOMAIN ResolveThreadRoots(heads) = 1..Len(heads)
         /\ \A n \in 1..Len(heads) :
              /\ ResolveThreadRoots(heads)[n] = RootOf(BuildThreads(heads), heads, n)
              /\ ResolveThreadRoots(heads)[n] \in Ids \cup {-n}
<1>1. DOMAIN heads = 1..Len(heads)
  OBVIOUS
<1>2. \A n \in 1..Len(heads) : ResolveThreadRoots(heads)[n] = RootOf(BuildThreads(heads), heads, n)
  BY <1>1 DEF ResolveThreadRoots
<1>3. DOMAIN ResolveThreadRoots(heads) = 1..Len(heads)
  BY <1>1 DEF ResolveThreadRoots
<1>4. ASSUME NEW n \in 1..Len(heads) PROVE RootOf(BuildThreads(heads), heads, n) \in Ids \cup {-n}
  <2>1. Built(BuildThreads(heads), heads)
    BY TreesAreBuilt
  <2>2. heads[n] \in Heads
    OBVIOUS
  <2>3. heads[n].id \in Ids \cup {NoId}
    BY <2>2 DEF Heads
  <2> QED BY <2>1, <2>3, RootOfARow
<1> QED BY <1>2, <1>3, <1>4

\* When rows have an id as their root and there are rows of that id, then one of these has
\* it as its root.
LEMMA TheRootIsAmongItsRows ==
  ASSUME NEW heads \in Seq(Heads), NEW n \in 1..Len(heads), NEW m \in 1..Len(heads),
         ResolveThreadRoots(heads)[n] = heads[m].id, heads[m].id \in Ids, NoId \notin Ids
  PROVE  \E k \in 1..Len(heads) :
           heads[k].id = heads[m].id /\ ResolveThreadRoots(heads)[k] = heads[m].id
<1> DEFINE t == BuildThreads(heads)
           C == Containers(Len(heads))
           i == heads[m].id
<1>1. Built(t, heads)
  BY TreesAreBuilt
<1>2. \A k \in 1..Len(heads) : ResolveThreadRoots(heads)[k] = RootOf(t, heads, k)
  BY RootsAreNames
<1>3. Len(heads) \in Nat /\ i \in Ids /\ i # NoId
  OBVIOUS
<1> HIDE DEF t
<1>4. /\ t.of[i] # Nothing /\ i \in C
      /\ \A c \in C : t.of[c] \in 0..Len(heads)
      /\ \A c \in C : t.of[c] # Nothing => (c \in Ids /\ heads[t.of[c]].id = c) \/ c = -t.of[c]
  <2>1. Ids \subseteq C
    BY <1>1, BuiltMeans
  <2> QED BY <1>1, <1>3, <2>1 DEF Built, RowsHeld
<1> DEFINE o == t.of[i]
<1>5. o \in 1..Len(heads) /\ heads[o].id = i
  <2>1. o \in 0..Len(heads) /\ o # 0 /\ (heads[o].id = i \/ i = -o)
    BY <1>4 DEF Nothing
  <2>2. i > 0 /\ i \in Int
    BY <1>3, IdsAssumption DEF Ids
  <2> HIDE DEF i, o
  <2>3. o \in 1..Len(heads) /\ i # -o
    BY <1>3, <2>1, <2>2
  <2> QED BY <2>1, <2>3
<1>6. ContainerOf(t, o) = i
  BY <1>1, <1>4, <1>5, RowHasItsContainer
<1>7. CASE TreeRoot(t, ContainerOf(t, n)) \in Ids /\ RootOf(t, heads, n) = TreeRoot(t, ContainerOf(t, n))
  <2>1. TreeRoot(t, ContainerOf(t, n)) = i
    BY <1>2, <1>7
  <2>2. ContainerOf(t, n) \in C /\ t.of[ContainerOf(t, n)] # Nothing
    BY <1>1, RowHasItsContainer DEF Nothing
  <2>3. TreeRoot(t, i) = i
    BY <1>1, <2>1, <2>2, RootOfATree
  <2>4. RootOf(t, heads, o) = i
    <3>1. i > 0
      BY <1>3, IdsAssumption DEF Ids
    <3> HIDE DEF i, o
    <3> QED BY <1>6, <2>3, <3>1 DEF RootOf
  <2> QED BY <1>2, <1>5, <2>4
<1>8. CASE RootOf(t, heads, n) = IF heads[n].id # NoId THEN heads[n].id ELSE -n
  <2>1. RootOf(t, heads, n) = i
    BY <1>2
  <2>2. -n # i
    BY <1>3, IdsAssumption DEF Ids
  <2>3. heads[n].id = i
    BY <1>8, <2>1, <2>2
  <2> QED BY <1>2, <2>1, <2>3
<1> QED BY <1>1, <1>7, <1>8, RootOfARow

-----------------------------------------------------------------------------
(* What mail programs write.                                               *)

Chained(f, l, c) ==
  /\ f \in [1..l -> Seq(Ids)]
  /\ \A j \in 1..l : f[j] = IF c[j] = NoId THEN <<>> ELSE Append(f[c[j]], c[j])

\* buildReplyHeaders: every message has its full chain.
LEMMA FullChains ==
  ASSUME NEW c \in Conversations
  PROVE  /\ FullChain(c) \in [Ids -> Seq(Ids)]
         /\ \A j \in Ids : FullChain(c)[j] = IF c[j] = NoId THEN <<>>
                                             ELSE Append(FullChain(c)[c[j]], c[j])
<1> DEFINE S == {l \in 0..N : \E f : Chained(f, l, c)}
           H == CHOOSE f : f = [i \in Ids |-> IF c[i] = NoId THEN <<>>
                                              ELSE Append(f[c[i]], c[i])]
<1>1. N \in Nat /\ Ids = 1..N /\ NoId \notin Ids
  BY IdsAssumption DEF Ids
<1>2. \A i \in Ids : c[i] # NoId => c[i] \in Ids /\ c[i] < i
  BY DEF Conversations
<1>3. 0 \in S
  <2> DEFINE f == [j \in 1..0 |-> <<>>]
  <2>1. 1..0 = {} /\ f \in [1..0 -> Seq(Ids)]
    OBVIOUS
  <2> HIDE DEF f
  <2>2. Chained(f, 0, c)
    BY <2>1 DEF Chained
  <2> QED BY <1>1, <2>2
<1>4. ASSUME NEW l \in 1..N, l - 1 \in S PROVE l \in S
  <2>0. PICK f : Chained(f, l - 1, c)
    BY <1>4
  <2>1. /\ f \in [1..(l - 1) -> Seq(Ids)]
        /\ \A j \in 1..(l - 1) : f[j] = IF c[j] = NoId THEN <<>> ELSE Append(f[c[j]], c[j])
    BY <2>0 DEF Chained
  <2> DEFINE e == IF c[l] = NoId THEN <<>> ELSE Append(f[c[l]], c[l])
             g == [j \in 1..l |-> IF j = l THEN e ELSE f[j]]
  <2>2. e \in Seq(Ids)
    <3>1. CASE c[l] = NoId
      BY <3>1
    <3>2. CASE c[l] # NoId
      <4>1. c[l] \in Ids /\ c[l] \in 1..(l - 1)
        BY <1>1, <1>2, <3>2
      <4>2. f[c[l]] \in Seq(Ids)
        BY <2>1, <4>1
      <4> QED BY <3>2, <4>1, <4>2
    <3> QED BY <3>1, <3>2
  <2>3. ASSUME NEW j \in 1..l
        PROVE  g[j] \in Seq(Ids) /\ g[j] = IF c[j] = NoId THEN <<>> ELSE Append(g[c[j]], c[j])
    <3>1. j \in Ids /\ (c[j] # NoId => c[j] \in 1..l /\ c[j] # l)
      BY <1>1, <1>2
    <3>2. c[j] # NoId => g[c[j]] = f[c[j]]
      BY <3>1
    <3>3. CASE j = l
      BY <2>2, <3>2, <3>3
    <3>4. CASE j # l
      <4>1. j \in 1..(l - 1) /\ g[j] = f[j]
        BY <3>4
      <4> HIDE DEF g
      <4> QED BY <2>1, <3>2, <4>1
    <3> QED BY <3>3, <3>4
  <2>4. g \in [1..l -> Seq(Ids)]
    <3> HIDE DEF e
    <3> QED BY <2>3
  <2> HIDE DEF g
  <2>5. Chained(g, l, c)
    BY <2>3, <2>4 DEF Chained
  <2> QED BY <1>1, <2>5
<1>5. N \in S
  <2> HIDE DEF S
  <2> QED BY <1>1, <1>3, <1>4, NumberByNumber
<1>6. PICK f : Chained(f, N, c)
  BY <1>5
<1>7. /\ f \in [Ids -> Seq(Ids)]
      /\ \A j \in Ids : f[j] = IF c[j] = NoId THEN <<>> ELSE Append(f[c[j]], c[j])
  BY <1>1, <1>6 DEF Chained
<1>8. f = [i \in Ids |-> IF c[i] = NoId THEN <<>> ELSE Append(f[c[i]], c[i])]
  BY <1>7
<1>9. H = [i \in Ids |-> IF c[i] = NoId THEN <<>> ELSE Append(H[c[i]], c[i])]
  BY <1>8, Zenon
<1>10. FullChain(c) = H
  BY DEF FullChain
<1> HIDE DEF H
<1> DEFINE T == {i \in Ids : H[i] \in Seq(Ids)}
<1>11. \A i \in Ids : H[i] = IF c[i] = NoId THEN <<>> ELSE Append(H[c[i]], c[i])
  BY <1>9
<1>12. ASSUME NEW i \in Ids, \A j \in Ids : j < i => j \in T PROVE i \in T
  <2>1. CASE c[i] = NoId
    <3>1. H[i] = <<>>
      BY <1>11, <2>1
    <3>2. H[i] \in Seq(Ids)
      BY <3>1
    <3> QED BY <3>2
  <2>2. CASE c[i] # NoId
    <3>1. c[i] \in Ids /\ c[i] \in T
      BY <1>2, <1>12, <2>2
    <3>2. H[i] = Append(H[c[i]], c[i])
      BY <1>11, <2>2
    <3>3. H[i] \in Seq(Ids)
      BY <3>1, <3>2
    <3> QED BY <3>3
  <2> QED BY <2>1, <2>2
<1>13. Ids \subseteq T
  <2> HIDE DEF T
  <2> QED BY <1>12, IdById
<1>14. H \in [Ids -> Seq(Ids)]
  BY <1>9, <1>13
<1> QED BY <1>10, <1>11, <1>14

\* The message that began the conversation of i.
Beginning(c, i) == IF FullChain(c)[i] = <<>> THEN i ELSE FullChain(c)[i][1]

\* A chain that goes from older messages of the conversation to the message itself, empty
\* for the one that began it.
Orderly(c, i, chain) ==
  /\ chain \in Seq(Ids)
  /\ chain = <<>> <=> Beginning(c, i) = i
  /\ \A j \in 1..Len(chain) : chain[j] < i /\ Beginning(c, chain[j]) = Beginning(c, i)
  /\ \A j, k \in 1..Len(chain) : j < k => chain[j] < chain[k]

LEMMA Beginnings ==
  ASSUME NEW c \in Conversations
  PROVE  \A i \in Ids :
           /\ Beginning(c, i) \in Ids /\ Beginning(c, i) <= i
           /\ Beginning(c, i) = i <=> c[i] = NoId
           /\ c[Beginning(c, i)] = NoId
           /\ Orderly(c, i, FullChain(c)[i])
<1> DEFINE F == FullChain(c)
           Good(i) ==
           /\ Beginning(c, i) \in Ids /\ Beginning(c, i) <= i
           /\ Beginning(c, i) = i <=> c[i] = NoId
           /\ c[Beginning(c, i)] = NoId
           /\ Orderly(c, i, F[i])
           S == {i \in Ids : Good(i)}
<1>1. NoId \notin Ids /\ \A i \in Ids : i \in Nat
  BY IdsAssumption DEF Ids
<1>2. \A i \in Ids : c[i] # NoId => c[i] \in Ids /\ c[i] < i
  BY DEF Conversations
<1>3. /\ F \in [Ids -> Seq(Ids)]
      /\ \A j \in Ids : F[j] = IF c[j] = NoId THEN <<>> ELSE Append(F[c[j]], c[j])
  BY FullChains
<1>4. \A i \in Ids : Beginning(c, i) = IF F[i] = <<>> THEN i ELSE F[i][1]
  BY DEF Beginning
<1> HIDE DEF F
<1>5. ASSUME NEW i \in Ids, \A j \in Ids : j < i => j \in S PROVE i \in S
  <2>1. CASE c[i] = NoId
    <3>1. F[i] = <<>> /\ Beginning(c, i) = i /\ Len(F[i]) = 0
      BY <1>3, <1>4, <2>1
    <3>2. Orderly(c, i, F[i])
      BY <1>3, <3>1 DEF Orderly
    <3>3. Good(i)
      BY <1>1, <2>1, <3>1, <3>2
    <3> QED BY <3>3
  <2>2. CASE c[i] # NoId
    <3> DEFINE p == c[i]
    <3>1. p \in Ids /\ p < i /\ Good(p) /\ p \in Nat /\ i \in Nat
      BY <1>1, <1>2, <1>5, <2>2
    <3>2. F[i] = Append(F[p], p) /\ F[p] \in Seq(Ids)
      BY <1>3, <2>2, <3>1
    <3> HIDE DEF p
    <3> DEFINE n == Len(F[p])
    <3>3. /\ n \in Nat /\ Len(F[i]) = n + 1 /\ F[i][n + 1] = p
          /\ \A j \in 1..n : F[i][j] = F[p][j]
          /\ F[i] # <<>> /\ F[i] \in Seq(Ids)
      BY <3>1, <3>2
    <3>4. Beginning(c, i) = Beginning(c, p)
      <4>1. CASE F[p] = <<>>
        <5>1. n = 0
          BY <4>1
        <5> QED BY <1>4, <3>1, <3>3, <4>1, <5>1
      <4>2. CASE F[p] # <<>>
        <5>1. 1 \in 1..n
          BY <3>2, <3>3, <4>2
        <5> QED BY <1>4, <3>1, <3>3, <4>2, <5>1
      <4> QED BY <4>1, <4>2
    <3>5. Beginning(c, i) \in Ids /\ Beginning(c, i) < i /\ c[Beginning(c, i)] = NoId
      <4>1. Beginning(c, p) \in Ids /\ Beginning(c, p) <= p /\ c[Beginning(c, p)] = NoId
        BY <3>1
      <4>2. Beginning(c, p) \in Nat
        BY <1>1, <4>1
      <4> QED BY <3>1, <3>4, <4>1, <4>2
    <3>6. \A j \in 1..n : F[p][j] < p /\ Beginning(c, F[p][j]) = Beginning(c, p) /\ F[p][j] \in Nat
      <4>1. \A j \in 1..n : F[p][j] \in Ids
        BY <3>2
      <4>2. Orderly(c, p, F[p])
        BY <3>1
      <4> QED BY <1>1, <4>1, <4>2 DEF Orderly
    <3>7. \A j, k \in 1..n : j < k => F[p][j] < F[p][k]
      BY <3>1 DEF Orderly
    <3>8. ASSUME NEW j \in 1..(n + 1)
          PROVE  F[i][j] < i /\ Beginning(c, F[i][j]) = Beginning(c, i)
      <4>1. CASE j = n + 1
        BY <3>1, <3>3, <3>4, <4>1
      <4>2. CASE j # n + 1
        <5>1. j \in 1..n
          BY <3>3, <4>2
        <5> QED BY <3>1, <3>3, <3>4, <3>6, <5>1
      <4> QED BY <4>1, <4>2
    <3>9. ASSUME NEW j \in 1..(n + 1), NEW k \in 1..(n + 1), j < k PROVE F[i][j] < F[i][k]
      <4>1. j \in 1..n /\ (k \in 1..n \/ k = n + 1)
        BY <3>3, <3>9
      <4> QED BY <3>3, <3>6, <3>7, <3>9, <4>1
    <3>10. Orderly(c, i, F[i])
      <4> HIDE DEF n
      <4>1. Beginning(c, i) # i
        BY <1>1, <3>5
      <4> QED BY <3>3, <3>8, <3>9, <4>1 DEF Orderly
    <3>11. Good(i)
      BY <1>1, <2>2, <3>5, <3>10
    <3> QED BY <3>11
  <2> QED BY <2>1, <2>2
<1>6. Ids \subseteq S
  <2> HIDE DEF S
  <2> QED BY <1>5, IdById
<1> QED BY <1>6 DEF F

\* The whole chain, its two ends or its end alone: all are orderly.
LEMMA HonestChainsAreOrderly ==
  ASSUME NEW c \in Conversations, NEW i \in Ids, NEW chain \in HonestChains(c, i)
  PROVE  Orderly(c, i, chain)
<1> DEFINE full == FullChain(c)[i]
           n == Len(full)
<1>1. Orderly(c, i, full)
  BY Beginnings
<1>2. chain = full \/ (~(n < 2) /\ chain \in {<<full[1], full[n]>>, <<full[n]>>})
  BY DEF HonestChains
<1>3. CASE chain = full
  BY <1>1, <1>3
<1>4. CASE ~(n < 2) /\ chain = <<full[1], full[n]>>
  <2>1. full \in Seq(Ids) /\ n \in Nat
    BY <1>1 DEF Orderly
  <2>2. 1 \in 1..n /\ n \in 1..n /\ 1 < n
    BY <1>4, <2>1
  <2>3. /\ chain \in Seq(Ids) /\ Len(chain) = 2 /\ chain[1] = full[1] /\ chain[2] = full[n]
        /\ chain # <<>> /\ full # <<>>
    BY <1>4, <2>1, <2>2
  <2>4. full[1] < full[n] /\ full[1] \in Ids /\ full[n] \in Ids
    BY <1>1, <2>1, <2>2 DEF Orderly
  <2>5. \A j \in 1..2 : j = 1 \/ j = 2
    OBVIOUS
  <2>6. \A j \in 1..Len(chain) : chain[j] < i /\ Beginning(c, chain[j]) = Beginning(c, i)
    BY <1>1, <2>2, <2>3, <2>5 DEF Orderly
  <2>7. \A j, k \in 1..Len(chain) : j < k => chain[j] < chain[k]
    BY <2>3, <2>4, <2>5
  <2>8. Beginning(c, i) # i
    BY <1>1, <2>3 DEF Orderly
  <2> HIDE DEF full, n
  <2> QED BY <2>3, <2>6, <2>7, <2>8 DEF Orderly
<1>5. CASE ~(n < 2) /\ chain = <<full[n]>>
  <2>1. full \in Seq(Ids) /\ n \in Nat
    BY <1>1 DEF Orderly
  <2>2. n \in 1..n
    BY <1>5, <2>1
  <2>3. /\ chain \in Seq(Ids) /\ Len(chain) = 1 /\ chain[1] = full[n]
        /\ chain # <<>> /\ full # <<>>
    BY <1>5, <2>1, <2>2
  <2>5. \A j \in 1..1 : j = 1
    OBVIOUS
  <2>6. \A j \in 1..Len(chain) : chain[j] < i /\ Beginning(c, chain[j]) = Beginning(c, i)
    BY <1>1, <2>2, <2>3, <2>5 DEF Orderly
  <2>7. \A j, k \in 1..Len(chain) : j < k => chain[j] < chain[k]
    BY <2>3, <2>5
  <2>8. Beginning(c, i) # i
    BY <1>1, <2>3 DEF Orderly
  <2> HIDE DEF full, n
  <2> QED BY <2>3, <2>6, <2>7, <2>8 DEF Orderly
<1> QED BY <1>2, <1>3, <1>4, <1>5

-----------------------------------------------------------------------------
(* Rows and the ids they name.                                             *)

\* A container that one of the rows S asks for.
Touched(heads, S, x) == \E r \in S : Calls(heads, r, x)

\* When S has every row that names what one of S names, then a row is of S exactly when its
\* root is its own or named by S.
LEMMA RootsStayWithTheirRows ==
  ASSUME NEW heads \in Seq(Heads), NEW S \in SUBSET (1..Len(heads)),
         \A r \in S, m \in 1..Len(heads) : Names(heads[m]) \cap Names(heads[r]) # {} => m \in S,
         NEW n \in 1..Len(heads)
  PROVE  n \in S <=> Touched(heads, S, ResolveThreadRoots(heads)[n])
<1> DEFINE t == BuildThreads(heads)
           C == Containers(Len(heads))
           up == t.up
           T(x) == Touched(heads, S, x)
<1>1. Built(t, heads)
  BY TreesAreBuilt
<1> HIDE DEF t
<1>2. Forest(C, up) /\ Ids \subseteq C /\ up \in [C -> Ids \cup {Nothing}]
  BY <1>1, BuiltMeans
<1>3. \A i \in Ids : i \in Int /\ i > 0
  BY IdsAssumption DEF Ids
<1>4. ASSUME NEW m \in 1..Len(heads), NEW x, Calls(heads, m, x) PROVE m \in S <=> T(x)
  <2>1. m \in S => T(x)
    BY <1>4 DEF Touched
  <2>2. ASSUME NEW r \in S, Calls(heads, r, x) PROVE m \in S
    <3>1. r \in 1..Len(heads)
      OBVIOUS
    <3>2. CASE x \in Ids
      <4>1. x # -m /\ x # -r
        BY <1>3, <3>1, <3>2
      <4>2. x \in Names(heads[m]) \cap Names(heads[r])
        BY <1>4, <2>2, <4>1 DEF Calls
      <4> QED BY <4>2
    <3>3. CASE x \notin Ids
      <4>1. -m = -r
        BY <1>4, <2>2, <3>3 DEF Calls
      <4>2. m = r
        BY <3>1, <4>1
      <4> QED BY <4>2
    <3> QED BY <3>2, <3>3
  <2> QED BY <2>1, <2>2 DEF Touched
<1>5. ASSUME NEW x \in C, up[x] # Nothing PROVE T(x) <=> T(up[x])
  <2>1. PICK m \in 1..Len(heads) : Calls(heads, m, x) /\ up[x] \in ToSet(heads[m].chain)
    BY <1>1, <1>5 DEF Built, LinksNamed
  <2>2. up[x] \in Ids
    BY <1>2, <1>5
  <2>3. Calls(heads, m, up[x])
    BY <2>1, <2>2 DEF Calls, Names
  <2> QED BY <1>4, <2>1, <2>3
<1> HIDE DEF C, up, T
<1> DEFINE Along == {x \in C : \A y \in Above(up, x) : T(x) <=> T(y)}
<1>6. ASSUME NEW x \in C, up[x] = Nothing \/ up[x] \in Along PROVE x \in Along
  <2>1. Above(up, x) = IF up[x] = Nothing THEN {x} ELSE {x} \cup Above(up, up[x])
    BY <1>2, AboveStep
  <2>2. up[x] # Nothing => (T(x) <=> T(up[x]))
    BY <1>5
  <2> QED BY <1>6, <2>1, <2>2
<1>7. C \subseteq Along
  <2> HIDE DEF Along
  <2> QED BY <1>2, <1>6, FromTheTop
<1> DEFINE x == ContainerOf(t, n)
           r == TreeRoot(t, x)
           k == RootOf(t, heads, n)
<1>8. ResolveThreadRoots(heads)[n] = k
  BY RootsAreNames DEF t
<1>9. /\ x \in C /\ t.of[x] # Nothing
      /\ (x \in Ids /\ heads[n].id = x) \/ x = -n
  BY <1>1, RowHasItsContainer DEF C, Nothing
<1>10. r \in Above(up, x)
  BY <1>1, <1>9, RootOfATree DEF C, up
<1>11. T(x) <=> T(r)
  BY <1>7, <1>9, <1>10
<1>12. n \in S <=> T(x)
  <2>1. Calls(heads, n, x)
    BY <1>9 DEF Calls, Names
  <2> QED BY <1>4, <2>1
<1>13. T(r) <=> T(k)
  <2>1. CASE k = r
    BY <2>1
  <2>2. CASE x = -n /\ r = -n /\ k = IF heads[n].id # NoId THEN heads[n].id ELSE -n
    <3>1. heads[n] \in Heads
      OBVIOUS
    <3>2. Calls(heads, n, r)
      BY <2>2 DEF Calls
    <3>3. Calls(heads, n, k)
      BY <2>2, <3>1 DEF Calls, Names, Heads
    <3> QED BY <1>4, <3>2, <3>3
  <2> QED BY <1>1, <2>1, <2>2, RootOfARow
<1> QED BY <1>8, <1>11, <1>12, <1>13 DEF T

-----------------------------------------------------------------------------
(* The forest of honest headers.                                           *)

\* Ids hang under older ones.
Falls(up) == \A x \in Ids : up[x] # Nothing => up[x] < x

LEMMA AboveFalls ==
  ASSUME NEW C, NEW up \in [C -> Ids \cup {Nothing}], Ids \subseteq C, Falls(up)
  PROVE  \A x \in Ids : \A y \in Above(up, x) : y \in Ids /\ y <= x
<1> DEFINE S == {x \in Ids : \A y \in Above(up, x) : y \in Ids /\ y <= x}
<1>1. \A i \in Ids : i \in Nat
  BY IdsAssumption DEF Ids
<1>2. ASSUME NEW x \in Ids, \A j \in Ids : j < x => j \in S PROVE x \in S
  <2>1. Above(up, x) = IF up[x] = Nothing THEN {x} ELSE {x} \cup Above(up, up[x])
    BY AboveStep
  <2>2. CASE up[x] = Nothing
    BY <1>1, <2>1, <2>2
  <2>3. CASE up[x] # Nothing
    <3>1. up[x] \in Ids /\ up[x] < x
      BY <2>3 DEF Falls
    <3>2. \A y \in Above(up, up[x]) : y \in Ids /\ y <= up[x]
      BY <1>2, <3>1
    <3>3. \A y \in Above(up, x) : y \in Ids /\ y <= x
      <4> SUFFICES ASSUME NEW y \in Above(up, x) PROVE y \in Ids /\ y <= x
        OBVIOUS
      <4>1. y = x \/ (y \in Ids /\ y <= up[x])
        BY <2>1, <2>3, <3>2
      <4>2. x \in Nat /\ up[x] \in Nat /\ (y \in Ids => y \in Nat)
        BY <1>1, <3>1
      <4> QED BY <3>1, <4>1, <4>2
    <3> QED BY <3>3
  <2> QED BY <2>2, <2>3
<1>3. Ids \subseteq S
  <2> HIDE DEF S
  <2> QED BY <1>2, IdById
<1> QED BY <1>3

\* The hops of a chain from older to newer hang each under the one before.
Climbs(up, self, chain) ==
  LET w == Wire(up, self, chain)
  IN /\ Falls(w.up)
     /\ w.prev = IF chain = <<>> THEN Nothing ELSE chain[Len(chain)]
     /\ \A j \in 2..Len(chain) : w.up[chain[j]] # Nothing

LEMMA WiringClimbs ==
  ASSUME NEW C, Ids \subseteq C, NEW up \in [C -> Ids \cup {Nothing}], Falls(up), NEW self,
         NEW chain \in Seq(Ids), self \notin ToSet(chain),
         \A j, k \in 1..Len(chain) : j < k => chain[j] < chain[k]
  PROVE  Climbs(up, self, chain)
<1>a. PICK hop : Hops(hop, C, up, self, chain)
  BY HopFunction
<1>1. /\ hop \in [0..Len(chain) -> HopState(C)]
      /\ hop[0] = [up |-> up, prev |-> Nothing]
      /\ \A i \in 1..Len(chain) : hop[i] = Hop(hop[i - 1], self, chain[i])
      /\ Wire(up, self, chain) = hop[Len(chain)]
  BY <1>a DEF Hops
<1> DEFINE n == Len(chain)
           Good(i) ==
             /\ Falls(hop[i].up)
             /\ hop[i].prev = IF i = 0 THEN Nothing ELSE chain[i]
             /\ \A j \in 2..i : hop[i].up[chain[j]] # Nothing
           S == {i \in 0..n : Good(i)}
<1>2. /\ n \in Nat /\ \A i \in 1..n : chain[i] \in Ids /\ chain[i] # self
      /\ \A i \in Ids : i \in Nat /\ i # Nothing
  BY IdsAssumption DEF ToSet, Ids, Nothing
<1>3. 0 \in S
  <2>1. hop[0].up = up /\ hop[0].prev = Nothing /\ 2..0 = {}
    BY <1>1
  <2>2. Good(0)
    BY <2>1
  <2> QED BY <1>2, <2>2
<1>4. ASSUME NEW i \in 1..n, i - 1 \in S PROVE i \in S
  <2> DEFINE w == hop[i - 1]
             id == chain[i]
  <2>1. /\ i - 1 \in 0..n /\ i \in 0..n /\ w \in HopState(C) /\ hop[i] = Hop(w, self, id)
        /\ id \in Ids /\ id # self /\ id \in C
    BY <1>1, <1>2
  <2>2. /\ Falls(w.up)
        /\ w.prev = IF i - 1 = 0 THEN Nothing ELSE chain[i - 1]
        /\ \A j \in 2..(i - 1) : w.up[chain[j]] # Nothing
    BY <1>4
  <2>3. w.up \in [C -> Ids \cup {Nothing}]
    BY <2>1 DEF HopState
  <2>4. /\ w.prev = Nothing <=> i = 1
        /\ i # 1 => w.prev \in Ids /\ w.prev < id
    <3>1. CASE i = 1
      BY <2>2, <3>1
    <3>2. CASE i # 1
      <4>1. i - 1 \in 1..n /\ i - 1 < i
        BY <1>2, <3>2
      <4>2. chain[i - 1] \in Ids /\ chain[i - 1] < chain[i] /\ chain[i - 1] # Nothing
        BY <1>2, <4>1
      <4>3. w.prev = chain[i - 1]
        BY <2>2, <4>1
      <4> QED BY <3>2, <4>2, <4>3
    <3> QED BY <3>1, <3>2
  <2> HIDE DEF w, id
  <2>5. hop[i].prev = id
    BY <2>1 DEF Hop
  <2>6. i # 1 => MayHang(w.up, id, w.prev)
    <3> SUFFICES ASSUME i # 1 PROVE MayHang(w.up, id, w.prev)
      OBVIOUS
    <3>1. \A y \in Above(w.up, w.prev) : y \in Ids /\ y <= w.prev
      BY <2>2, <2>3, <2>4, AboveFalls
    <3>2. id \notin Above(w.up, w.prev)
      <4>1. id \in Nat /\ w.prev \in Nat /\ w.prev < id
        BY <1>2, <2>1, <2>4
      <4> QED BY <3>1, <4>1
    <3> QED BY <2>4, <3>2 DEF MayHang
  <2>7. CASE i # 1 /\ w.up[id] = Nothing
    <3>1. hop[i].up = [w.up EXCEPT ![id] = w.prev]
      BY <2>1, <2>6, <2>7 DEF Hop
    <3>2. \A x \in C : hop[i].up[x] = IF x = id THEN w.prev ELSE w.up[x]
      BY <2>3, <3>1
    <3>3. Falls(hop[i].up)
      BY <2>2, <2>4, <2>7, <3>2 DEF Falls
    <3>4. ASSUME NEW j \in 2..i PROVE hop[i].up[chain[j]] # Nothing
      <4>1. j \in 1..n
        BY <1>2
      <4>2. chain[j] \in C
        BY <1>2, <4>1
      <4>3. CASE chain[j] = id
        BY <2>4, <2>7, <3>2, <4>2, <4>3
      <4>4. CASE chain[j] # id
        <5>1. j \in 2..(i - 1)
          BY <4>4 DEF id
        <5> QED BY <2>2, <3>2, <4>2, <4>4, <5>1
      <4> QED BY <4>3, <4>4
    <3>5. i # 0
      OBVIOUS
    <3>6. Good(i)
      BY <2>5, <3>3, <3>4, <3>5 DEF id
    <3> QED BY <2>1, <3>6
  <2>8. CASE i = 1 \/ w.up[id] # Nothing
    <3>1. hop[i].up = w.up
      BY <2>1, <2>4, <2>8 DEF Hop, MayHang
    <3>2. ASSUME NEW j \in 2..i PROVE hop[i].up[chain[j]] # Nothing
      <4>1. CASE j = i
        BY <2>8, <3>1, <4>1 DEF id
      <4>2. CASE j # i
        <5>1. j \in 2..(i - 1)
          BY <4>2
        <5> QED BY <2>2, <3>1, <5>1
      <4> QED BY <4>1, <4>2
    <3>5. i # 0
      OBVIOUS
    <3>6. Good(i)
      BY <2>2, <2>5, <3>1, <3>2, <3>5 DEF id
    <3> QED BY <2>1, <3>6
  <2> QED BY <2>7, <2>8
<1> HIDE DEF S
<1>5. \A i \in 0..n : i \in S
  BY <1>2, <1>3, <1>4, NumberByNumber
<1>6. Good(n)
  BY <1>2, <1>5 DEF S
<1>7. chain = <<>> <=> n = 0
  OBVIOUS
<1> QED BY <1>1, <1>6, <1>7 DEF Climbs

HonestRows(c, heads) ==
  \A n \in 1..Len(heads) : heads[n].id \in Ids /\ Orderly(c, heads[n].id, heads[n].chain)

\* Of the first n rows, what is not the first of its chain hangs from something.
Grown(t, heads, n) ==
  /\ Falls(t.up)
  /\ \A m \in 1..n :
       /\ \A j \in 2..Len(heads[m].chain) : t.up[heads[m].chain[j]] # Nothing
       /\ heads[m].chain # <<>> =>
            /\ t.up[heads[m].id] # Nothing
            /\ \A x \in Containers(Len(heads)) : t.of[x] = m => t.up[x] # Nothing

LEMMA PlacingGrows ==
  ASSUME NEW c, NEW heads \in Seq(Heads), HonestRows(c, heads), NEW n \in 1..Len(heads),
         NEW t \in TreeState(Containers(Len(heads))), Forest(Containers(Len(heads)), t.up),
         RowsHeld(t, heads, n - 1), Grown(t, heads, n - 1)
  PROVE  Grown(Place(t, heads[n], n), heads, n)
<1> DEFINE C == Containers(Len(heads))
           chain == heads[n].chain
           id == heads[n].id
           self == SelfOf(t, heads[n], n)
           w == Wire(t.up, self, chain)
           u == Place(t, heads[n], n)
<1>1. Len(heads) \in Nat /\ heads[n] \in Heads /\ n \in Nat
  OBVIOUS
<1>2. /\ -n \in C /\ Ids \subseteq C
      /\ \A i \in Ids : i \in Nat /\ i > 0 /\ i # Nothing
  BY <1>1, IdsAssumption DEF Containers, Ids, Nothing
<1>3. t \in TreeState(C) /\ Forest(C, t.up)
  OBVIOUS
<1>4. /\ id \in Ids /\ chain \in Seq(Ids)
      /\ chain = <<>> <=> Beginning(c, id) = id
      /\ \A j \in 1..Len(chain) : chain[j] < id
      /\ \A j, k \in 1..Len(chain) : j < k => chain[j] < chain[k]
  BY DEF HonestRows, Orderly
<1>5. /\ t.of[self] = Nothing /\ (self = id \/ self = -n)
      /\ self = id \/ t.of[id] # Nothing
  <2>1. id # NoId
    BY <1>4, IdsAssumption DEF Ids
  <2> QED BY <2>1, SelfIsFree
<1>6. Falls(t.up)
  BY DEF Grown
<1> HIDE DEF C
<1>7. t.up \in [C -> Ids \cup {Nothing}] /\ t.of \in [C -> Nat]
  BY <1>3 DEF TreeState
<1>8. RowPlaced(C, t, heads[n], n, u)
  BY <1>1, <1>2, <1>3, PlacingARow
<1>9. /\ self \in C /\ u.of = [t.of EXCEPT ![self] = n]
      /\ \A x \in C : u.up[x] = t.up[x] \/ u.up[x] \in ToSet(chain)
  BY <1>8 DEF RowPlaced
<1>10. u.up = IF MayHang(w.up, self, w.prev) THEN [w.up EXCEPT ![self] = w.prev] ELSE w.up
  BY DEF Place
<1> HIDE DEF chain, id, self, u
<1>11. \A j \in 1..Len(chain) : chain[j] \in Ids /\ chain[j] # self
  <2> SUFFICES ASSUME NEW j \in 1..Len(chain) PROVE chain[j] \in Ids /\ chain[j] # self
    OBVIOUS
  <2>1. chain[j] \in Ids /\ chain[j] < id
    BY <1>4
  <2>2. chain[j] > 0 /\ chain[j] \in Nat /\ id \in Nat
    BY <1>2, <1>4, <2>1
  <2> QED BY <1>1, <1>5, <2>1, <2>2
<1>12. self \notin ToSet(chain) /\ ToSet(chain) \subseteq Ids
  BY <1>4, <1>11 DEF ToSet
<1>13. /\ Falls(w.up)
       /\ w.prev = IF chain = <<>> THEN Nothing ELSE chain[Len(chain)]
       /\ \A j \in 2..Len(chain) : w.up[chain[j]] # Nothing
  <2>1. Ids \subseteq C /\ t.up \in [C -> Ids \cup {Nothing}] /\ Falls(t.up)
    BY <1>2, <1>6, <1>7
  <2>2. /\ chain \in Seq(Ids) /\ self \notin ToSet(chain)
        /\ \A j, k \in 1..Len(chain) : j < k => chain[j] < chain[k]
    BY <1>4, <1>12
  <2>3. Climbs(t.up, self, chain)
    BY <2>1, <2>2, WiringClimbs
  <2> QED BY <2>3 DEF Climbs, w
<1>14. w.up \in [C -> Ids \cup {Nothing}]
  <2>1. PICK hop : Hops(hop, C, t.up, self, chain)
    BY <1>2, <1>4, <1>7, HopFunction
  <2> QED BY <1>4, <2>1 DEF Hops, HopState
<1> HIDE DEF w
<1>15. chain # <<>> => /\ w.prev \in Ids /\ w.prev < id /\ w.prev # Nothing
                       /\ MayHang(w.up, self, w.prev)
  <2> SUFFICES ASSUME chain # <<>>
               PROVE  /\ w.prev \in Ids /\ w.prev < id /\ w.prev # Nothing
                      /\ MayHang(w.up, self, w.prev)
    OBVIOUS
  <2>1. Len(chain) \in 1..Len(chain)
    BY <1>4
  <2>2. w.prev \in Ids /\ w.prev < id /\ w.prev # Nothing
    BY <1>2, <1>4, <1>11, <1>13, <2>1
  <2>3. \A y \in Above(w.up, w.prev) : y \in Ids /\ y <= w.prev
    BY <1>2, <1>13, <1>14, <2>2, AboveFalls
  <2>4. self \notin Above(w.up, w.prev)
    <3>1. id \in Nat /\ w.prev \in Nat /\ -n \notin Ids
      BY <1>1, <1>2, <1>4, <2>2
    <3> QED BY <1>5, <2>2, <2>3, <3>1
  <2> QED BY <2>2, <2>4 DEF MayHang
<1>16. Falls(u.up)
  <2>1. CASE chain = <<>>
    <3>1. u.up = w.up
      BY <1>10, <1>13, <2>1 DEF MayHang
    <3> QED BY <1>13, <3>1
  <2>2. CASE chain # <<>>
    <3>1. u.up = [w.up EXCEPT ![self] = w.prev]
      BY <1>10, <1>15, <2>2
    <3>2. \A x \in C : u.up[x] = IF x = self THEN w.prev ELSE w.up[x]
      BY <1>14, <3>1
    <3>3. self \in Ids => self = id
      BY <1>1, <1>2, <1>5
    <3> QED BY <1>2, <1>13, <1>15, <2>2, <3>2, <3>3 DEF Falls
  <2> QED BY <2>1, <2>2
<1>17. \A x \in C : t.up[x] # Nothing \/ w.up[x] # Nothing => u.up[x] # Nothing
  <2> SUFFICES ASSUME NEW x \in C, t.up[x] # Nothing \/ w.up[x] # Nothing
               PROVE  u.up[x] # Nothing
    OBVIOUS
  <2>1. \A i \in ToSet(chain) : i # Nothing
    BY <1>2, <1>12
  <2>2. CASE t.up[x] # Nothing
    BY <1>9, <2>1, <2>2
  <2>3. CASE w.up[x] # Nothing
    <3>1. CASE MayHang(w.up, self, w.prev)
      BY <1>10, <1>14, <2>3, <3>1 DEF MayHang
    <3>2. CASE ~MayHang(w.up, self, w.prev)
      BY <1>10, <2>3, <3>2
    <3> QED BY <3>1, <3>2
  <2> QED BY <2>2, <2>3
<1>18. \A x \in C : u.of[x] = IF x = self THEN n ELSE t.of[x]
  BY <1>7, <1>9
<1>19. /\ \A x \in C : t.of[x] \in 0..(n - 1)
       /\ \A x \in C : t.of[x] # Nothing =>
            (x \in Ids /\ heads[t.of[x]].id = x) \/ x = -t.of[x]
  BY DEF RowsHeld, C
<1>20. ASSUME NEW m \in 1..(n - 1)
       PROVE  /\ \A j \in 2..Len(heads[m].chain) : t.up[heads[m].chain[j]] # Nothing
              /\ heads[m].chain # <<>> =>
                   /\ t.up[heads[m].id] # Nothing
                   /\ \A x \in C : t.of[x] = m => t.up[x] # Nothing
  BY DEF Grown, C
<1>21. ASSUME NEW m \in 1..n, m # n
       PROVE  /\ \A j \in 2..Len(heads[m].chain) : u.up[heads[m].chain[j]] # Nothing
              /\ heads[m].chain # <<>> =>
                   /\ u.up[heads[m].id] # Nothing
                   /\ \A x \in C : u.of[x] = m => u.up[x] # Nothing
  <2>1. m \in 1..(n - 1) /\ m \in 1..Len(heads)
    BY <1>1, <1>21
  <2>2. heads[m].id \in C /\ \A j \in 2..Len(heads[m].chain) : heads[m].chain[j] \in C
    <3>1. heads[m].id \in Ids /\ heads[m].chain \in Seq(Ids)
      BY <2>1 DEF HonestRows, Orderly
    <3> QED BY <1>2, <3>1
  <2>3. \A x \in C : u.of[x] = m => t.of[x] = m
    BY <1>18, <1>21
  <2> QED BY <1>17, <1>20, <2>1, <2>2, <2>3
<1>22. \A j \in 2..Len(chain) : u.up[chain[j]] # Nothing
  <2>1. \A j \in 2..Len(chain) : chain[j] \in C
    BY <1>2, <1>11
  <2> QED BY <1>13, <1>17, <2>1
<1>23. ASSUME chain # <<>>
       PROVE  u.up[id] # Nothing /\ \A x \in C : u.of[x] = n => u.up[x] # Nothing
  <2>1. u.up[self] # Nothing
    BY <1>9, <1>10, <1>14, <1>15, <1>23
  <2>2. \A x \in C : u.of[x] = n => x = self
    BY <1>1, <1>18, <1>19
  <2>3. u.up[id] # Nothing
    <3>1. CASE self = id
      BY <2>1, <3>1
    <3>2. CASE t.of[id] # Nothing
      <4> DEFINE m == t.of[id]
      <4>1. id \in C /\ id # -m
        BY <1>2, <1>4, <1>19
      <4>2. m \in 1..(n - 1) /\ heads[m].id = id
        BY <1>1, <1>19, <3>2, <4>1 DEF Nothing
      <4>3. m \in 1..Len(heads)
        BY <1>1, <4>2
      <4>4. heads[m].chain # <<>>
        BY <1>4, <1>23, <4>2, <4>3 DEF HonestRows, Orderly
      <4>5. t.up[id] # Nothing
        BY <1>20, <4>2, <4>4
      <4> QED BY <1>17, <4>1, <4>5
    <3> QED BY <1>5, <3>1, <3>2
  <2> QED BY <2>1, <2>2, <2>3
<1> QED BY <1>16, <1>21, <1>22, <1>23 DEF Grown, C, u, chain, id

LEMMA HonestTreesGrow ==
  ASSUME NEW c, NEW heads \in Seq(Heads), HonestRows(c, heads)
  PROVE  Grown(BuildThreads(heads), heads, Len(heads))
<1> DEFINE C == Containers(Len(heads))
           L == Len(heads)
<1>1. L \in Nat /\ \A n \in 1..L : heads[n] \in Heads
  OBVIOUS
<1>2. PICK placed : Placed(placed, heads)
  BY PlaceFunction
<1>3. /\ placed \in [0..L -> TreeState(C)]
      /\ placed[0] = Bare(C)
      /\ \A n \in 1..L : placed[n] = Place(placed[n - 1], heads[n], n)
      /\ BuildThreads(heads) = placed[L]
  BY <1>2 DEF Placed
<1> DEFINE Good(n) == /\ Forest(C, placed[n].up) /\ RowsHeld(placed[n], heads, n)
                      /\ LinksNamed(placed[n], heads, n) /\ Grown(placed[n], heads, n)
           S == {n \in 0..L : Good(n)}
<1>4. Good(0)
  <2>1. Forest(C, placed[0].up) /\ RowsHeld(placed[0], heads, 0) /\ LinksNamed(placed[0], heads, 0)
    BY <1>3, NothingIsPlaced
  <2>2. Falls(placed[0].up)
    <3>1. \A x \in C : placed[0].up[x] = Nothing
      BY <1>3 DEF Bare
    <3>2. Ids \subseteq C
      BY DEF Containers
    <3> QED BY <3>1, <3>2 DEF Falls
  <2>3. 1..0 = {}
    OBVIOUS
  <2>4. Grown(placed[0], heads, 0)
    BY <2>2, <2>3 DEF Grown
  <2> QED BY <2>1, <2>4
<1>5. ASSUME NEW n \in 1..L, Good(n - 1) PROVE Good(n)
  <2>1. placed[n - 1] \in TreeState(C) /\ placed[n] = Place(placed[n - 1], heads[n], n)
    BY <1>1, <1>3
  <2>2. Grown(placed[n], heads, n)
    BY <1>5, <2>1, PlacingGrows
  <2>3. RowsHeld(placed[n], heads, n) /\ LinksNamed(placed[n], heads, n)
    BY <1>5, <2>1, PlacingHolds
  <2>4. Forest(C, placed[n].up)
    <3>1. Forest(C, placed[n - 1].up) /\ -n \in C /\ heads[n] \in Heads /\ n \in Nat
      BY <1>1, <1>5 DEF Containers
    <3> HIDE DEF C
    <3>2. RowPlaced(C, placed[n - 1], heads[n], n, placed[n])
      BY <2>1, <3>1, PlacingARow
    <3> QED BY <3>2 DEF RowPlaced
  <2> QED BY <2>2, <2>3, <2>4
<1> HIDE DEF Good
<1>6. \A n \in 0..L : n \in S
  <2>1. 0 \in S
    BY <1>1, <1>4
  <2>2. \A n \in 1..L : n - 1 \in S => n \in S
    BY <1>1, <1>5
  <2> HIDE DEF S, L
  <2> QED BY <1>1, <2>1, <2>2, NumberByNumber
<1>7. Good(L)
  BY <1>1, <1>6
<1> QED BY <1>3, <1>7 DEF Good

\* Whatever honest headers name is of one conversation.
LEMMA HonestNames ==
  ASSUME NEW c, NEW heads \in Seq(Heads), HonestRows(c, heads), NEW n \in 1..Len(heads)
  PROVE  /\ Names(heads[n]) \subseteq Ids /\ heads[n].id \in Names(heads[n])
         /\ ToSet(heads[n].chain) \subseteq Names(heads[n])
         /\ \A x \in Names(heads[n]) : Beginning(c, x) = Beginning(c, heads[n].id)
<1>1. /\ heads[n].id \in Ids /\ heads[n].chain \in Seq(Ids)
      /\ \A j \in 1..Len(heads[n].chain) :
           Beginning(c, heads[n].chain[j]) = Beginning(c, heads[n].id)
  BY DEF HonestRows, Orderly
<1>2. \A x \in ToSet(heads[n].chain) : x \in Ids /\ Beginning(c, x) = Beginning(c, heads[n].id)
  BY <1>1 DEF ToSet
<1> QED BY <1>1, <1>2 DEF Names

\* A row's root is of the conversation of the row.
LEMMA RootsKeepTheBeginning ==
  ASSUME NEW c, NEW heads \in Seq(Heads), HonestRows(c, heads), NEW n \in 1..Len(heads),
         ResolveThreadRoots(heads)[n] \in Ids
  PROVE  Beginning(c, ResolveThreadRoots(heads)[n]) = Beginning(c, heads[n].id)
<1> DEFINE S == {m \in 1..Len(heads) : Beginning(c, heads[m].id) = Beginning(c, heads[n].id)}
           k == ResolveThreadRoots(heads)[n]
<1>1. ASSUME NEW r \in S, NEW m \in 1..Len(heads), Names(heads[m]) \cap Names(heads[r]) # {}
      PROVE  m \in S
  <2>1. PICK x : x \in Names(heads[m]) /\ x \in Names(heads[r])
    BY <1>1
  <2>2. /\ Beginning(c, x) = Beginning(c, heads[m].id)
        /\ Beginning(c, x) = Beginning(c, heads[r].id)
    BY <2>1, HonestNames
  <2> QED BY <2>2
<1>2. Touched(heads, S, k)
  <2>1. S \in SUBSET (1..Len(heads)) /\ n \in S
    OBVIOUS
  <2> HIDE DEF S
  <2> QED BY <1>1, <2>1, RootsStayWithTheirRows
<1>3. PICK r \in S : Calls(heads, r, k)
  BY <1>2 DEF Touched
<1>4. k # -r
  BY IdsAssumption DEF Ids
<1>5. k \in Names(heads[r])
  BY <1>3, <1>4 DEF Calls
<1>6. Beginning(c, k) = Beginning(c, heads[r].id)
  BY <1>5, HonestNames
<1> QED BY <1>6

CompleteRows(c, heads) ==
  \A n \in 1..Len(heads) : heads[n].chain = <<>> \/ c[heads[n].chain[1]] = NoId

\* With complete headers a row hangs, however far, from the message that began its
\* conversation, or is a copy of that message and known by its id.
LEMMA CompleteRowsHangTogether ==
  ASSUME NEW c \in Conversations, NEW heads \in Seq(Heads), HonestRows(c, heads),
         CompleteRows(c, heads), NEW n \in 1..Len(heads)
  PROVE  LET t == BuildThreads(heads)
             l == Beginning(c, heads[n].id)
         IN  \/ Top(t, ContainerOf(t, n)) = l
             \/ heads[n].id = l /\ ResolveThreadRoots(heads)[n] = l
<1> DEFINE t == BuildThreads(heads)
           C == Containers(Len(heads))
           up == t.up
<1>1. Built(t, heads) /\ Grown(t, heads, Len(heads))
  BY TreesAreBuilt, HonestTreesGrow
<1>2. ResolveThreadRoots(heads)[n] = RootOf(t, heads, n)
  BY RootsAreNames
<1> HIDE DEF t
<1>3. Forest(C, up) /\ Ids \subseteq C /\ up \in [C -> Ids \cup {Nothing}]
  BY <1>1, BuiltMeans
<1>4. \A x : Top(t, x) = TopOf(up, x)
  BY DEF Top, TopOf
<1> DEFINE Named(x) == \E m \in 1..Len(heads) : x \in Names(heads[m])
<1>5. ASSUME NEW m \in 1..Len(heads), NEW x \in Names(heads[m]), up[x] = Nothing
      PROVE  x = Beginning(c, x)
  <2>1. /\ \A j \in 2..Len(heads[m].chain) : up[heads[m].chain[j]] # Nothing
        /\ heads[m].chain # <<>> => up[heads[m].id] # Nothing
    BY <1>1 DEF Grown
  <2>2. Orderly(c, heads[m].id, heads[m].chain)
    BY DEF HonestRows
  <2>3. CASE x = heads[m].id
    BY <1>5, <2>1, <2>2, <2>3 DEF Orderly
  <2>4. CASE x \in ToSet(heads[m].chain)
    <3>1. heads[m].chain \in Seq(Ids)
      BY <2>2 DEF Orderly
    <3>2. PICK j \in 1..Len(heads[m].chain) : x = heads[m].chain[j]
      BY <2>4, <3>1 DEF ToSet
    <3>3. j = 1
      BY <1>5, <2>1, <3>1, <3>2
    <3>4. c[x] = NoId /\ x \in Ids
      BY <3>1, <3>2, <3>3 DEF CompleteRows
    <3> QED BY <3>4, Beginnings
  <2> QED BY <2>3, <2>4 DEF Names
<1>6. ASSUME NEW x \in C, up[x] # Nothing
      PROVE  \E m \in 1..Len(heads) :
               /\ Calls(heads, m, x) /\ up[x] \in Names(heads[m]) /\ up[x] \in ToSet(heads[m].chain)
               /\ Beginning(c, up[x]) = Beginning(c, heads[m].id)
  <2>1. PICK m \in 1..Len(heads) : Calls(heads, m, x) /\ up[x] \in ToSet(heads[m].chain)
    BY <1>1, <1>6 DEF Built, LinksNamed
  <2> QED BY <2>1, HonestNames
<1>7. \A i \in Ids : i \in Nat /\ i > 0
  BY IdsAssumption DEF Ids
<1> HIDE DEF C, up
<1> DEFINE S == {x \in C : Named(x) => TopOf(up, x) = Beginning(c, x)}
<1>8. ASSUME NEW x \in C, up[x] = Nothing \/ up[x] \in S PROVE x \in S
  <2> SUFFICES ASSUME Named(x) PROVE TopOf(up, x) = Beginning(c, x)
    OBVIOUS
  <2>1. CASE up[x] = Nothing
    <3>1. TopOf(up, x) = x
      BY <1>3, <2>1, TopStep
    <3> QED BY <1>5, <2>1, <3>1
  <2>2. CASE up[x] # Nothing
    <3>1. PICK m \in 1..Len(heads) :
               /\ Calls(heads, m, x) /\ up[x] \in Names(heads[m])
               /\ Beginning(c, up[x]) = Beginning(c, heads[m].id)
      BY <1>6, <2>2
    <3>2. TopOf(up, x) = TopOf(up, up[x])
      BY <1>3, <2>2, TopStep
    <3>3. TopOf(up, up[x]) = Beginning(c, up[x])
      BY <1>8, <2>2, <3>1
    <3>4. x \in Ids
      BY HonestNames
    <3>5. x # -m
      BY <1>7, <3>4
    <3>6. Beginning(c, x) = Beginning(c, heads[m].id)
      BY <3>1, <3>5, HonestNames DEF Calls
    <3> QED BY <3>1, <3>2, <3>3, <3>6
  <2> QED BY <2>1, <2>2
<1>9. C \subseteq S
  <2> HIDE DEF S
  <2> QED BY <1>3, <1>8, FromTheTop
<1> DEFINE x == ContainerOf(t, n)
           id == heads[n].id
<1>10. /\ x \in C /\ t.of[x] = n /\ n # Nothing
       /\ (x \in Ids /\ id = x) \/ x = -n
  BY <1>1, RowHasItsContainer DEF C, Nothing
<1>11. id \in Ids /\ id \in Names(heads[n])
  BY HonestNames DEF HonestRows
<1>12. CASE x = id
  <2>1. Named(x) /\ x \in S
    BY <1>9, <1>10, <1>11, <1>12
  <2>2. TopOf(up, x) = Beginning(c, x)
    BY <2>1
  <2> QED BY <1>4, <1>12, <2>2 DEF t
<1>13. CASE x = -n /\ up[x] # Nothing
  <2>1. PICK m \in 1..Len(heads) :
               /\ Calls(heads, m, x) /\ up[x] \in Names(heads[m])
               /\ Beginning(c, up[x]) = Beginning(c, heads[m].id)
    BY <1>6, <1>10, <1>13
  <2>2. x \notin Ids
    BY <1>7, <1>13
  <2>3. m = n
    BY <1>13, <2>1, <2>2 DEF Calls
  <2>4. up[x] \in C /\ TopOf(up, x) = TopOf(up, up[x])
    BY <1>3, <1>10, <1>13, TopStep
  <2>5. Named(up[x]) /\ up[x] \in S
    BY <1>9, <2>1, <2>4
  <2>6. TopOf(up, up[x]) = Beginning(c, up[x])
    BY <2>5
  <2> QED BY <1>4, <2>1, <2>3, <2>4, <2>6 DEF t
<1>14. CASE x = -n /\ up[x] = Nothing
  <2>1. Top(t, x) = x
    BY <1>3, <1>4, <1>10, <1>14, TopStep
  <2>2. TreeRoot(t, x) = x
    BY <1>1, <1>10, <2>1, RootOfATree DEF C
  <2>3. x \notin Ids
    BY <1>7, <1>14
  <2>4. RootOf(t, heads, n) = id
    <3>1. id # NoId
      BY <1>11, IdsAssumption DEF Ids
    <3> QED BY <1>1, <2>2, <2>3, <3>1, RootOfARow
  <2>5. heads[n].chain = <<>>
    BY <1>1, <1>10, <1>14 DEF Grown, C, up
  <2>6. Beginning(c, id) = id
    BY <2>5 DEF HonestRows, Orderly
  <2> QED BY <1>2, <2>4, <2>6
<1> QED BY <1>10, <1>12, <1>13, <1>14

\* ... so rows of one conversation have one root, the message that began it when it is there.
LEMMA OneConversationOneRoot ==
  ASSUME NEW c \in Conversations, NEW heads \in Seq(Heads), HonestRows(c, heads),
         CompleteRows(c, heads), NEW m \in 1..Len(heads), NEW n \in 1..Len(heads),
         Beginning(c, heads[m].id) = Beginning(c, heads[n].id)
  PROVE  /\ ResolveThreadRoots(heads)[m] = ResolveThreadRoots(heads)[n]
         /\ \A k \in 1..Len(heads) :
              heads[k].id = Beginning(c, heads[n].id) =>
                ResolveThreadRoots(heads)[n] = Beginning(c, heads[n].id)
<1> DEFINE t == BuildThreads(heads)
           l == Beginning(c, heads[n].id)
           roots == ResolveThreadRoots(heads)
<1>1. Built(t, heads)
  BY TreesAreBuilt
<1>2. \A k \in 1..Len(heads) : roots[k] = RootOf(t, heads, k)
  BY RootsAreNames
<1>3. \A k \in {m, n} : Top(t, ContainerOf(t, k)) = l \/ (heads[k].id = l /\ roots[k] = l)
  BY CompleteRowsHangTogether
<1> HIDE DEF t
<1>4. l \in Ids
  BY Beginnings DEF HonestRows
<1>5. \A i \in Ids : i \in Nat /\ i > 0 /\ i # NoId
  BY IdsAssumption DEF Ids
<1>6. \A k \in 1..Len(heads) :
         /\ ContainerOf(t, k) \in Containers(Len(heads))
         /\ t.of[ContainerOf(t, k)] = k /\ k # Nothing
  BY <1>1, RowHasItsContainer DEF Nothing
<1>7. ASSUME t.of[l] # Nothing, NEW k \in {m, n} PROVE roots[k] = l
  <2>1. CASE Top(t, ContainerOf(t, k)) = l
    <3>1. TreeRoot(t, ContainerOf(t, k)) = l
      BY <1>1, <1>6, <1>7, <2>1, RootOfATree
    <3>2. RootOf(t, heads, k) = l
      BY <1>1, <1>4, <1>5, <3>1, RootOfARow
    <3> QED BY <1>2, <3>2
  <2> QED BY <1>3, <2>1
<1>8. ASSUME NEW k \in 1..Len(heads), heads[k].id = l PROVE t.of[l] # Nothing
  BY <1>1, <1>4, <1>5, <1>8 DEF Built, RowsHeld
<1>9. CASE t.of[l] # Nothing
  BY <1>7, <1>9
<1>10. CASE t.of[l] = Nothing
  <2>1. \A k \in {m, n} : Top(t, ContainerOf(t, k)) = l
    BY <1>3, <1>8, <1>10
  <2>2. TreeRoot(t, ContainerOf(t, m)) = TreeRoot(t, ContainerOf(t, n))
    BY <2>1 DEF TreeRoot
  <2>3. roots[m] = roots[n]
    <3>1. -m \notin Ids /\ -n \notin Ids /\ (-m = -n => m = n)
      BY <1>5
    <3> QED BY <1>1, <1>2, <2>2, <3>1, RootOfARow
  <2> QED BY <1>8, <1>10, <2>3
<1> QED BY <1>9, <1>10

-----------------------------------------------------------------------------
(* The cached rows and the threads they are filed under.                   *)

CachedRows == SubSeq(mail, 1, Len(root))

Delivered ==
  /\ answers \in Conversations \cup {Wild}
  /\ mail \in Seq(Heads)
  /\ polled \in BOOLEAN
  /\ \A n \in 1..Len(mail) :
       IF answers = Wild THEN mail[n] \in Header
       ELSE mail[n].id \in Ids /\ mail[n].chain \in HonestChains(answers, mail[n].id)

\* The cache holds the first rows of the folder, each with the root that all of them give it.
Rooted ==
  /\ root \in Seq(Int) /\ Len(root) <= Len(mail)
  /\ root = ResolveThreadRoots(CachedRows)
  /\ ~polled => Len(root) = 0

\* A thread knows the last of the rows filed under it; rows of the backlog that was never
\* handed on come before those that were.
FiledUnderThreads ==
  /\ DOMAIN filed = Rows
  /\ \A n \in Rows : filed[n] # Unfiled => filed[n] \in DOMAIN thread /\ n <= thread[filed[n]]
  /\ \A k \in DOMAIN thread : k # Unfiled /\ thread[k] \in Rows /\ filed[thread[k]] = k
  /\ \A m, n \in Rows : filed[m] = Unfiled /\ filed[n] # Unfiled => m < n

Threaded == Delivered /\ Rooted /\ FiledUnderThreads

LEMMA HeadersAreHeads == Header \subseteq Heads
<1>1. Chains \subseteq Seq(Ids)
  <2> SUFFICES ASSUME NEW k \in 0..MaxHops, NEW f \in [1..k -> Ids] PROVE f \in Seq(Ids)
    BY DEF Chains
  <2> QED BY IdsAssumption
<1> QED BY <1>1 DEF Header, Heads

LEMMA FirstRowsStay ==
  ASSUME NEW s \in Seq(Heads), NEW h \in Heads, NEW l \in 0..Len(s)
  PROVE  SubSeq(Append(s, h), 1, l) = SubSeq(s, 1, l)
<1>1. /\ Append(s, h) \in Seq(Heads) /\ Len(Append(s, h)) = Len(s) + 1
      /\ \A i \in 1..Len(s) : Append(s, h)[i] = s[i]
  BY AppendProperties
<1>2. SubSeq(s, 1, l) = [i \in 1..l |-> s[i]]
  OBVIOUS
<1>3. SubSeq(Append(s, h), 1, l) = [i \in 1..l |-> Append(s, h)[i]]
  BY <1>1
<1>4. \A i \in 1..l : Append(s, h)[i] = s[i]
  BY <1>1
<1> QED BY <1>2, <1>3, <1>4

LEMMA AllRows ==
  ASSUME NEW s \in Seq(Heads)
  PROVE  SubSeq(s, 1, Len(s)) = s
OBVIOUS

\* What the cached rows are.
LEMMA RowsOfTheCache ==
  Delivered /\ Rooted =>
    /\ CachedRows \in Seq(Heads) /\ Len(CachedRows) = Len(root)
    /\ Rows = 1..Len(root) /\ Rows \subseteq 1..Len(mail) /\ Len(root) \in Nat
    /\ \A n \in Rows : CachedRows[n] = mail[n]
<1> SUFFICES ASSUME Delivered, Rooted
             PROVE  /\ CachedRows \in Seq(Heads) /\ Len(CachedRows) = Len(root)
                    /\ Rows = 1..Len(root) /\ Rows \subseteq 1..Len(mail) /\ Len(root) \in Nat
                    /\ \A n \in Rows : CachedRows[n] = mail[n]
  OBVIOUS
<1>1. mail \in Seq(Heads) /\ root \in Seq(Int) /\ Len(root) <= Len(mail)
  BY DEF Delivered, Rooted
<1>2. Rows = 1..Len(root) /\ Len(root) \in Nat /\ Len(root) \in 0..Len(mail) /\ Len(mail) \in Nat
  BY <1>1 DEF Rows
<1>3. CachedRows = [i \in 1..Len(root) |-> mail[i]]
  BY <1>1, <1>2 DEF CachedRows
<1>4. \A i \in 1..Len(root) : mail[i] \in Heads
  BY <1>1, <1>2
<1> QED BY <1>2, <1>3, <1>4

\* Max over rows.
LEMMA TheLastRow ==
  ASSUME NEW l \in Nat, NEW S \in SUBSET (1..l), S # {}
  PROVE  Max(S) \in S /\ \A y \in S : y <= Max(S)
<1>0. \A y \in S : y \in 1..l /\ y \in Int
  OBVIOUS
<1> DEFINE U == {l - y : y \in S}
<1>1. U \in SUBSET Nat /\ U # {}
  <2>1. \A y \in S : l - y \in Nat
    BY <1>0
  <2>2. \E y \in S : l - y \in U
    OBVIOUS
  <2> QED BY <2>1, <2>2
<1>2. PICK u \in U : \A v \in U : <<v, u>> \notin OpToRel(<, Nat)
  BY <1>1, WFMin, NatLessThanWellFounded
<1>3. \A v \in U : ~(v < u)
  BY <1>1, <1>2 DEF OpToRel
<1>4. PICK x \in S : u = l - x
  OBVIOUS
<1>5. \A y \in S : x >= y
  BY <1>3, <1>4
<1>6. Max(S) \in S /\ \A y \in S : Max(S) >= y
  BY <1>5 DEF Max
<1> HIDE DEF U
<1> QED BY <1>0, <1>6

LEMMA ThreadedAtFirst == ThreadingInit => Threaded
<1> SUFFICES ASSUME ThreadingInit PROVE Threaded
  OBVIOUS
<1>1. mail = <<>> /\ root = <<>> /\ filed = <<>> /\ thread = <<>> /\ polled = FALSE
  BY DEF ThreadingInit
<1>2. Len(mail) = 0 /\ Len(root) = 0 /\ 1..0 = {} /\ mail \in Seq(Heads)
  BY <1>1
<1>3. Delivered
  BY <1>1, <1>2 DEF ThreadingInit, Delivered
<1>4. Rooted
  <2>1. CachedRows = <<>>
    BY <1>1 DEF CachedRows
  <2>2. DOMAIN ResolveThreadRoots(<<>>) = 1..0
    <3>1. <<>> \in Seq(Heads) /\ Len(<<>>) = 0
      OBVIOUS
    <3> QED BY <3>1, RootsAreNames
  <2>3. ResolveThreadRoots(<<>>) = <<>>
    <3>1. ResolveThreadRoots(<<>>) =
            [n \in DOMAIN <<>> |-> RootOf(BuildThreads(<<>>), <<>>, n)]
      BY DEF ResolveThreadRoots
    <3> QED BY <2>2, <3>1
  <2> QED BY <1>1, <1>2, <2>1, <2>3 DEF Rooted
<1>5. FiledUnderThreads
  BY <1>1 DEF FiledUnderThreads, Rows
<1> QED BY <1>3, <1>4, <1>5 DEF Threaded

LEMMA ArrivingKeepsThreaded == Threaded /\ MailArrives => Threaded'
<1> SUFFICES ASSUME Threaded, MailArrives PROVE Threaded'
  OBVIOUS
<1>1. mail \in Seq(Heads) /\ answers \in Conversations \cup {Wild} /\ root \in Seq(Int)
      /\ Len(root) <= Len(mail)
  BY DEF Threaded, Delivered, Rooted
<1>2. UNCHANGED <<answers, polled, root, thread, filed>>
  BY DEF MailArrives
<1>3. PICK h \in Heads :
        /\ mail' = Append(mail, h)
        /\ IF answers = Wild THEN h \in Header
           ELSE h.id \in Ids /\ h.chain \in HonestChains(answers, h.id)
  <2>1. CASE answers # Wild
    <3>1. PICK i \in Ids, old \in BOOLEAN : \E chain \in HonestChains(answers, i) :
             mail' = Append(mail, [id |-> i, chain |-> chain, moved |-> old])
      BY <2>1 DEF MailArrives
    <3>1a. PICK chain \in HonestChains(answers, i) :
             mail' = Append(mail, [id |-> i, chain |-> chain, moved |-> old])
      BY <3>1
    <3>2. chain \in Seq(Ids)
      BY <1>1, <2>1, HonestChainsAreOrderly DEF Orderly
    <3>3. [id |-> i, chain |-> chain, moved |-> old] \in Heads
      BY <3>2 DEF Heads
    <3> QED BY <2>1, <3>1a, <3>3
  <2>2. CASE answers = Wild
    BY <2>2, HeadersAreHeads DEF MailArrives
  <2> QED BY <2>1, <2>2
<1>4. /\ mail' \in Seq(Heads) /\ Len(mail') = Len(mail) + 1 /\ mail'[Len(mail) + 1] = h
      /\ \A n \in 1..Len(mail) : mail'[n] = mail[n]
  BY <1>1, <1>3, AppendProperties
<1>5. Delivered'
  <2>1. ASSUME NEW n \in 1..Len(mail')
        PROVE  IF answers = Wild THEN mail'[n] \in Header
               ELSE mail'[n].id \in Ids /\ mail'[n].chain \in HonestChains(answers, mail'[n].id)
    <3>1. CASE n = Len(mail) + 1
      BY <1>3, <1>4, <3>1
    <3>2. CASE n # Len(mail) + 1
      <4>1. n \in 1..Len(mail) /\ mail'[n] = mail[n]
        BY <1>1, <1>4, <3>2
      <4>2. IF answers = Wild THEN mail[n] \in Header
               ELSE mail[n].id \in Ids /\ mail[n].chain \in HonestChains(answers, mail[n].id)
        BY <4>1 DEF Threaded, Delivered
      <4> QED BY <4>1, <4>2
    <3> QED BY <3>1, <3>2
  <2>2. polled \in BOOLEAN
    BY DEF Threaded, Delivered
  <2> QED BY <1>1, <1>2, <1>4, <2>1, <2>2 DEF Delivered
<1>6. Rooted'
  <2>1. CachedRows' = CachedRows
    <3>1. Len(root) \in 0..Len(mail)
      BY <1>1
    <3> QED BY <1>1, <1>2, <1>3, <3>1, FirstRowsStay DEF CachedRows
  <2>2. root = ResolveThreadRoots(CachedRows) /\ (~polled => Len(root) = 0)
    BY DEF Threaded, Rooted
  <2>3. Len(root) <= Len(mail')
    BY <1>1, <1>4
  <2> QED BY <1>1, <1>2, <2>1, <2>2, <2>3 DEF Rooted
<1>7. FiledUnderThreads'
  BY <1>2 DEF Threaded, FiledUnderThreads, Rows
<1> QED BY <1>5, <1>6, <1>7 DEF Threaded

LEMMA PollingKeepsThreaded == Threaded /\ PollAndFile => Threaded'
<1> SUFFICES ASSUME Threaded, PollAndFile PROVE Threaded'
  OBVIOUS
<1> DEFINE roots == ResolveThreadRoots(mail)
           L == Len(mail)
           new == HandedOn
           keys == {roots[n] : n \in new}
           latest(k) == {n \in new : roots[n] = k}
<1>1. mail \in Seq(Heads) /\ L \in Nat /\ DOMAIN mail = 1..L
  BY DEF Threaded, Delivered
<1>2. /\ root' = roots /\ polled' = TRUE /\ UNCHANGED <<answers, mail>>
      /\ thread' = Upserted(roots, HandedOn)
      /\ filed' = [n \in DOMAIN mail |->
                     IF n \in HandedOn THEN roots[n] ELSE IF n \in Rows THEN filed[n] ELSE Unfiled]
  BY DEF PollAndFile
<1>3. /\ DOMAIN roots = 1..L
      /\ \A n \in 1..L : roots[n] \in Ids \cup {-n}
      /\ roots = [n \in 1..L |-> RootOf(BuildThreads(mail), mail, n)]
  BY <1>1, RootsAreNames DEF ResolveThreadRoots
<1> HIDE DEF roots
<1>4. \A n \in 1..L : roots[n] \in Int /\ roots[n] # Unfiled
  BY <1>1, <1>3, IdsAssumption DEF Ids, Unfiled
<1>5. roots \in [1..L -> Int]
  BY <1>3, <1>4
<1>6. roots \in Seq(Int) /\ Len(roots) = L
  BY <1>1, <1>5
<1>7. Delivered'
  BY <1>2 DEF Threaded, Delivered
<1>8. Rooted'
  <2>1. SubSeq(mail, 1, L) = mail
    BY <1>1, AllRows
  <2>2. CachedRows' = mail
    BY <1>2, <1>6, <2>1 DEF CachedRows
  <2>3. ResolveThreadRoots(CachedRows)' = roots
    BY <2>2 DEF roots
  <2> QED BY <1>1, <1>2, <1>6, <2>3 DEF Rooted
<1>9. /\ Rows = 1..Len(root) /\ Len(root) \in Nat /\ Len(root) <= L
      /\ Rows \subseteq 1..L /\ (~polled => Rows = {})
  BY <1>1, RowsOfTheCache DEF Threaded, Rooted
<1>10. Rows' = 1..L
  BY <1>2, <1>3 DEF Rows
<1>11. /\ new \subseteq 1..L
       /\ \A n \in new, m \in Rows : m < n
       /\ \A n \in new, m \in 1..L : m \notin new /\ m \notin Rows => m < n
       /\ Rows # {} => \A m \in 1..L : m \in new \/ m \in Rows
  <2>1. \A n \in new : n \in 1..L
    BY <1>1 DEF HandedOn
  <2>2. CASE polled
    <3>1. \A n : n \in new <=> n \in 1..L /\ n > Len(root)
      BY <1>1, <2>2 DEF HandedOn
    <3> HIDE DEF new
    <3> QED BY <1>9, <2>1, <3>1
  <2>3. CASE ~polled
    <3>1. \A n : n \in new <=> n \in 1..L /\ n > L - BacklogSize
      BY <1>1, <2>3 DEF HandedOn
    <3>2. BacklogSize \in Nat
      BY IdsAssumption
    <3>3. L - BacklogSize \in Int
      BY <1>1, <3>2
    <3> DEFINE b == L - BacklogSize
    <3> HIDE DEF new, b
    <3>4. \A n \in new, m \in 1..L : m \notin new => m < n
      BY <2>1, <3>1, <3>3 DEF b
    <3> QED BY <1>9, <2>1, <2>3, <3>4
  <2> QED BY <2>2, <2>3
<1>12. \A n \in 1..L : filed'[n] = IF n \in new THEN roots[n]
                                    ELSE IF n \in Rows THEN filed[n] ELSE Unfiled
  BY <1>1, <1>2
<1>13. DOMAIN filed' = 1..L
  BY <1>1, <1>2
<1>14. /\ DOMAIN thread' = DOMAIN thread \cup keys
       /\ \A k \in DOMAIN thread \cup keys :
            thread'[k] = IF \E n \in new : roots[n] = k THEN Max(latest(k)) ELSE thread[k]
  BY <1>2 DEF Upserted
<1>15. /\ \A n \in Rows : filed[n] # Unfiled => filed[n] \in DOMAIN thread /\ n <= thread[filed[n]]
       /\ \A k \in DOMAIN thread : k # Unfiled /\ thread[k] \in Rows /\ filed[thread[k]] = k
       /\ \A m, n \in Rows : filed[m] = Unfiled /\ filed[n] # Unfiled => m < n
  BY DEF Threaded, FiledUnderThreads
<1>16. \A n \in new : roots[n] \in keys
  OBVIOUS
<1>17. \A k \in keys : \E n \in new : roots[n] = k
  OBVIOUS
<1> HIDE DEF new, keys, L
<1>18. ASSUME NEW k, NEW m \in new, roots[m] = k
       PROVE  /\ Max(latest(k)) \in new /\ roots[Max(latest(k))] = k
              /\ \A n \in new : roots[n] = k => n <= Max(latest(k))
  <2>1. latest(k) \in SUBSET (1..L) /\ latest(k) # {}
    BY <1>11, <1>18
  <2>2. Max(latest(k)) \in latest(k) /\ \A n \in latest(k) : n <= Max(latest(k))
    <3> HIDE DEF latest
    <3> QED BY <1>1, <2>1, TheLastRow
  <2> QED BY <2>2
<1>19. ASSUME NEW n \in new
       PROVE  /\ roots[n] \in DOMAIN thread' /\ n <= thread'[roots[n]]
              /\ thread'[roots[n]] \in new /\ roots[thread'[roots[n]]] = roots[n]
              /\ n \in 1..L
  <2>1. thread'[roots[n]] = Max(latest(roots[n])) /\ roots[n] \in DOMAIN thread'
    BY <1>14, <1>16
  <2> HIDE DEF latest
  <2> QED BY <1>11, <1>18, <2>1
<1> HIDE DEF latest
<1>20. ASSUME NEW k \in DOMAIN thread, \A n \in new : roots[n] # k
       PROVE  k \in DOMAIN thread' /\ thread'[k] = thread[k]
  BY <1>14, <1>20
<1>21. \A n \in Rows : n \in 1..L /\ n \notin new /\ filed'[n] = filed[n]
  <2> SUFFICES ASSUME NEW n \in Rows PROVE n \in 1..L /\ n \notin new /\ filed'[n] = filed[n]
    OBVIOUS
  <2>1. n \in 1..L /\ ~(n < n)
    BY <1>9
  <2> QED BY <1>11, <1>12, <2>1
<1>22. \A n \in new : filed'[n] = roots[n] /\ n \in 1..L
  BY <1>11, <1>12
<1>23. ASSUME NEW n \in 1..L, filed'[n] # Unfiled
       PROVE  filed'[n] \in DOMAIN thread' /\ n <= thread'[filed'[n]]
  <2>1. CASE n \in new
    BY <1>19, <1>22, <2>1
  <2>2. CASE n \in Rows
    <3> DEFINE k == filed[n]
    <3>1. filed'[n] = k /\ k \in DOMAIN thread /\ n <= thread[k]
      BY <1>15, <1>21, <1>23, <2>2
    <3>2. CASE \A m \in new : roots[m] # k
      BY <1>20, <3>1, <3>2
    <3>3. CASE \E m \in new : roots[m] = k
      <4>1. PICK m \in new : roots[m] = k
        BY <3>3
      <4>2. k \in DOMAIN thread' /\ thread'[k] \in new
        BY <1>19, <4>1
      <4>3. n < thread'[k] /\ thread'[k] \in 1..L
        BY <1>11, <2>2, <4>2
      <4>4. n <= thread'[k]
        <5> DEFINE x == thread'[k]
        <5>1. n < x /\ n \in Int /\ x \in Int
          BY <1>1, <4>3
        <5> HIDE DEF x
        <5>2. n <= x
          BY <5>1
        <5> QED BY <5>2 DEF x
      <4> QED BY <3>1, <4>2, <4>4
    <3> QED BY <3>2, <3>3
  <2>3. CASE n \notin new /\ n \notin Rows
    BY <1>12, <1>23, <2>3
  <2> QED BY <2>1, <2>2, <2>3
<1>24. ASSUME NEW k \in DOMAIN thread'
       PROVE  k # Unfiled /\ thread'[k] \in 1..L /\ filed'[thread'[k]] = k
  <2>1. CASE \E m \in new : roots[m] = k
    <3>1. PICK m \in new : roots[m] = k
      BY <2>1
    <3>2. thread'[k] \in new /\ roots[thread'[k]] = k
      BY <1>19, <3>1
    <3>3. k # Unfiled
      BY <1>4, <1>22, <3>1
    <3> QED BY <1>22, <3>2, <3>3
  <2>2. CASE \A m \in new : roots[m] # k
    <3>1. k \in DOMAIN thread
      BY <1>14, <1>17, <2>2
    <3>2. thread'[k] = thread[k] /\ thread[k] \in Rows /\ filed[thread[k]] = k /\ k # Unfiled
      BY <1>15, <1>20, <2>2, <3>1
    <3> QED BY <1>21, <3>2
  <2> QED BY <2>1, <2>2
<1>25. ASSUME NEW m \in 1..L, NEW n \in 1..L, filed'[m] = Unfiled, filed'[n] # Unfiled
       PROVE  m < n
  <2>1. m \notin new
    BY <1>4, <1>22, <1>25
  <2>2. CASE n \in new
    BY <1>11, <2>1, <2>2
  <2>3. CASE n \notin new
    <3>1. n \in Rows /\ filed[n] # Unfiled
      BY <1>12, <1>25, <2>3
    <3>2. CASE m \in Rows
      BY <1>15, <1>21, <1>25, <3>1, <3>2
    <3>3. CASE m \notin Rows
      BY <1>11, <2>1, <3>1, <3>3
    <3> QED BY <3>2, <3>3
  <2> QED BY <2>2, <2>3
<1>26. FiledUnderThreads'
  BY <1>10, <1>13, <1>23, <1>24, <1>25 DEF FiledUnderThreads
<1> QED BY <1>7, <1>8, <1>26 DEF Threaded

LEMMA ThreadedNext == Threaded /\ [ThreadingNext]_threadingVars => Threaded'
<1>1. Threaded /\ UNCHANGED threadingVars => Threaded'
  BY DEF threadingVars, Threaded, Delivered, Rooted, FiledUnderThreads, CachedRows, Rows
<1> QED BY <1>1, ArrivingKeepsThreaded, PollingKeepsThreaded DEF ThreadingNext

\* The cache holds the first rows of the folder, its roots are those that threading them from
\* scratch gives, and each thread of the service knows the last row filed under it.
THEOREM ThreadedHolds == ThreadingSpec => []Threaded
BY ThreadedAtFirst, ThreadedNext, PTL DEF ThreadingSpec

\* The types of Threading: every root is an id or the row's own.
THEOREM ThreadingTypeCorrect == ThreadingSpec => []ThreadingTypeOK
<1>1. Threaded => ThreadingTypeOK
  <2> SUFFICES ASSUME Threaded PROVE ThreadingTypeOK
    OBVIOUS
  <2>1. /\ Rows = 1..Len(root) /\ CachedRows \in Seq(Heads) /\ Len(CachedRows) = Len(root)
        /\ mail \in Seq(Heads) /\ DOMAIN mail = 1..Len(mail)
    BY RowsOfTheCache DEF Threaded, Delivered
  <2>2. \A n \in Rows : root[n] \in Ids \cup {-n}
    BY <2>1, RootsAreNames DEF Threaded, Rooted
  <2>3. \A n \in DOMAIN mail :
          mail[n] \in Header \/ (answers # Wild /\ mail[n].chain \in HonestChains(answers, mail[n].id))
    BY <2>1 DEF Threaded, Delivered
  <2> QED BY <2>2, <2>3 DEF ThreadingTypeOK, Threaded, Delivered, Rooted, FiledUnderThreads
<1> QED BY <1>1, ThreadedHolds, PTL

\* buildThreads: whatever the headers say, every message has one place in the forest and one
\* root above it.
THEOREM EachMailOnceHolds == ThreadingSpec => []EachMailOnce
<1>1. Threaded => EachMailOnce
  <2> SUFFICES ASSUME Threaded PROVE EachMailOnce
    OBVIOUS
  <2> DEFINE t == BuildThreads(mail)
  <2>1. mail \in Seq(Heads) /\ DOMAIN mail = 1..Len(mail)
    BY DEF Threaded, Delivered
  <2>2. Built(t, mail)
    BY <2>1, TreesAreBuilt
  <2> HIDE DEF t
  <2>3. ASSUME NEW n \in DOMAIN mail
        PROVE  /\ Cardinality({x \in DOMAIN t.of : t.of[x] = n}) = 1
               /\ Cardinality({y \in Above(t.up, ContainerOf(t, n)) : t.up[y] = Nothing}) = 1
    <3> DEFINE x == ContainerOf(t, n)
               C == Containers(Len(mail))
    <3>1. x \in C /\ t.of[x] = n /\ (\A y \in C : t.of[y] = n => y = x) /\ DOMAIN t.of = C
      BY <2>1, <2>2, <2>3, RowHasItsContainer, BuiltMeans
    <3>2. Forest(C, t.up)
      BY <2>1, <2>2, BuiltMeans
    <3> HIDE DEF x, C
    <3>3. PICK y \in Above(t.up, x) :
            t.up[y] = Nothing /\ \A z \in Above(t.up, x) : t.up[z] = Nothing => z = y
      BY <3>1, <3>2, WalksUp
    <3>4. {z \in DOMAIN t.of : t.of[z] = n} = {x}
      BY <3>1
    <3>5. {z \in Above(t.up, x) : t.up[z] = Nothing} = {y}
      BY <3>3
    <3> QED BY <3>4, <3>5, FS_Singleton DEF x
  <2> QED BY <2>3 DEF EachMailOnce, t
<1> QED BY <1>1, ThreadedHolds, PTL

\* The facts of the cached rows that the properties rest on.
LEMMA CachedHeads ==
  Threaded =>
    /\ CachedRows \in Seq(Heads) /\ mail \in Seq(Heads)
    /\ Rows = 1..Len(CachedRows) /\ Rows \subseteq 1..Len(mail)
    /\ root = ResolveThreadRoots(CachedRows)
    /\ \A n \in Rows : CachedRows[n] = mail[n]
    /\ \A n \in Rows : root[n] \in Ids \cup {-n}
    /\ answers # Wild => /\ answers \in Conversations
                         /\ HonestRows(answers, mail) /\ HonestRows(answers, CachedRows)
<1> SUFFICES ASSUME Threaded
             PROVE  /\ CachedRows \in Seq(Heads) /\ mail \in Seq(Heads)
                    /\ Rows = 1..Len(CachedRows) /\ Rows \subseteq 1..Len(mail)
                    /\ root = ResolveThreadRoots(CachedRows)
                    /\ \A n \in Rows : CachedRows[n] = mail[n]
                    /\ \A n \in Rows : root[n] \in Ids \cup {-n}
                    /\ answers # Wild => /\ answers \in Conversations
                                         /\ HonestRows(answers, mail)
                                         /\ HonestRows(answers, CachedRows)
  OBVIOUS
<1>1. /\ CachedRows \in Seq(Heads) /\ mail \in Seq(Heads)
      /\ Rows = 1..Len(CachedRows) /\ Rows \subseteq 1..Len(mail)
      /\ \A n \in Rows : CachedRows[n] = mail[n]
  BY RowsOfTheCache DEF Threaded, Delivered
<1>2. root = ResolveThreadRoots(CachedRows)
  BY DEF Threaded, Rooted
<1>3. \A n \in Rows : root[n] \in Ids \cup {-n}
  BY <1>1, <1>2, RootsAreNames
<1>4. ASSUME answers # Wild PROVE answers \in Conversations /\ HonestRows(answers, mail)
  <2>1. answers \in Conversations
    BY <1>4 DEF Threaded, Delivered
  <2>2. \A n \in 1..Len(mail) :
          mail[n].id \in Ids /\ mail[n].chain \in HonestChains(answers, mail[n].id)
    BY <1>4 DEF Threaded, Delivered
  <2> QED BY <2>1, <2>2, HonestChainsAreOrderly DEF HonestRows
<1>5. HonestRows(answers, mail) => HonestRows(answers, CachedRows)
  BY <1>1 DEF HonestRows
<1> QED BY <1>1, <1>2, <1>3, <1>4, <1>5

\* Rows of one root are of one conversation (cache-source.ts), and with complete headers
\* rows of one conversation have one root.
THEOREM ThreadsAreConversationsHolds == ThreadingSpec => []ThreadsAreConversations
<1>1. Threaded => ThreadsAreConversations
  <2> SUFFICES ASSUME Threaded, NEW n \in Rows
               PROVE  LET one == {m \in Rows : root[m] = root[n]}
                      IN  /\ one \subseteq Together(n)
                          /\ answers # Wild /\ Complete => one = Together(n)
    BY DEF ThreadsAreConversations
  <2> DEFINE one == {m \in Rows : root[m] = root[n]}
             heads == CachedRows
  <2>1. /\ heads \in Seq(Heads) /\ Rows = 1..Len(heads)
        /\ root = ResolveThreadRoots(heads)
        /\ \A m \in Rows : heads[m] = mail[m]
        /\ answers # Wild => answers \in Conversations /\ HonestRows(answers, heads)
    BY CachedHeads
  <2> HIDE DEF heads
  <2>2. ASSUME NEW m \in one, NEW S \in SUBSET Rows, n \in S, ClosedUnderNames(S) PROVE m \in S
    <3>1. \A r \in S, k \in 1..Len(heads) : Names(heads[k]) \cap Names(heads[r]) # {} => k \in S
      BY <2>1, <2>2 DEF ClosedUnderNames
    <3>2. S \in SUBSET (1..Len(heads)) /\ n \in 1..Len(heads) /\ m \in 1..Len(heads)
      BY <2>1
    <3>3. n \in S <=> Touched(heads, S, root[n])
      BY <2>1, <3>1, <3>2, RootsStayWithTheirRows
    <3>4. m \in S <=> Touched(heads, S, root[m])
      BY <2>1, <3>1, <3>2, RootsStayWithTheirRows
    <3> QED BY <2>2, <3>3, <3>4
  <2>3. one \subseteq Together(n)
    BY <2>2 DEF Together
  <2>4. ASSUME answers # Wild, Complete, NEW m \in Together(n) PROVE m \in one
    <3>1. answers \in Conversations /\ HonestRows(answers, heads)
      BY <2>1, <2>4
    <3>2. CompleteRows(answers, heads)
      BY <2>1, <2>4 DEF Complete, CompleteRows
    <3>3. ASSUME NEW r \in one, NEW k \in Rows, Names(mail[k]) \cap Names(mail[r]) # {}
          PROVE  k \in one
      <4>0. r \in 1..Len(heads) /\ k \in 1..Len(heads)
        BY <2>1
      <4>1. PICK x : x \in Names(heads[k]) /\ x \in Names(heads[r])
        BY <2>1, <3>3
      <4>2. Beginning(answers, heads[k].id) = Beginning(answers, heads[r].id)
        <5>1. Beginning(answers, x) = Beginning(answers, heads[k].id)
          BY <2>1, <3>1, <4>0, <4>1, HonestNames
        <5>2. Beginning(answers, x) = Beginning(answers, heads[r].id)
          BY <2>1, <3>1, <4>0, <4>1, HonestNames
        <5> QED BY <5>1, <5>2
      <4>3. root[k] = root[r]
        BY <2>1, <3>1, <3>2, <4>0, <4>2, OneConversationOneRoot
      <4> QED BY <4>3
    <3>4. ClosedUnderNames(one) /\ one \in SUBSET Rows /\ n \in one
      <4>1. one \in SUBSET Rows /\ n \in one
        OBVIOUS
      <4> HIDE DEF one
      <4> QED BY <3>3, <4>1 DEF ClosedUnderNames
    <3> HIDE DEF one
    <3> QED BY <2>4, <3>4 DEF Together
  <2>5. Together(n) \subseteq Rows
    BY DEF Together
  <2> HIDE DEF one
  <2>6. answers # Wild /\ Complete => one = Together(n)
    BY <2>3, <2>4
  <2> QED BY <2>3, <2>6 DEF one
<1> QED BY <1>1, ThreadedHolds, PTL

\* Under Regular a reply goes to the author of the message it answers (app.ts, the
\* sender of the thread row, thread-detail-view.ts, the newest of the rows).
THEOREM ReplyAnswersItsAddresseeHolds == ThreadingSpec => []ReplyAnswersItsAddressee
<1>1. Threaded => ReplyAnswersItsAddressee
  <2> SUFFICES ASSUME Threaded, NEW k \in DOMAIN thread, Regular(k)
               PROVE  Parent(k) = thread[k]
    BY DEF ReplyAnswersItsAddressee, Addressee
  <2> DEFINE heads == CachedRows
             u == thread[k]
  <2>1. /\ heads \in Seq(Heads) /\ Rows = 1..Len(heads)
        /\ root = ResolveThreadRoots(heads)
        /\ \A n \in Rows : heads[n] = mail[n]
        /\ \A n \in Rows : root[n] \in Ids \cup {-n}
    BY CachedHeads
  <2> HIDE DEF heads
  <2>2. /\ u \in Rows /\ filed[u] = k /\ k # Unfiled
        /\ \A n \in Rows : filed[n] # Unfiled => n <= thread[filed[n]]
        /\ \A m, n \in Rows : filed[m] = Unfiled /\ filed[n] # Unfiled => m < n
    BY DEF Threaded, FiledUnderThreads
  <2>3. /\ \A n \in Rows : root[n] = k => ~mail[n].moved
        /\ \A n \in Rows : root[n] = k => \A m \in Rows : SameMail(m, n) => m = n
        /\ \A n \in Rows : filed[n] # Unfiled => (filed[n] = k <=> root[n] = k)
    BY DEF Regular
  <2>4. \A n \in Rows : n \in Int
    BY <2>1
  <2>5. root[u] = k
    BY <2>2, <2>3
  <2>6. ASSUME NEW n \in Rows, root[n] = k PROVE n = u \/ n < u
    <3>1. CASE filed[n] = Unfiled
      BY <2>2, <2>6, <3>1
    <3>2. CASE filed[n] # Unfiled
      <4>1. filed[n] = k
        BY <2>3, <2>6, <3>2
      <4>2. n <= u
        BY <2>2, <3>2, <4>1
      <4> QED BY <2>2, <2>4, <4>2
    <3> QED BY <3>1, <3>2
  <2>7. ASSUME NEW n \in Rows, mail[n].id = k PROVE root[n] = k
    <3>1. k \in Int
      BY <2>1, <2>2, <2>4, <2>5, IdsAssumption DEF Ids
    <3>2. k # NoId
      BY <3>1, IdsAssumption
    <3>3. k \in Ids /\ heads[n].id = k
      <4>1. heads[n] \in Heads /\ heads[n] = mail[n]
        BY <2>1
      <4> QED BY <2>7, <3>2, <4>1 DEF Heads
    <3>4. NoId \notin Ids
      BY IdsAssumption DEF Ids
    <3>5. PICK m \in 1..Len(heads) : heads[m].id = k /\ root[m] = k
      <4>1. u \in 1..Len(heads) /\ n \in 1..Len(heads)
        BY <2>1, <2>2
      <4>2. ResolveThreadRoots(heads)[u] = heads[n].id
        BY <2>1, <2>5, <3>3
      <4>3. \E m \in 1..Len(heads) :
              heads[m].id = heads[n].id /\ ResolveThreadRoots(heads)[m] = heads[n].id
        BY <2>1, <3>3, <3>4, <4>1, <4>2, TheRootIsAmongItsRows
      <4> QED BY <2>1, <3>3, <4>3
    <3>6. SameMail(n, m)
      BY <2>1, <2>7, <3>2, <3>5 DEF SameMail
    <3> QED BY <2>1, <2>3, <3>5, <3>6
  <2>8. ThreadRows(k) = {n \in Rows : root[n] = k}
    <3> DEFINE match == {n \in Rows : root[n] = k \/ mail[n].id = k}
    <3>1. ThreadRows(k) = {n \in match : \A m \in match : SameMail(m, n) => m >= n}
      BY DEF ThreadRows
    <3>2. \A n \in match : n \in Rows /\ root[n] = k
      BY <2>7
    <3>3. \A n \in match, m \in match : SameMail(m, n) => m = n
      BY <2>3, <3>2
    <3>4. \A n \in Rows : n >= n
      BY <2>4
    <3>5. \A n \in Rows : root[n] = k => n \in match
      OBVIOUS
    <3> HIDE DEF match
    <3> QED BY <3>1, <3>2, <3>3, <3>4, <3>5
  <2>9. \A m \in ThreadRows(k), n \in ThreadRows(k) : Before(m, n) <=> m < n
    <3>1. \A n \in ThreadRows(k) : mail[n].moved = FALSE
      <4> SUFFICES ASSUME NEW n \in ThreadRows(k) PROVE mail[n].moved = FALSE
        OBVIOUS
      <4>1. n \in Rows /\ ~mail[n].moved /\ heads[n] \in Heads /\ heads[n] = mail[n]
        BY <2>1, <2>3, <2>8
      <4>2. mail[n].moved \in BOOLEAN
        BY <4>1 DEF Heads
      <4> QED BY <4>1, <4>2
    <3> QED BY <3>1 DEF Before
  <2>10. u \in ThreadRows(k) /\ \A m \in ThreadRows(k) : m = u \/ Before(m, u)
    BY <2>2, <2>5, <2>6, <2>8, <2>9
  <2>11. \A n \in ThreadRows(k) : (\A m \in ThreadRows(k) : m = n \/ Before(m, n)) => n = u
    <3> SUFFICES ASSUME NEW n \in ThreadRows(k), n # u,
                        \A m \in ThreadRows(k) : m = n \/ Before(m, n)
                 PROVE  FALSE
      OBVIOUS
    <3>1. Before(u, n) /\ Before(n, u)
      BY <2>10
    <3>2. u < n /\ n < u /\ u \in Int /\ n \in Int
      BY <2>2, <2>4, <2>8, <2>9, <2>10, <3>1
    <3> HIDE DEF u
    <3> QED BY <3>2
  <2> HIDE DEF u
  <2>12. Parent(k) = u
    BY <2>10, <2>11 DEF Parent
  <2> QED BY <2>12 DEF u
<1> QED BY <1>1, ThreadedHolds, PTL

\* Later mail moves roots up to the message that began the conversation, never away from it.
THEOREM RootsSettleHolds == ThreadingSpec => RootsSettle
<1> DEFINE Settles ==
      \A n \in Rows :
       (/\ answers # Wild
        /\ root[n] \in Ids
        /\ answers[root[n]] = NoId
        /\ \E m \in Rows : mail[m].id = root[n]
        /\ Complete')
       => root'[n] = root[n]
<1>1. Threaded /\ [ThreadingNext]_threadingVars => Settles \/ UNCHANGED threadingVars
  <2> SUFFICES ASSUME Threaded, ThreadingNext, NEW n \in Rows, answers # Wild, root[n] \in Ids,
                      answers[root[n]] = NoId, NEW m \in Rows, mail[m].id = root[n], Complete'
               PROVE  root'[n] = root[n]
    OBVIOUS
  <2>1. CASE MailArrives
    BY <2>1 DEF MailArrives
  <2>2. CASE PollAndFile
    <3> DEFINE c == answers
               heads == CachedRows
    <3>1. root' = ResolveThreadRoots(mail) /\ mail' = mail /\ answers' = answers
      BY <2>2 DEF PollAndFile
    <3>2. /\ heads \in Seq(Heads) /\ mail \in Seq(Heads)
          /\ Rows = 1..Len(heads) /\ Rows \subseteq 1..Len(mail)
          /\ root = ResolveThreadRoots(heads)
          /\ \A k \in Rows : heads[k] = mail[k]
          /\ c \in Conversations /\ HonestRows(c, mail) /\ HonestRows(c, heads)
      BY CachedHeads
    <3> HIDE DEF heads
    <3>3. Rows' = 1..Len(mail)
      BY <3>1, <3>2, RootsAreNames DEF Rows
    <3>4. CompleteRows(c, mail)
      BY <3>1, <3>3 DEF Complete, CompleteRows
    <3> HIDE DEF c
    <3>5. Beginning(c, root[n]) = Beginning(c, mail[n].id)
      <4>1. Beginning(c, ResolveThreadRoots(heads)[n]) = Beginning(c, heads[n].id)
        BY <3>2, RootsKeepTheBeginning
      <4> QED BY <3>2, <4>1
    <3>6. Beginning(c, root[n]) = root[n]
      BY <3>2, Beginnings DEF c
    <3>7. m \in 1..Len(mail) /\ n \in 1..Len(mail) /\ mail[m].id = Beginning(c, mail[n].id)
      BY <3>2, <3>5, <3>6
    <3>8. ResolveThreadRoots(mail)[n] = Beginning(c, mail[n].id)
      BY <3>2, <3>4, <3>7, OneConversationOneRoot
    <3> QED BY <3>1, <3>5, <3>6, <3>8
  <2> QED BY <2>1, <2>2 DEF ThreadingNext
<1>2. ThreadingSpec => [][Settles]_threadingVars
  BY <1>1, ThreadedHolds, PTL DEF ThreadingSpec
<1> QED BY <1>2 DEF RootsSettle

=============================================================================
