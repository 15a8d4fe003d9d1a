----------------------------- MODULE WorkSurface -----------------------------
(***************************************************************************)
(* Drafting, refining and sending the reply to ONE thread on one machine:  *)
(* the draft routes and the send route of the local API                    *)
(* (backend/src/api/app.ts), the drafts database (drafts/store.ts), the    *)
(* drafting calls to Claude (claude/draft.ts), the send path               *)
(* (smtp/send.ts) and the draft pane of the browser (draft-pane.tsx with   *)
(* the queries and mutations of work-surface-hooks.ts).                    *)
(*                                                                         *)
(* Nothing serialises the routes of a thread: each handler reads the draft *)
(* store, awaits Claude, the metadata service, SMTP or IMAP, and writes    *)
(* the store afterwards.  A call in flight is a record in `calls`; a step  *)
(* is what a handler does between two awaits.                              *)
(*                                                                         *)
(* A body of a draft is the number of the generation that produced it; the *)
(* transcript is the sequence of the bodies, one for each pair of turns.   *)
(* Who may write at all is ThreadLock's matter: the tabs here hold it.     *)
(***************************************************************************)
EXTENDS Integers, Sequences, SequencesExt

CONSTANTS
  Tabs,       \* browser tabs of the person
  MaxCalls,   \* bound: calls in flight at once
  MaxBodies,  \* bound: calls of Claude that draft
  MaxClicks,  \* bound: clicks on Send
  MaxOpens,   \* bound: times the surface is opened
  MaxFaults   \* bound: calls that fail, crashes of the backend

ASSUME BoundsAssumption ==
  /\ MaxCalls \in Nat /\ MaxBodies \in Nat /\ MaxClicks \in Nat
  /\ MaxOpens \in Nat /\ MaxFaults \in Nat

VARIABLES
  store,      \* the row of drafts.db for the thread
  calls,      \* the API handlers in flight
  tab,        \* each tab: its cached query and the pane on the screen
  mails,      \* the clicks whose mail the SMTP server took, in order
  lessons,    \* what was handed to learning: a draft and the click it is compared with
  \* History and bounds.
  clicks,     \* every click on Send: what was sent, what was seen, how it ended
  crossed,    \* the kinds of calls that have been in flight together
  bodies, opens, faults

vars == <<store, calls, tab, mails, lessons, clicks, crossed, bodies, opens, faults>>

Slots == 1..MaxCalls
NoDraft == [version |-> 0, turns |-> <<>>]
NoText == [of |-> 0, edited |-> FALSE]
Free == [kind |-> "free"]

Closed == [open |-> FALSE, loaded |-> FALSE, view |-> NoDraft, wire |-> "none",
           snap |-> NoDraft, broken |-> FALSE, shown |-> 0, text |-> NoText, send |-> "idle"]

Init ==
  /\ store = NoDraft
  /\ calls = [k \in Slots |-> Free]
  /\ tab = [t \in Tabs |-> Closed]
  /\ mails = <<>> /\ clicks = <<>> /\ lessons = {} /\ crossed = {}
  /\ bodies = 0 /\ opens = 0 /\ faults = 0

-----------------------------------------------------------------------------
(* The drafts database.                                                    *)

BodyOf(draft) == Last(draft.turns)

SaveDraft(turns) == [version |-> store.version + 1, turns |-> turns]

-----------------------------------------------------------------------------
(* Calls in flight.                                                        *)

Drafting(k) == calls[k].kind \in {"generate", "refine"}
Sending(k) == calls[k].kind = "send"
Pending(t, kind) == \E k \in Slots : calls[k].kind = kind /\ calls[k].tab = t /\ calls[k].mine

\* What a new call of this kind finds in flight.
Crossings(kind) ==
  (IF \E k \in Slots : Drafting(k)
     THEN {IF kind = "send" THEN "send/draft" ELSE "draft/draft"} ELSE {})
  \union (IF kind # "send" /\ \E k \in Slots : Sending(k) THEN {"send/draft"} ELSE {})
  \union (IF kind = "send" /\ \E k \in Slots : Sending(k) THEN {"send/send"} ELSE {})
  \union (IF \E t \in Tabs : tab[t].wire # "none" THEN {"fetch"} ELSE {})

\* What a fetch that is being asked for finds in flight.
FetchCrossing == IF \E k \in Slots : calls[k] # Free THEN {"fetch"} ELSE {}

Post(call) ==
  /\ \E k \in Slots :
       /\ calls[k] = Free /\ \A j \in 1..(k - 1) : calls[j] # Free
       /\ calls' = [calls EXCEPT ![k] = call]
  /\ crossed' = crossed \union Crossings(call.kind)

To(k, stage) == calls' = [calls EXCEPT ![k].stage = stage]
Done(k) == calls' = [calls EXCEPT ![k] = Free]
Fault == faults < MaxFaults /\ faults' = faults + 1

-----------------------------------------------------------------------------
(* The draft pane.                                                         *)

\* The editor is on the screen of tab r.
Editing(r) == r.open /\ r.shown > 0

\* mutant: the editor is seeded only when it appears
ShowOnce(r, v) ==
  LET hidden == ~r.open \/ r.send = "ok" \/ v = NoDraft
      seen == [r EXCEPT !.loaded = TRUE, !.broken = FALSE, !.view = v]
  IN IF hidden THEN [seen EXCEPT !.shown = 0, !.text = NoText]
     ELSE IF r.shown > 0 THEN seen
     ELSE [seen EXCEPT !.shown = v.version, !.text = [of |-> BodyOf(v), edited |-> FALSE]]

\* The query of tab r takes the value v; an editor seeds its text when it
\* appears and whenever the version changes.
Show(r, v) ==
  LET hidden == ~r.open \/ r.send = "ok" \/ v = NoDraft
      seen == [r EXCEPT !.loaded = TRUE, !.broken = FALSE, !.view = v]
  IN IF hidden THEN [seen EXCEPT !.shown = 0, !.text = NoText]
     ELSE IF r.shown = v.version THEN seen
     ELSE [seen EXCEPT !.shown = v.version, !.text = [of |-> BodyOf(v), edited |-> FALSE]]

\* The error state of the query replaces the pane.
Break(r) == [r EXCEPT !.wire = "none", !.broken = TRUE, !.shown = 0, !.text = NoText]

Mount(r) ==
  LET fresh == [r EXCEPT !.open = TRUE, !.send = "idle",
                         !.wire = IF r.wire = "none" THEN "asked" ELSE r.wire]
  IN IF r.loaded /\ ~r.broken THEN Show(fresh, r.view) ELSE fresh

Unmount(r) == [r EXCEPT !.open = FALSE, !.shown = 0, !.text = NoText, !.send = "idle"]

\* The send is confirmed, if the tab still shows it, and its draft is dropped.
Confirmed(r, mine) == Show([r EXCEPT !.send = IF mine THEN "ok" ELSE r.send], NoDraft)

\* The person opens the thread; the draft query is stale at once, so it is fetched.
Open(t) ==
  /\ ~tab[t].open /\ opens < MaxOpens
  /\ opens' = opens + 1
  /\ tab' = [tab EXCEPT ![t] = Mount(@)]
  /\ crossed' = crossed \union FetchCrossing
  /\ UNCHANGED <<store, calls, mails, lessons, clicks, bodies, faults>>

\* The person leaves; calls go on, but no pending state is left of them.
Leave(t) ==
  /\ tab[t].open
  /\ tab' = [tab EXCEPT ![t] = Unmount(@)]
  /\ calls' = [k \in Slots |-> IF calls[k] # Free /\ calls[k].tab = t
                               THEN [calls[k] EXCEPT !.mine = FALSE] ELSE calls[k]]
  /\ UNCHANGED <<store, mails, lessons, clicks, crossed, bodies, opens, faults>>

\* GET …/draft: the handler reads the store, and the reply arrives later.
FetchServed(t) ==
  /\ tab[t].wire = "asked"
  /\ tab' = [tab EXCEPT ![t].wire = "answered", ![t].snap = store]
  /\ UNCHANGED <<store, calls, mails, lessons, clicks, crossed, bodies, opens, faults>>

FetchArrives(t) ==
  /\ tab[t].wire = "answered"
  /\ tab' = [tab EXCEPT ![t] =
       Show([@ EXCEPT !.wire = "none", !.snap = NoDraft], tab[t].snap)]
  /\ UNCHANGED <<store, calls, mails, lessons, clicks, crossed, bodies, opens, faults>>

\* "Try again" of the error pane.
Retry(t) ==
  /\ tab[t].open /\ tab[t].broken /\ tab[t].wire = "none"
  /\ tab' = [tab EXCEPT ![t].wire = "asked"]
  /\ crossed' = crossed \union FetchCrossing
  /\ UNCHANGED <<store, calls, mails, lessons, clicks, bodies, opens, faults>>

Edit(t) ==
  /\ Editing(tab[t]) /\ ~tab[t].text.edited
  /\ tab' = [tab EXCEPT ![t].text.edited = TRUE]
  /\ UNCHANGED <<store, calls, mails, lessons, clicks, crossed, bodies, opens, faults>>

-----------------------------------------------------------------------------
(* Drafting.                                                               *)

DraftCall(t, kind, turns) ==
  [kind |-> kind, tab |-> t, mine |-> TRUE, stage |-> "model", turns |-> turns,
   draft |-> NoDraft]

\* "Draft reply", or the effect that drafts once on opening.
Generate(t) ==
  /\ tab[t].open /\ tab[t].loaded /\ ~tab[t].broken
  /\ tab[t].view = NoDraft /\ tab[t].send # "ok"
  /\ ~Pending(t, "generate") /\ bodies < MaxBodies
  /\ bodies' = bodies + 1
  /\ Post(DraftCall(t, "generate", <<bodies + 1>>))
  /\ UNCHANGED <<store, tab, mails, lessons, clicks, opens, faults>>

RefineAlways(t) == \* mutant: the button does not wait for the pending refinement
  /\ Editing(tab[t]) /\ bodies < MaxBodies
  /\ store # NoDraft
  /\ bodies' = bodies + 1
  /\ \E k \in Slots : calls[k] = Free
       /\ calls' = [calls EXCEPT ![k] = DraftCall(t, "refine", Append(store.turns, bodies + 1))]
  /\ UNCHANGED <<store, tab, mails, lessons, clicks, crossed, opens, faults>>

RefineFromScreen(t) == \* mutant: only the body is replayed, not the transcript
  /\ Editing(tab[t]) /\ ~Pending(t, "refine") /\ bodies < MaxBodies
  /\ store # NoDraft
  /\ bodies' = bodies + 1
  /\ Post(DraftCall(t, "refine", <<tab[t].text.of, bodies + 1>>))
  /\ UNCHANGED <<store, tab, mails, lessons, clicks, opens, faults>>

\* The handler reads the transcript before it awaits Claude (404 without a draft).
Refine(t) ==
  /\ Editing(tab[t]) /\ ~Pending(t, "refine") /\ bodies < MaxBodies
  /\ store # NoDraft
  /\ bodies' = bodies + 1
  /\ Post(DraftCall(t, "refine", Append(store.turns, bodies + 1)))
  /\ UNCHANGED <<store, tab, mails, lessons, clicks, opens, faults>>

\* Claude answers: the draft is saved and its metadata is being recorded.
ModelReturns(k) ==
  /\ Drafting(k) /\ calls[k].stage = "model"
  /\ store' = SaveDraft(calls[k].turns)
  /\ calls' = [calls EXCEPT ![k].stage = "reply",
                            ![k].draft = SaveDraft(calls[k].turns)]
  /\ UNCHANGED <<tab, mails, lessons, clicks, crossed, bodies, opens, faults>>

ModelFails(k) ==
  /\ Drafting(k) /\ calls[k].stage = "model" /\ Fault
  /\ Done(k)
  /\ UNCHANGED <<store, tab, mails, lessons, clicks, crossed, bodies, opens>>

\* The metadata is recorded or not; the reply becomes the tab's draft.
DraftArrives(k) ==
  /\ Drafting(k) /\ calls[k].stage = "reply"
  /\ tab' = [tab EXCEPT ![calls[k].tab] = Show(@, calls[k].draft)]
  /\ Done(k)
  /\ UNCHANGED <<store, mails, lessons, clicks, crossed, bodies, opens, faults>>

-----------------------------------------------------------------------------
(* The manual send.                                                        *)

SendCall(t) ==
  [kind |-> "send", tab |-> t, mine |-> TRUE, stage |-> "look", click |-> Len(clicks) + 1,
   draft |-> NoDraft]

Clicked(t) == [text |-> tab[t].text, seen |-> BodyOf(tab[t].view), end |-> "open"]

Send(t) ==
  /\ Editing(tab[t]) /\ ~Pending(t, "send") /\ Len(clicks) < MaxClicks
  /\ Post(SendCall(t))
  /\ clicks' = Append(clicks, Clicked(t))
  /\ tab' = [tab EXCEPT ![t].send = "idle"]
  /\ UNCHANGED <<store, mails, lessons, bodies, opens, faults>>

At(k, stage) == Sending(k) /\ calls[k].stage = stage

\* The thread row is read for the addressee, then the mail is composed.
ThreadFound(k) ==
  /\ At(k, "look") /\ To(k, "transport")
  /\ UNCHANGED <<store, tab, mails, lessons, clicks, crossed, bodies, opens, faults>>

\* mutant: a transmission without an answer is repeated
TransmittedOrRepeated(k) ==
  /\ At(k, "transport")
  /\ \/ To(k, "file")
     \/ Len(mails) < 3 /\ To(k, "transport")
  /\ mails' = Append(mails, calls[k].click)
  /\ UNCHANGED <<store, tab, lessons, clicks, crossed, bodies, opens, faults>>

\* The SMTP server takes the mail.
Transmitted(k) ==
  /\ At(k, "transport") /\ To(k, "file")
  /\ mails' = Append(mails, calls[k].click)
  /\ UNCHANGED <<store, tab, lessons, clicks, crossed, bodies, opens, faults>>

\* The copy is appended to the Sent folder, if there is one.
Filed(k) ==
  /\ At(k, "file") /\ To(k, "move")
  /\ UNCHANGED <<store, tab, mails, lessons, clicks, crossed, bodies, opens, faults>>

Kept(k) == UNCHANGED store /\ To(k, "reply") \* mutant: the draft is not cleared

\* mutant: only the transcript is dropped
Emptied(k) == store' = [store EXCEPT !.turns = <<>>] /\ To(k, "reply")

Cleared(k) == store' = NoDraft /\ To(k, "reply")

Differs(text, draft) == text.edited \/ text.of # BodyOf(draft)

MovedLearningAlways(k) == \* mutant: what was sent as drafted is a lesson as well
  /\ At(k, "move")
  /\ IF store # NoDraft
       THEN /\ calls' = [calls EXCEPT ![k].stage = "learn", ![k].draft = store]
            /\ UNCHANGED store
       ELSE Cleared(k)
  /\ UNCHANGED <<tab, mails, lessons, clicks, crossed, bodies, opens, faults>>

\* The task was moved to waiting or not; then the draft is read for learning.
Moved(k) ==
  /\ At(k, "move")
  /\ IF store # NoDraft /\ Differs(clicks[calls[k].click].text, store)
       THEN /\ calls' = [calls EXCEPT ![k].stage = "learn", ![k].draft = store]
            /\ UNCHANGED store
       ELSE Cleared(k)
  /\ UNCHANGED <<tab, mails, lessons, clicks, crossed, bodies, opens, faults>>

\* Learning ends, with a lesson or with an error that is logged.
Learned(k) ==
  /\ At(k, "learn")
  /\ \/ lessons' = lessons \union {[draft |-> BodyOf(calls[k].draft), click |-> calls[k].click]}
     \/ UNCHANGED lessons
  /\ Cleared(k)
  /\ UNCHANGED <<tab, mails, clicks, crossed, bodies, opens, faults>>

Ends(k, how) == clicks' = [clicks EXCEPT ![calls[k].click].end = how]

\* The send failed before or after the mail was out (500), or the thread was
\* not found (404): the person reads of an error.
SendFails(k) ==
  /\ \E stage \in {"look", "transport", "file"} : At(k, stage)
  /\ Fault
  /\ mails' \in {mails} \union
       (IF At(k, "transport") THEN {Append(mails, calls[k].click)} ELSE {})
  /\ Ends(k, "error") /\ Done(k)
  /\ tab' = [tab EXCEPT ![calls[k].tab].send = IF calls[k].mine THEN "error" ELSE @]
  /\ UNCHANGED <<store, lessons, crossed, bodies, opens>>

SendArrivesKeeping(k) == \* mutant: the cached draft is not dropped
  /\ At(k, "reply")
  /\ tab' = [tab EXCEPT ![calls[k].tab].send = IF calls[k].mine THEN "ok" ELSE @]
  /\ Ends(k, "ok") /\ Done(k)
  /\ UNCHANGED <<store, mails, lessons, crossed, bodies, opens, faults>>

\* The reply reaches the tab.
SendArrives(k) ==
  /\ At(k, "reply")
  /\ tab' = [tab EXCEPT ![calls[k].tab] = Confirmed(@, calls[k].mine)]
  /\ Ends(k, "ok") /\ Done(k)
  /\ UNCHANGED <<store, mails, lessons, crossed, bodies, opens, faults>>

-----------------------------------------------------------------------------
\* The backend dies: no call is answered, and each tab reads of errors.
Crash ==
  /\ Fault
  /\ \E k \in Slots : calls[k] # Free
  /\ calls' = [k \in Slots |-> Free]
  /\ tab' = [t \in Tabs |->
       LET r == IF tab[t].wire = "none" THEN tab[t] ELSE Break(tab[t])
       IN [r EXCEPT !.send = IF Pending(t, "send") THEN "error" ELSE @]]
  /\ clicks' = [i \in DOMAIN clicks |->
       IF clicks[i].end = "open" THEN [clicks[i] EXCEPT !.end = "error"] ELSE clicks[i]]
  /\ crossed' = crossed \union
       {"lost" : k \in {s \in Slots : Drafting(s) /\ calls[s].stage = "reply"}}
  /\ UNCHANGED <<store, mails, lessons, bodies, opens>>

Handler(k) ==
  \/ ModelReturns(k) \/ DraftArrives(k)
  \/ ThreadFound(k) \/ Transmitted(k) \/ Filed(k) \/ Moved(k) \/ Learned(k) \/ SendArrives(k)

Person(t) == Open(t) \/ Leave(t) \/ Retry(t) \/ Edit(t) \/ Generate(t) \/ Refine(t) \/ Send(t)

Query(t) == FetchServed(t) \/ FetchArrives(t)

Next ==
  \/ \E t \in Tabs : Person(t) \/ Query(t)
  \/ \E k \in Slots : Handler(k) \/ ModelFails(k) \/ SendFails(k)
  \/ Crash

Spec == Init /\ [][Next]_vars

-----------------------------------------------------------------------------
Draft == [version : Nat, turns : Seq(Nat)]
Text == [of : Nat, edited : BOOLEAN]

\* The draft of a call is the one it has saved, or is going to compare.
DraftingCall ==
  [kind : {"generate", "refine"}, tab : Tabs, mine : BOOLEAN, stage : {"model", "reply"},
   turns : Seq(Nat), draft : Draft]
SendingCall ==
  [kind : {"send"}, tab : Tabs, mine : BOOLEAN, click : Nat, draft : Draft,
   stage : {"look", "transport", "file", "move", "learn", "reply"}]

TabState ==
  [open : BOOLEAN, loaded : BOOLEAN, view : Draft, wire : {"none", "asked", "answered"},
   snap : Draft, broken : BOOLEAN, shown : Nat, text : Text, send : {"idle", "ok", "error"}]

\* Types; the version of a draft counts the saves since it was last cleared,
\* and no call refers to a click nobody made.
TypeOK ==
  /\ store \in Draft
  /\ calls \in [Slots -> {Free} \union DraftingCall \union SendingCall]
  /\ tab \in [Tabs -> TabState]
  /\ mails \in Seq(Nat)
  /\ clicks \in Seq([text : Text, seen : Nat, end : {"open", "ok", "error"}])
  /\ \A k \in Slots : Sending(k) => calls[k].click \in 1..Len(clicks)
  /\ lessons \subseteq [draft : Nat, click : Nat]
  /\ (store = NoDraft) = (store.turns = <<>>)

\* Sending is manual (PROJECT.md, golden rule 1): whatever fails, each click on
\* Send puts at most one mail on its way, and no mail goes out without one.
OneMailPerClick ==
  /\ \A i, j \in DOMAIN mails : mails[i] = mails[j] => i = j
  /\ \A i \in DOMAIN mails : mails[i] \in DOMAIN clicks

\* A reply that was sent, and confirmed to have been, is not sent again: its
\* draft is gone from the store and from the pane.  (A fetch of the draft that
\* was on its way may bring it back, and the other tab still shows it.)
SentOnce ==
  (\A t, u \in Tabs : t = u) /\ "fetch" \notin crossed =>
    \A i, j \in DOMAIN mails :
      i < j /\ clicks[mails[i]].text.of = clicks[mails[j]].text.of
        => clicks[mails[i]].end # "ok"

\* The draft that was sent is not left in the store: nothing but a drafting
\* call that crossed the send keeps its conversation alive.
SentDraftIsGone ==
  "send/draft" \notin crossed =>
    \A i \in DOMAIN clicks :
      clicks[i].end = "ok" => \A n \in DOMAIN store.turns : store.turns[n] # clicks[i].text.of

\* A lesson compares what was sent with the draft the person had on the screen.
LessonIsAboutTheEdit ==
  crossed = {} =>
    \A l \in lessons : l.draft = clicks[l.click].seen /\ Differs(clicks[l.click].text, [turns |-> <<l.draft>>])

\* The editor is re-seeded whenever a new version arrives (draft-pane.tsx:119):
\* what the person has not touched is the draft the tab holds.  Does not hold, as
\* the version is all it looks at: EditorShowsDraft says when it does.
EditorFollows ==
  \A t \in Tabs :
    Editing(tab[t]) /\ ~tab[t].text.edited => tab[t].text.of = BodyOf(tab[t].view)

\* It does, as long as no drafting call and no fetch crosses another call:
\* after a send the versions start at 1 again, and an editor that is still on
\* the screen cannot tell two drafts with one number.
EditorShowsDraft == crossed \subseteq {"draft/draft", "send/send", "lost"} => EditorFollows

\* No turn of the conversation is lost: a save extends what it replaces, as
\* long as no two drafting calls of the thread were in flight together and the
\* tab knew of the draft (no reply was lost, no older fetch came after it).
TurnsSurvive ==
  [][/\ crossed \intersect {"draft/draft", "lost", "fetch"} = {} /\ store # NoDraft
     /\ store' # store /\ store' # NoDraft
     => IsStrictPrefix(store.turns, store'.turns)]_vars

\* A draft is discarded only once its latest body was put on its way.
ClearedWasSent ==
  [][/\ crossed \intersect {"send/draft", "fetch", "lost"} = {} /\ store # NoDraft /\ store' = NoDraft
     => \E i \in DOMAIN mails : clicks[mails[i]].text.of = BodyOf(store)]_vars
=============================================================================
