-------------------------- MODULE WorkSurface_proofs --------------------------
(***************************************************************************)
(* Proofs about WorkSurface, for any calls, bodies, clicks, openings and   *)
(* faults: the types, that a click sends one mail, and with one tab that a *)
(* confirmed reply is not sent again, that a lesson is about what the      *)
(* person edited, that the editor shows the draft, and that no turn of the *)
(* conversation is lost.                                                   *)
(***************************************************************************)
EXTENDS WorkSurface, TLAPS

\* A draft that was saved, and a row of the drafts database.
Real == [version : Nat \ {0}, turns : Seq(Nat) \ {<<>>}]
Row == {NoDraft} \cup Real

Click == [text : Text, seen : Nat, end : {"open", "ok", "error"}]

\* A call in flight, when n clicks were made: what it carries at its stage.
CallSet(n) ==
  {Free}
  \cup {c \in DraftingCall :
          /\ c.turns # <<>>
          /\ c.stage = "reply" => c.draft \in Real /\ c.draft.turns = c.turns}
  \cup {c \in SendingCall : c.click \in 1..n /\ (c.stage = "learn" => c.draft \in Real)}

\* A tab: what is in the editor came from the draft of its query.
TabSet ==
  {r \in TabState :
     /\ r.view \in Row /\ r.snap \in Row
     /\ r.shown > 0 => /\ r.open /\ r.loaded /\ ~r.broken
                       /\ r.view \in Real /\ r.send # "ok"}

\* The types the argument needs.
Typed ==
  /\ store \in Row /\ bodies \in Nat
  /\ clicks \in Seq(Click)
  /\ calls \in [Slots -> CallSet(Len(clicks))]
  /\ tab \in [Tabs -> TabSet]
  /\ mails \in Seq(1..Len(clicks))
  /\ lessons \subseteq [draft : Nat, click : 1..Len(clicks)]

-----------------------------------------------------------------------------
(* Drafts, calls and tabs as data.                                         *)

\* What a call is follows from its kind.
LEMMA Kinds ==
  ASSUME NEW n \in Nat, NEW c \in CallSet(n)
  PROVE  /\ c.kind \in {"generate", "refine"} <=> c \in DraftingCall
         /\ c.kind = "send" <=> c \in SendingCall
         /\ c = Free <=> c.kind = "free"
         /\ c # Free => c.tab \in Tabs /\ c.mine \in BOOLEAN
         /\ c \in DraftingCall => c.turns \in Seq(Nat) /\ c.turns # <<>> /\ c # Free
         /\ c \in SendingCall => c.click \in 1..n /\ c # Free
         /\ c \in DraftingCall \/ c \in SendingCall \/ c = Free
BY DEF CallSet, DraftingCall, SendingCall, Free

\* A saved draft is none that is missing, and has a body.
LEMMA Saved ==
  ASSUME NEW d \in Real
  PROVE  /\ d # NoDraft /\ d.version > 0 /\ d.version \in Nat
         /\ BodyOf(d) \in Nat /\ d.turns \in Seq(Nat) /\ Len(d.turns) > 0
BY DEF Real, NoDraft, BodyOf, Last

\* Every row is a draft; the empty one and the empty text have their types too.
LEMMA Rows == Row \subseteq Draft /\ NoDraft \in Row /\ NoText \in Text
<1>1. <<>> \in Seq(Nat) /\ 0 \in Nat
  OBVIOUS
<1>2. NoDraft \in Draft
  BY <1>1 DEF NoDraft, Draft
<1>3. Real \subseteq Draft
  BY DEF Real, Draft
<1>4. NoText \in Text
  BY DEF NoText, Text
<1> QED
  BY <1>2, <1>3, <1>4 DEF Row

\* More clicks leave every call what it is.
LEMMA CallsGrow ==
  ASSUME NEW n \in Nat, NEW m \in Nat, n <= m
  PROVE  CallSet(n) \subseteq CallSet(m)
BY DEF CallSet

\* The bodies a row holds, and those a tab has before the person or on the wire.
BodiesIn(d) == IF d = NoDraft THEN {} ELSE {BodyOf(d)}
Screen(r) ==
  BodiesIn(r.view)
  \cup (IF r.wire = "answered" THEN BodiesIn(r.snap) ELSE {})
  \cup (IF r.shown > 0 THEN {r.text.of} ELSE {})

\* The editor shows the version of the draft and, until the person edits it, its body.
Follows(r) ==
  Editing(r) => /\ r.shown = r.view.version
                /\ ~r.text.edited => r.text.of = BodyOf(r.view)

\* Two rows with one number are one draft.
Same(d, e) == d # NoDraft /\ e # NoDraft /\ d.version = e.version => BodyOf(d) = BodyOf(e)

\* A tab takes the value v of its query: nothing but v's body is new on the
\* screen, and an editor that followed an equal draft follows v.
LEMMA Showing ==
  ASSUME NEW r \in TabSet, NEW v \in Row
  PROVE  /\ Show(r, v) \in TabSet
         /\ Show(r, v).open = r.open /\ Show(r, v).wire = r.wire
         /\ Show(r, v).snap = r.snap /\ Show(r, v).send = r.send
         /\ Show(r, v).view = v /\ Show(r, v).loaded /\ ~Show(r, v).broken
         /\ v = NoDraft => Show(r, v).shown = 0
         /\ Screen(Show(r, v)) \subseteq Screen(r) \cup BodiesIn(v)
         /\ Follows(r) /\ Same(r.view, v) => Follows(Show(r, v))
<1> DEFINE seen == [r EXCEPT !.loaded = TRUE, !.broken = FALSE, !.view = v]
           bare == [seen EXCEPT !.shown = 0, !.text = NoText]
           seeded == [seen EXCEPT !.shown = v.version,
                                  !.text = [of |-> BodyOf(v), edited |-> FALSE]]
<1>1. r \in TabState /\ r.shown \in Nat /\ r.text \in Text
  BY DEF TabSet, TabState
<1>2. v = NoDraft \/ (v \in Real /\ v # NoDraft /\ v.version > 0 /\ v.version \in Nat /\ BodyOf(v) \in Nat)
  BY Saved DEF Row
<1>3. v \in Draft
  BY Rows
<1>4. seen \in TabState /\ NoText \in Text /\ [of |-> BodyOf(v), edited |-> FALSE] \in [of : {BodyOf(v)}, edited : BOOLEAN]
  BY <1>1, <1>3 DEF TabState, Text, NoText
<1>5. CASE ~r.open \/ r.send = "ok" \/ v = NoDraft
  <2>1. Show(r, v) = bare
    BY <1>5 DEF Show
  <2>2. bare \in TabState
    BY <1>4 DEF TabState
  <2>6. /\ bare.open = r.open /\ bare.wire = r.wire /\ bare.snap = r.snap
        /\ bare.send = r.send /\ bare.view = v /\ bare.loaded /\ ~bare.broken /\ bare.shown = 0
    BY <1>1 DEF TabState
  <2>3. bare \in TabSet
    <3>1. ~(bare.shown > 0) /\ bare.view \in Row /\ r.snap \in Row
      BY <2>6 DEF TabSet
    <3> QED
      BY <2>2, <2>6, <3>1 DEF TabSet
  <2>4. Screen(bare) \subseteq Screen(r) \cup BodiesIn(v)
    BY <1>1 DEF Screen, TabState
  <2>5. Follows(bare)
    BY <1>1 DEF Follows, Editing, TabState
  <2> HIDE DEF bare
  <2> QED
    BY <2>1, <2>3, <2>4, <2>5, <2>6
<1>6. CASE ~(~r.open \/ r.send = "ok" \/ v = NoDraft) /\ r.shown = v.version
  <2>1. Show(r, v) = seen
    BY <1>6 DEF Show
  <2>2. v \in Real /\ r.shown > 0
    BY <1>2, <1>6
  <2>3. seen \in TabSet
    BY <1>1, <1>4, <1>6, <2>2 DEF TabSet, TabState, Row
  <2>4. r.view \in Real /\ r.view # NoDraft
    BY <2>2, Saved DEF TabSet
  <2>5. Screen(seen) \subseteq Screen(r) \cup BodiesIn(v)
    BY <1>1, <2>2 DEF Screen, BodiesIn, TabState
  <2>6. Follows(r) /\ Same(r.view, v) => Follows(seen)
    BY <1>1, <1>6, <2>2, <2>4 DEF Follows, Same, Editing, TabState
  <2> QED
    BY <1>1, <1>6, <2>1, <2>3, <2>5, <2>6 DEF TabState
<1>7. CASE ~(~r.open \/ r.send = "ok" \/ v = NoDraft) /\ r.shown # v.version
  <2>1. Show(r, v) = seeded
    BY <1>7 DEF Show
  <2>2. v \in Real /\ v # NoDraft /\ v.version \in Nat /\ BodyOf(v) \in Nat
    BY <1>2, <1>7
  <2>3. seeded \in TabState
    BY <1>1, <1>4, <2>2 DEF TabState, Text
  <2>4. seeded \in TabSet
    BY <1>1, <1>7, <2>2, <2>3 DEF TabSet, TabState, Row
  <2>5. Screen(seeded) \subseteq Screen(r) \cup BodiesIn(v)
    BY <1>1, <2>2 DEF Screen, BodiesIn, TabState
  <2>6. Follows(seeded)
    BY <1>1, <1>7, <2>2 DEF Follows, Editing, TabState
  <2> QED
    BY <1>1, <1>7, <2>1, <2>2, <2>4, <2>5, <2>6 DEF TabState
<1> QED
  BY <1>5, <1>6, <1>7

\* The error pane, and leaving, take the editor away and nothing else.
LEMMA Hiding ==
  ASSUME NEW r \in TabSet
  PROVE  /\ Break(r) \in TabSet /\ Unmount(r) \in TabSet
         /\ Screen(Break(r)) \subseteq Screen(r) /\ Screen(Unmount(r)) \subseteq Screen(r)
         /\ Follows(Break(r)) /\ Follows(Unmount(r))
         /\ Break(r).view = r.view /\ Break(r).open = r.open /\ Break(r).send = r.send
         /\ Break(r).wire = "none" /\ Break(r).broken /\ Break(r).shown = 0
         /\ Unmount(r).view = r.view /\ Unmount(r).wire = r.wire
         /\ Unmount(r).snap = r.snap /\ ~Unmount(r).open
<1>1. NoText \in Text
  BY Rows
<1>2. Break(r) \in TabState /\ Unmount(r) \in TabState
  BY <1>1 DEF Break, Unmount, TabSet, TabState
<1>4. r \in TabState
  BY DEF TabSet
<1>5. /\ Break(r).view = r.view /\ Break(r).open = r.open /\ Break(r).send = r.send
      /\ Break(r).wire = "none" /\ Break(r).broken /\ Break(r).shown = 0
  BY <1>4 DEF Break, TabState
<1>6. /\ Unmount(r).view = r.view /\ Unmount(r).wire = r.wire /\ Unmount(r).shown = 0
      /\ Unmount(r).snap = r.snap /\ ~Unmount(r).open
  BY <1>4 DEF Unmount, TabState
<1>3. Break(r) \in TabSet /\ Unmount(r) \in TabSet
  <2>1. ~(Break(r).shown > 0) /\ ~(Unmount(r).shown > 0)
    BY <1>5, <1>6
  <2>2. Break(r).snap = r.snap /\ r.snap \in Row /\ r.view \in Row
    BY <1>4 DEF Break, TabSet, TabState
  <2> QED
    BY <1>2, <1>5, <1>6, <2>1, <2>2 DEF TabSet
<1>7. Screen(Break(r)) \subseteq Screen(r) /\ Follows(Break(r))
  BY <1>5 DEF Screen, Follows, Editing
<1>8. Screen(Unmount(r)) \subseteq Screen(r) /\ Follows(Unmount(r))
  BY <1>6 DEF Screen, Follows, Editing
<1> QED
  BY <1>3, <1>5, <1>6, <1>7, <1>8

\* Opening asks for the draft, unless a fetch is on its way, and shows the one
\* the query still has.
LEMMA Mounting ==
  ASSUME NEW r \in TabSet, ~r.open
  PROVE  /\ Mount(r) \in TabSet
         /\ Mount(r).open /\ Mount(r).wire # "none"
         /\ Mount(r).view = r.view /\ Mount(r).snap = r.snap
         /\ Mount(r).wire = "answered" => r.wire = "answered"
         /\ Screen(Mount(r)) \subseteq Screen(r)
         /\ Follows(Mount(r))
<1> DEFINE fresh == [r EXCEPT !.open = TRUE, !.send = "idle",
                              !.wire = IF r.wire = "none" THEN "asked" ELSE r.wire]
<1>1. fresh \in TabSet /\ fresh.view = r.view /\ fresh.snap = r.snap /\ fresh.open
  BY DEF TabSet, TabState
<1>2. fresh.wire # "none" /\ (fresh.wire = "answered" => r.wire = "answered") /\ fresh.shown = 0
  BY DEF TabSet, TabState
<1>3. Screen(fresh) \subseteq Screen(r) /\ BodiesIn(r.view) \subseteq Screen(r) /\ Follows(fresh)
  BY <1>1, <1>2 DEF Screen, Follows, Editing, TabSet, TabState
<1>4. r.view \in Row
  BY DEF TabSet
<1>8. Mount(r) = IF r.loaded /\ ~r.broken THEN Show(fresh, r.view) ELSE fresh
  BY DEF Mount
<1> HIDE DEF fresh
<1> DEFINE shown == Show(fresh, r.view)
<1>5. /\ shown \in TabSet /\ shown.open /\ shown.wire = fresh.wire /\ shown.snap = fresh.snap
      /\ shown.view = r.view /\ Screen(shown) \subseteq Screen(fresh) \cup BodiesIn(r.view)
      /\ Follows(fresh) /\ Same(fresh.view, r.view) => Follows(shown)
  BY <1>1, <1>4, Showing
<1>6. Follows(shown) /\ Screen(shown) \subseteq Screen(r)
  BY <1>1, <1>3, <1>5 DEF Same
<1> QED
  BY <1>1, <1>2, <1>3, <1>5, <1>6, <1>8

\* e is the call c, later.
SameCall(c, e) ==
  /\ c # Free /\ e # Free
  /\ e.kind = c.kind /\ e.tab = c.tab /\ (e.mine => c.mine)
  /\ c.kind = "send" => e.click = c.click
  /\ c.kind \in {"generate", "refine"} => e.turns = c.turns

Staged(c, s) == [c EXCEPT !.stage = s]
Learning(c, d) == [c EXCEPT !.stage = "learn", !.draft = d]
Served(c, d) == [c EXCEPT !.stage = "reply", !.draft = d]
Abandoned(c) == [c EXCEPT !.mine = FALSE]

\* A call that goes on to another stage stays the call it is.
LEMMA Advancing ==
  ASSUME NEW n \in Nat, NEW c \in CallSet(n), c.kind = "send",
         NEW s \in {"transport", "file", "move", "reply"}
  PROVE  /\ Staged(c, s) \in CallSet(n) /\ SameCall(c, Staged(c, s))
         /\ Staged(c, s).stage = s /\ Staged(c, s).mine = c.mine
<1>1. c \in SendingCall /\ c.click \in 1..n
  BY Kinds
<1> DEFINE e == [c EXCEPT !.stage = s]
<1>2. e \in SendingCall /\ e.click = c.click /\ e.stage = s /\ e.stage # "learn"
  BY <1>1 DEF SendingCall
<1>3. e \in CallSet(n)
  BY <1>1, <1>2 DEF CallSet
<1>4. e.tab = c.tab /\ e.mine = c.mine /\ e.kind = "send"
  BY <1>1 DEF SendingCall
<1> HIDE DEF e
<1>5. c # Free /\ e # Free
  BY <1>1, <1>2, <1>3, Kinds
<1>6. SameCall(c, e)
  BY <1>2, <1>4, <1>5 DEF SameCall
<1> QED
  BY <1>2, <1>3, <1>4, <1>6 DEF e, Staged

\* A send that is going to learn holds the draft it compares.
LEMMA Comparing ==
  ASSUME NEW n \in Nat, NEW c \in CallSet(n), c.kind = "send", NEW d \in Real
  PROVE  /\ Learning(c, d) \in CallSet(n) /\ SameCall(c, Learning(c, d))
         /\ Learning(c, d).stage = "learn" /\ Learning(c, d).mine = c.mine
         /\ Learning(c, d).draft = d
<1>1. c \in SendingCall /\ c.click \in 1..n
  BY Kinds
<1>2. d \in Draft
  BY DEF Real, Draft
<1> DEFINE e == [c EXCEPT !.stage = "learn", !.draft = d]
<1>3. e \in SendingCall /\ e.click = c.click /\ e.draft = d
  BY <1>1, <1>2 DEF SendingCall
<1>4. e \in CallSet(n)
  BY <1>1, <1>3 DEF CallSet
<1>5. e.tab = c.tab /\ e.mine = c.mine /\ e.kind = "send" /\ e.stage = "learn"
  BY <1>1 DEF SendingCall
<1> HIDE DEF e
<1>6. c # Free /\ e # Free
  BY <1>1, <1>3, <1>4, Kinds
<1>7. SameCall(c, e)
  BY <1>3, <1>5, <1>6 DEF SameCall
<1> QED
  BY <1>3, <1>4, <1>5, <1>7 DEF e, Learning

\* A drafting call whose model answered holds the draft it saved.
LEMMA Answering ==
  ASSUME NEW n \in Nat, NEW c \in CallSet(n), c.kind \in {"generate", "refine"},
         NEW d \in Real, d.turns = c.turns
  PROVE  /\ Served(c, d) \in CallSet(n) /\ SameCall(c, Served(c, d))
         /\ Served(c, d).stage = "reply" /\ Served(c, d).mine = c.mine
         /\ Served(c, d).draft = d
<1>1. c \in DraftingCall /\ c.turns # <<>>
  BY Kinds
<1>2. d \in Draft
  BY DEF Real, Draft
<1> DEFINE e == [c EXCEPT !.stage = "reply", !.draft = d]
<1>3. e \in DraftingCall /\ e.turns = c.turns /\ e.draft = d
  BY <1>1, <1>2 DEF DraftingCall
<1>4. e \in CallSet(n)
  BY <1>1, <1>3 DEF CallSet
<1>5. e.tab = c.tab /\ e.mine = c.mine /\ e.kind = c.kind /\ e.stage = "reply"
  BY <1>1 DEF DraftingCall
<1> HIDE DEF e
<1>6. c # Free /\ e # Free
  BY <1>1, <1>3, <1>4, Kinds
<1>7. SameCall(c, e)
  BY <1>3, <1>5, <1>6 DEF SameCall
<1> QED
  BY <1>3, <1>4, <1>5, <1>7 DEF e, Served

\* A call nobody waits for any more is the same call otherwise.
LEMMA Abandoning ==
  ASSUME NEW n \in Nat, NEW c \in CallSet(n), c # Free
  PROVE  /\ Abandoned(c) \in CallSet(n) /\ SameCall(c, Abandoned(c))
         /\ Abandoned(c).stage = c.stage /\ Abandoned(c).mine = FALSE
         /\ Abandoned(c).draft = c.draft
<1> DEFINE e == [c EXCEPT !.mine = FALSE]
<1>1. ASSUME c \in DraftingCall
      PROVE  /\ e \in CallSet(n) /\ SameCall(c, e) /\ e.stage = c.stage /\ e.mine = FALSE
             /\ e.draft = c.draft
  <2>1. /\ e \in DraftingCall /\ e.turns = c.turns /\ e.draft = c.draft /\ e.stage = c.stage
        /\ e.kind = c.kind /\ e.tab = c.tab /\ e.mine = FALSE
    BY <1>1 DEF DraftingCall
  <2>2. e \in CallSet(n)
    BY <1>1, <2>1, Kinds DEF CallSet
  <2> HIDE DEF e
  <2>3. e # Free
    BY <2>1, <2>2, Kinds
  <2>4. c.kind # "send"
    BY <1>1 DEF DraftingCall
  <2> QED
    BY <2>1, <2>2, <2>3, <2>4 DEF SameCall
<1>2. ASSUME c \in SendingCall
      PROVE  /\ e \in CallSet(n) /\ SameCall(c, e) /\ e.stage = c.stage /\ e.mine = FALSE
             /\ e.draft = c.draft
  <2>1. /\ e \in SendingCall /\ e.click = c.click /\ e.draft = c.draft /\ e.stage = c.stage
        /\ e.kind = c.kind /\ e.tab = c.tab /\ e.mine = FALSE
    BY <1>2 DEF SendingCall
  <2>2. e \in CallSet(n)
    BY <1>2, <2>1, Kinds DEF CallSet
  <2> HIDE DEF e
  <2>3. e # Free
    BY <2>1, <2>2, Kinds
  <2>4. c.kind = "send"
    BY <1>2 DEF SendingCall
  <2> QED
    BY <2>1, <2>2, <2>3, <2>4 DEF SameCall
<1> HIDE DEF e
<1> QED
  BY <1>1, <1>2, Kinds DEF e, Abandoned

\* A save counts on from the version that is stored.
LEMMA Saving ==
  ASSUME Typed, NEW turns \in Seq(Nat), turns # <<>>
  PROVE  /\ SaveDraft(turns) \in Real
         /\ SaveDraft(turns).version = store.version + 1 /\ SaveDraft(turns).turns = turns
<1>1. store.version \in Nat
  BY DEF Typed, Row, Real, NoDraft
<1> QED
  BY <1>1 DEF SaveDraft, Real

\* The calls a person starts.
LEMMA Starting ==
  ASSUME NEW t \in Tabs, NEW n \in Nat
  PROVE  /\ \A kind \in {"generate", "refine"}, turns \in Seq(Nat) \ {<<>>} :
              DraftCall(t, kind, turns) \in CallSet(n)
         /\ Len(clicks) + 1 = n => SendCall(t) \in CallSet(n)
<1>1. NoDraft \in Draft
  BY Rows
<1>2. ASSUME NEW kind \in {"generate", "refine"}, NEW turns \in Seq(Nat) \ {<<>>}
      PROVE  DraftCall(t, kind, turns) \in CallSet(n)
  BY <1>1 DEF DraftCall, CallSet, DraftingCall
<1>3. ASSUME Len(clicks) + 1 = n
      PROVE  SendCall(t) \in CallSet(n)
  BY <1>1, <1>3 DEF SendCall, CallSet, SendingCall
<1> QED
  BY <1>2, <1>3

-----------------------------------------------------------------------------
(* Types.                                                                  *)

LEMMA SeqGrows ==
  ASSUME NEW S, NEW T, S \subseteq T
  PROVE  Seq(S) \subseteq Seq(T)
<1> SUFFICES ASSUME NEW s \in Seq(S)
             PROVE  s \in Seq(T)
  OBVIOUS
<1>1. s = [i \in 1..Len(s) |-> s[i]] /\ Len(s) \in Nat
  OBVIOUS
<1>2. \A i \in 1..Len(s) : s[i] \in T
  OBVIOUS
<1> QED
  BY <1>1, <1>2

\* A call that is posted takes a free slot, and is the only one that is new.
LEMMA Posting ==
  ASSUME Typed, NEW n \in Nat, NEW call \in CallSet(n), Post(call), Len(clicks) <= n
  PROVE  /\ \E k \in Slots : calls[k] = Free /\ calls' = [calls EXCEPT ![k] = call]
         /\ calls' \in [Slots -> CallSet(n)]
         /\ crossed' = crossed \union Crossings(call.kind)
<1>1. CallSet(Len(clicks)) \subseteq CallSet(n)
  BY CallsGrow DEF Typed
<1> QED
  BY <1>1 DEF Post, Typed

\* A click on Send is made in an editor that is on the screen.
LEMMA Clicking ==
  ASSUME Typed, NEW t \in Tabs, Editing(tab[t])
  PROVE  /\ Clicked(t) \in Click /\ Clicked(t).text = tab[t].text
         /\ Clicked(t).seen = BodyOf(tab[t].view) /\ Clicked(t).end = "open"
         /\ tab[t].view \in Real /\ tab[t].send # "ok"
<1>1. tab[t] \in TabSet
  BY DEF Typed
<1>2. tab[t].view \in Real /\ tab[t].text \in Text /\ tab[t].send # "ok"
  BY <1>1 DEF Editing, TabSet, TabState
<1> QED
  BY <1>2, Saved DEF Clicked, Click

\* What the backend's death leaves of a tab.
Survivor(r, failed) ==
  LET s == IF r.wire = "none" THEN r ELSE Break(r)
  IN [s EXCEPT !.send = IF failed THEN "error" ELSE @]

LEMMA Surviving ==
  ASSUME NEW r \in TabSet, NEW failed \in BOOLEAN
  PROVE  LET s == Survivor(r, failed)
         IN /\ s \in TabSet /\ s.wire = "none" /\ s.view = r.view /\ s.open = r.open
            /\ s.send = (IF failed THEN "error" ELSE r.send)
            /\ r.wire # "none" => s.broken
            /\ r.wire = "none" => s.broken = r.broken /\ s.loaded = r.loaded
            /\ Screen(s) \subseteq Screen(r)
            /\ Follows(r) => Follows(s)
<1> DEFINE u == IF r.wire = "none" THEN r ELSE Break(r)
<1>1. /\ u \in TabSet /\ u.view = r.view /\ u.wire = "none" /\ u.open = r.open /\ u.send = r.send
      /\ r.wire # "none" => u.broken
      /\ r.wire = "none" => u.broken = r.broken /\ u.loaded = r.loaded
      /\ Screen(u) \subseteq Screen(r) /\ (Follows(r) => Follows(u))
  BY Hiding
<1> HIDE DEF u
<1> DEFINE s == [u EXCEPT !.send = IF failed THEN "error" ELSE @]
<1>2. u \in TabState
  BY <1>1 DEF TabSet
<1>3. /\ s \in TabState
      /\ s.wire = u.wire /\ s.view = u.view /\ s.snap = u.snap /\ s.open = u.open
      /\ s.send = (IF failed THEN "error" ELSE u.send)
      /\ s.loaded = u.loaded /\ s.broken = u.broken /\ s.shown = u.shown /\ s.text = u.text
  BY <1>2 DEF TabState
<1>4. s \in TabSet
  <2>1. /\ u.view \in Row /\ u.snap \in Row
        /\ u.shown > 0 => u.open /\ u.loaded /\ ~u.broken /\ u.view \in Real /\ u.send # "ok"
    BY <1>1 DEF TabSet
  <2>2. u.shown > 0 => s.send # "ok"
    BY <1>3, <2>1
  <2>3. /\ s.view \in Row /\ s.snap \in Row
        /\ s.shown > 0 => s.open /\ s.loaded /\ ~s.broken /\ s.view \in Real /\ s.send # "ok"
    BY <1>3, <2>1, <2>2
  <2> HIDE DEF s
  <2> QED
    BY <1>3, <2>3 DEF TabSet
<1>5. Screen(s) = Screen(u) /\ (Follows(u) => Follows(s))
  BY <1>3 DEF Screen, Follows, Editing
<1>6. Survivor(r, failed) = s
  BY DEF Survivor, u
<1> QED
  BY <1>1, <1>3, <1>4, <1>5, <1>6

Wired(r, w, d) == [r EXCEPT !.wire = w, !.snap = d]
Asked(r) == [r EXCEPT !.wire = "asked"]

\* A fetch that is asked for, served or taken off the wire shows nothing by itself.
LEMMA Fetching ==
  ASSUME NEW r \in TabSet, NEW w \in {"none", "asked", "answered"}, NEW d \in Row
  PROVE  /\ Wired(r, w, d) \in TabSet /\ Wired(r, w, d).wire = w /\ Wired(r, w, d).snap = d
         /\ Wired(r, w, d).view = r.view /\ Wired(r, w, d).open = r.open /\ Wired(r, w, d).send = r.send
         /\ Wired(r, w, d).loaded = r.loaded /\ Wired(r, w, d).broken = r.broken
         /\ Screen(Wired(r, w, d)) \subseteq Screen(r) \cup (IF w = "answered" THEN BodiesIn(d) ELSE {})
         /\ Follows(r) => Follows(Wired(r, w, d))
         /\ Asked(r) \in TabSet /\ Asked(r).wire = "asked" /\ Asked(r).snap = r.snap
         /\ Asked(r).view = r.view /\ Asked(r).open = r.open /\ Asked(r).send = r.send
         /\ Screen(Asked(r)) \subseteq Screen(r)
         /\ Follows(r) => Follows(Asked(r))
<1> DEFINE e == [r EXCEPT !.wire = w, !.snap = d]
           f == [r EXCEPT !.wire = "asked"]
<1>1. r \in TabState /\ d \in Draft
  <2>1. r \in TabState
    BY DEF TabSet
  <2> QED
    BY <2>1, Rows
<1>2. /\ e \in TabState /\ e.wire = w /\ e.snap = d /\ e.view = r.view /\ e.open = r.open
      /\ e.send = r.send /\ e.loaded = r.loaded /\ e.broken = r.broken
      /\ e.shown = r.shown /\ e.text = r.text
  BY <1>1 DEF TabState
<1>3. /\ f \in TabState /\ f.wire = "asked" /\ f.snap = r.snap /\ f.view = r.view
      /\ f.open = r.open /\ f.send = r.send /\ f.loaded = r.loaded /\ f.broken = r.broken
      /\ f.shown = r.shown /\ f.text = r.text
  BY <1>1 DEF TabState
<1> HIDE DEF e, f
<1>4. e \in TabSet /\ f \in TabSet
  BY <1>2, <1>3 DEF TabSet
<1>5. Screen(e) \subseteq Screen(r) \cup (IF w = "answered" THEN BodiesIn(d) ELSE {})
  BY <1>2 DEF Screen
<1>6. Screen(f) \subseteq Screen(r)
  BY <1>3 DEF Screen
<1>7. Follows(r) => Follows(e) /\ Follows(f)
  BY <1>2, <1>3 DEF Follows, Editing
<1> QED
  BY <1>2, <1>3, <1>4, <1>5, <1>6, <1>7 DEF e, f, Wired, Asked

\* What the person types, and what the send button reads, is no other draft.
LEMMA Touching ==
  ASSUME NEW r \in TabSet, NEW s \in {"idle", "error"}
  PROVE  LET e == [r EXCEPT !.text.edited = TRUE]
             f == [r EXCEPT !.send = s]
         IN /\ e \in TabSet /\ e.wire = r.wire /\ e.snap = r.snap /\ e.view = r.view
            /\ e.open = r.open /\ e.send = r.send /\ e.loaded = r.loaded /\ e.broken = r.broken
            /\ Screen(e) \subseteq Screen(r) /\ (Follows(r) => Follows(e))
            /\ f \in TabSet /\ f.wire = r.wire /\ f.snap = r.snap /\ f.view = r.view
            /\ f.open = r.open /\ f.send = s /\ f.loaded = r.loaded /\ f.broken = r.broken
            /\ Screen(f) \subseteq Screen(r) /\ (Follows(r) => Follows(f))
<1> DEFINE e == [r EXCEPT !.text.edited = TRUE]
           f == [r EXCEPT !.send = s]
<1>1. r \in TabState /\ r.text \in Text
  BY DEF TabSet, TabState
<1>2. /\ e.wire = r.wire /\ e.snap = r.snap /\ e.view = r.view /\ e.open = r.open
      /\ e.send = r.send /\ e.loaded = r.loaded /\ e.broken = r.broken
      /\ e.shown = r.shown /\ e.text.of = r.text.of /\ e.text.edited
  BY <1>1 DEF TabState, Text
<1>3. e \in TabState
  BY <1>1 DEF TabState, Text
<1>4. /\ f \in TabState /\ f.wire = r.wire /\ f.snap = r.snap /\ f.view = r.view
      /\ f.open = r.open /\ f.send = s /\ f.loaded = r.loaded /\ f.broken = r.broken
      /\ f.shown = r.shown /\ f.text = r.text
  BY <1>1 DEF TabState
<1> HIDE DEF e, f
<1>5. e \in TabSet /\ f \in TabSet
  BY <1>2, <1>3, <1>4 DEF TabSet
<1>6. Screen(e) \subseteq Screen(r) /\ Screen(f) \subseteq Screen(r)
  BY <1>2, <1>4 DEF Screen
<1>7. Follows(r) => Follows(e) /\ Follows(f)
  BY <1>2, <1>4 DEF Follows, Editing
<1> QED
  BY <1>2, <1>4, <1>5, <1>6, <1>7 DEF e, f

\* The reply to a send takes the draft off the screen.
LEMMA Confirming ==
  ASSUME NEW r \in TabSet, NEW sent \in {"idle", "ok", "error"}
  PROVE  LET s == Show([r EXCEPT !.send = sent], NoDraft)
         IN /\ s \in TabSet /\ s.view = NoDraft /\ s.shown = 0
            /\ s.wire = r.wire /\ s.snap = r.snap /\ s.open = r.open /\ s.send = sent
            /\ Screen(s) \subseteq Screen(r)
            /\ Follows(s)
<1> DEFINE u == [r EXCEPT !.send = sent]
           s == [[u EXCEPT !.loaded = TRUE, !.broken = FALSE, !.view = NoDraft]
                   EXCEPT !.shown = 0, !.text = NoText]
<1>1. r \in TabState /\ r.snap \in Row
  BY DEF TabSet
<1>2. NoText \in Text /\ NoDraft \in Draft
  BY Rows
<1>3. Show(u, NoDraft) = s
  BY DEF Show
<1>4. /\ s \in TabState /\ s.view = NoDraft /\ s.shown = 0
      /\ s.wire = r.wire /\ s.snap = r.snap /\ s.open = r.open /\ s.send = sent
  BY <1>1, <1>2 DEF TabState
<1> HIDE DEF s
<1>5. s \in TabSet
  BY <1>1, <1>4 DEF TabSet, Row
<1>6. Screen(s) \subseteq Screen(r)
  BY <1>4 DEF Screen, BodiesIn
<1>7. Follows(s)
  BY <1>4 DEF Follows, Editing
<1> QED
  BY <1>3, <1>4, <1>5, <1>6, <1>7

\* A click that ends, one way or the other, is the same click.
LEMMA Ending ==
  ASSUME NEW cs \in Seq(Click), NEW i \in 1..Len(cs), NEW how \in {"ok", "error"}
  PROVE  LET ds == [cs EXCEPT ![i].end = how]
         IN /\ ds \in Seq(Click) /\ Len(ds) = Len(cs) /\ DOMAIN ds = DOMAIN cs
            /\ \A j \in 1..Len(cs) :
                 /\ ds[j].text = cs[j].text /\ ds[j].seen = cs[j].seen
                 /\ ds[j].end = IF j = i THEN how ELSE cs[j].end
<1> DEFINE ds == [cs EXCEPT ![i].end = how]
<1>1. \A j \in 1..Len(cs) : cs[j] \in Click
  OBVIOUS
<1>2. ds = [j \in 1..Len(cs) |-> IF j = i THEN [cs[i] EXCEPT !.end = how] ELSE cs[j]]
  OBVIOUS
<1>3. [cs[i] EXCEPT !.end = how] \in Click
  BY <1>1 DEF Click
<1>4. \A j \in 1..Len(cs) : ds[j] \in Click
  BY <1>1, <1>2, <1>3
<1>5. Len(cs) \in Nat /\ ds \in [1..Len(cs) -> Click]
  BY <1>2, <1>4
<1>6. ds \in Seq(Click) /\ Len(ds) = Len(cs) /\ DOMAIN ds = DOMAIN cs
  BY <1>5
<1>7. /\ [cs[i] EXCEPT !.end = how].text = cs[i].text /\ [cs[i] EXCEPT !.end = how].seen = cs[i].seen
      /\ [cs[i] EXCEPT !.end = how].end = how
  BY <1>1 DEF Click
<1>8. ASSUME NEW j \in 1..Len(cs)
      PROVE  /\ ds[j].text = cs[j].text /\ ds[j].seen = cs[j].seen
             /\ ds[j].end = IF j = i THEN how ELSE cs[j].end
  BY <1>2, <1>7
<1> HIDE DEF ds
<1>9. QED
  BY <1>6, <1>8 DEF ds

\* The death of the backend ends the clicks that were open.
Buried(cs) ==
  [i \in DOMAIN cs |-> IF cs[i].end = "open" THEN [cs[i] EXCEPT !.end = "error"] ELSE cs[i]]

LEMMA Burying ==
  ASSUME NEW cs \in Seq(Click)
  PROVE  LET ds == Buried(cs)
         IN /\ ds \in Seq(Click) /\ Len(ds) = Len(cs) /\ DOMAIN ds = DOMAIN cs
            /\ \A j \in 1..Len(cs) :
                 /\ ds[j].text = cs[j].text /\ ds[j].seen = cs[j].seen
                 /\ ds[j].end = IF cs[j].end = "open" THEN "error" ELSE cs[j].end
<1> DEFINE ds == Buried(cs)
<1>1. \A j \in 1..Len(cs) : cs[j] \in Click
  OBVIOUS
<1>2. /\ DOMAIN ds = 1..Len(cs) /\ ds = [j \in 1..Len(cs) |-> ds[j]]
      /\ \A j \in 1..Len(cs) :
           ds[j] = IF cs[j].end = "open" THEN [cs[j] EXCEPT !.end = "error"] ELSE cs[j]
  BY DEF Buried
<1>3. ASSUME NEW j \in 1..Len(cs)
      PROVE  /\ ds[j] \in Click
             /\ ds[j].text = cs[j].text /\ ds[j].seen = cs[j].seen
             /\ ds[j].end = IF cs[j].end = "open" THEN "error" ELSE cs[j].end
  <2>1. cs[j] \in Click
    BY <1>1
  <2> DEFINE e == [cs[j] EXCEPT !.end = "error"]
  <2>2. e \in Click /\ e.text = cs[j].text /\ e.seen = cs[j].seen /\ e.end = "error"
    BY <2>1 DEF Click
  <2>3. ds[j] = IF cs[j].end = "open" THEN e ELSE cs[j]
    BY <1>2
  <2> HIDE DEF e, ds
  <2> QED
    BY <2>1, <2>2, <2>3
<1> HIDE DEF ds
<1>4. Len(cs) \in Nat /\ ds \in [1..Len(cs) -> Click]
  BY <1>2, <1>3
<1>5. ds \in Seq(Click) /\ Len(ds) = Len(cs) /\ DOMAIN ds = DOMAIN cs
  BY <1>2, <1>4
<1> QED
  BY <1>3, <1>5 DEF ds

LEMMA TypedInit == Init => Typed
<1> SUFFICES ASSUME Init PROVE Typed
  OBVIOUS
<1>1. NoDraft \in Row /\ NoDraft \in Draft /\ NoText \in Text
  BY Rows
<1>2. Closed \in TabSet
  <2>1. Closed \in TabState
    BY <1>1 DEF Closed, TabState
  <2> QED
    BY <1>1, <2>1 DEF Closed, TabSet
<1>3. clicks \in Seq(Click) /\ mails \in Seq(1..Len(clicks))
  BY DEF Init
<1>4. calls \in [Slots -> CallSet(Len(clicks))]
  BY DEF Init, CallSet
<1> QED
  BY <1>1, <1>2, <1>3, <1>4 DEF Init, Typed

LEMMA TypedStep == Typed /\ [Next]_vars => Typed'
<1> SUFFICES ASSUME Typed, [Next]_vars
             PROVE  Typed'
  OBVIOUS
<1> DEFINE n == Len(clicks)
<1>0. /\ n \in Nat /\ NoDraft \in Row /\ Free \in CallSet(n)
      /\ \A k \in Slots : calls[k] \in CallSet(n)
      /\ \A t \in Tabs : tab[t] \in TabSet
  BY Rows DEF Typed, CallSet
<1>1. ASSUME NEW t \in Tabs, Open(t)
      PROVE  Typed'
  <2>1. Mount(tab[t]) \in TabSet
    BY <1>0, <1>1, Mounting DEF Open
  <2> QED
    BY <1>1, <2>1 DEF Open, Typed
<1>2. ASSUME NEW t \in Tabs, Leave(t)
      PROVE  Typed'
  <2>1. Unmount(tab[t]) \in TabSet
    BY <1>0, Hiding
  <2>2. \A k \in Slots : calls'[k] \in CallSet(n)
    <3> TAKE k \in Slots
    <3>1. calls[k] # Free => Abandoned(calls[k]) \in CallSet(n)
      BY <1>0, Abandoning
    <3> QED
      BY <1>0, <1>2, <3>1 DEF Leave, Abandoned
  <2>3. calls' \in [Slots -> CallSet(n)]
    BY <1>2, <2>2 DEF Leave
  <2> QED
    BY <1>2, <2>1, <2>3 DEF Leave, Typed
<1>3. ASSUME NEW t \in Tabs, Retry(t)
      PROVE  Typed'
  <2>1. Asked(tab[t]) \in TabSet
    BY <1>0, Fetching
  <2> QED
    BY <1>3, <2>1 DEF Retry, Asked, Typed
<1>4. ASSUME NEW t \in Tabs, Edit(t)
      PROVE  Typed'
  <2>1. [tab[t] EXCEPT !.text.edited = TRUE] \in TabSet
    BY <1>0, Touching
  <2> QED
    BY <1>4, <2>1 DEF Edit, Typed
<1>5. ASSUME NEW t \in Tabs, Generate(t)
      PROVE  Typed'
  <2>1. DraftCall(t, "generate", <<bodies + 1>>) \in CallSet(n)
    <3>1. <<bodies + 1>> \in Seq(Nat) \ {<<>>}
      BY DEF Typed
    <3> QED
      BY <1>0, <3>1, Starting
  <2>2. calls' \in [Slots -> CallSet(n)]
    BY <1>0, <1>5, <2>1, Posting DEF Generate
  <2> QED
    BY <1>5, <2>2 DEF Generate, Typed
<1>6. ASSUME NEW t \in Tabs, Refine(t)
      PROVE  Typed'
  <2>1. Append(store.turns, bodies + 1) \in Seq(Nat) \ {<<>>}
    <3>1. store \in Real
      BY <1>6 DEF Refine, Typed, Row
    <3>2. store.turns \in Seq(Nat) /\ bodies + 1 \in Nat
      BY <3>1, Saved DEF Typed
    <3> HIDE DEF n
    <3>3. Append(store.turns, bodies + 1) \in Seq(Nat) /\ Len(Append(store.turns, bodies + 1)) > 0
      BY <3>2
    <3> QED
      BY <3>3
  <2>2. DraftCall(t, "refine", Append(store.turns, bodies + 1)) \in CallSet(n)
    BY <1>0, <2>1, Starting
  <2>3. calls' \in [Slots -> CallSet(n)]
    BY <1>0, <1>6, <2>2, Posting DEF Refine
  <2> QED
    BY <1>6, <2>3 DEF Refine, Typed
<1>7. ASSUME NEW t \in Tabs, Send(t)
      PROVE  Typed'
  <2>1. Clicked(t) \in Click
    BY <1>7, Clicking DEF Send
  <2>2. clicks' \in Seq(Click) /\ Len(clicks') = n + 1
    BY <1>0, <1>7, <2>1 DEF Send, Typed
  <2>3. calls' \in [Slots -> CallSet(n + 1)]
    BY <1>0, <1>7, Starting, Posting DEF Send
  <2>4. [tab[t] EXCEPT !.send = "idle"] \in TabSet
    BY <1>0, Touching
  <2>5. mails' \in Seq(1..Len(clicks'))
    BY <1>0, <1>7, <2>2, SeqGrows DEF Send, Typed
  <2>6. lessons' \subseteq [draft : Nat, click : 1..Len(clicks')]
    BY <1>0, <1>7, <2>2 DEF Send, Typed
  <2> QED
    BY <1>7, <2>2, <2>3, <2>4, <2>5, <2>6 DEF Send, Typed
<1>8. ASSUME NEW t \in Tabs, FetchServed(t)
      PROVE  Typed'
  <2>1. Wired(tab[t], "answered", store) \in TabSet
    BY <1>0, Fetching DEF Typed
  <2> QED
    BY <1>8, <2>1 DEF FetchServed, Wired, Typed
<1>9. ASSUME NEW t \in Tabs, FetchArrives(t)
      PROVE  Typed'
  <2>1. Wired(tab[t], "none", NoDraft) \in TabSet
    BY <1>0, Fetching
  <2>2. tab[t].snap \in Row
    BY <1>0 DEF TabSet
  <2>3. Show(Wired(tab[t], "none", NoDraft), tab[t].snap) \in TabSet
    BY <2>1, <2>2, Showing
  <2> QED
    BY <1>9, <2>3 DEF FetchArrives, Wired, Typed
<1>10. ASSUME NEW k \in Slots, ModelReturns(k)
       PROVE  Typed'
  <2>1. calls[k].turns \in Seq(Nat) /\ calls[k].turns # <<>>
    BY <1>0, <1>10, Kinds DEF ModelReturns, Drafting
  <2>2. SaveDraft(calls[k].turns) \in Real /\ SaveDraft(calls[k].turns).turns = calls[k].turns
    BY <2>1, Saving
  <2>3. Served(calls[k], SaveDraft(calls[k].turns)) \in CallSet(n)
    BY <1>0, <1>10, <2>2, Answering DEF ModelReturns, Drafting
  <2>4. calls' \in [Slots -> CallSet(n)]
    BY <1>10, <2>3 DEF ModelReturns, Typed, Served
  <2> QED
    BY <1>10, <2>2, <2>4 DEF ModelReturns, Typed, Row
<1>11. ASSUME NEW k \in Slots, ModelFails(k)
       PROVE  Typed'
  BY <1>0, <1>11 DEF ModelFails, Done, Typed
<1>12. ASSUME NEW k \in Slots, DraftArrives(k)
       PROVE  Typed'
  <2>1. calls[k].tab \in Tabs /\ calls[k].draft \in Row
    BY <1>0, <1>12, Kinds DEF DraftArrives, Drafting, CallSet, Row
  <2>2. Show(tab[calls[k].tab], calls[k].draft) \in TabSet
    BY <1>0, <2>1, Showing
  <2> QED
    BY <1>0, <1>12, <2>1, <2>2 DEF DraftArrives, Done, Typed
<1>13. ASSUME NEW k \in Slots, ThreadFound(k) \/ Transmitted(k) \/ Filed(k)
       PROVE  Typed'
  <2>1. \A s \in {"transport", "file", "move"} : Staged(calls[k], s) \in CallSet(n)
    BY <1>0, <1>13, Advancing DEF ThreadFound, Transmitted, Filed, At, Sending
  <2>2. calls' \in [Slots -> CallSet(n)]
    BY <1>13, <2>1 DEF ThreadFound, Transmitted, Filed, To, Typed, Staged
  <2>3. calls[k].click \in 1..n
    BY <1>0, <1>13, Kinds DEF ThreadFound, Transmitted, Filed, At, Sending
  <2>4. mails' \in Seq(1..n)
    <3>1. mails' = mails \/ mails' = Append(mails, calls[k].click)
      BY <1>13 DEF ThreadFound, Transmitted, Filed
    <3>2. mails \in Seq(1..n)
      BY DEF Typed
    <3> QED
      BY <2>3, <3>1, <3>2, SMTT(30)
  <2> QED
    BY <1>13, <2>2, <2>4 DEF ThreadFound, Transmitted, Filed, Typed
<1>14. ASSUME NEW k \in Slots, Moved(k)
       PROVE  Typed'
  <2>1. store # NoDraft => Learning(calls[k], store) \in CallSet(n)
    BY <1>0, <1>14, Comparing DEF Moved, At, Sending, Typed, Row
  <2>2. Staged(calls[k], "reply") \in CallSet(n)
    BY <1>0, <1>14, Advancing DEF Moved, At, Sending
  <2>3. calls' \in [Slots -> CallSet(n)]
    BY <1>14, <2>1, <2>2 DEF Moved, Cleared, To, Typed, Staged, Learning
  <2> QED
    BY <1>0, <1>14, <2>3 DEF Moved, Cleared, Typed
<1>15. ASSUME NEW k \in Slots, Learned(k)
       PROVE  Typed'
  <2>1. Staged(calls[k], "reply") \in CallSet(n)
    BY <1>0, <1>15, Advancing DEF Learned, At, Sending
  <2>2. calls' \in [Slots -> CallSet(n)]
    BY <1>15, <2>1 DEF Learned, Cleared, To, Typed, Staged
  <2>3. calls[k].click \in 1..n /\ calls[k].draft \in Real
    BY <1>0, <1>15, Kinds DEF Learned, At, Sending, CallSet
  <2>4. BodyOf(calls[k].draft) \in Nat
    BY <2>3, Saved
  <2>5. lessons' \subseteq [draft : Nat, click : 1..n]
    BY <1>15, <2>3, <2>4 DEF Learned, Typed
  <2> QED
    BY <1>0, <1>15, <2>2, <2>5 DEF Learned, Cleared, Typed
<1>16. ASSUME NEW k \in Slots, SendFails(k)
       PROVE  Typed'
  <2>1. calls[k].click \in 1..n /\ calls[k].tab \in Tabs
    BY <1>0, <1>16, Kinds DEF SendFails, At, Sending
  <2>2. clicks' \in Seq(Click) /\ Len(clicks') = n
    <3>1. clicks' = [clicks EXCEPT ![calls[k].click].end = "error"]
      BY <1>16 DEF SendFails, Ends
    <3> QED
      BY <2>1, <3>1, Ending DEF Typed
  <2>3. tab' \in [Tabs -> TabSet]
    <3> DEFINE c == calls[k].tab
    <3>1. [tab[c] EXCEPT !.send = "error"] \in TabSet
      BY <1>0, <2>1, Touching
    <3>2. [tab[c] EXCEPT !.send = @] = tab[c]
      BY <1>0, <2>1 DEF TabSet, TabState
    <3>3. tab \in [Tabs -> TabSet] /\ c \in Tabs
      BY <2>1 DEF Typed
    <3>4. \/ tab' = [tab EXCEPT ![c] = [tab[c] EXCEPT !.send = "error"]]
          \/ tab' = [tab EXCEPT ![c] = [tab[c] EXCEPT !.send = @]]
      BY <1>16, ZenonT(30) DEF SendFails
    <3> QED
      BY <3>1, <3>2, <3>3, <3>4
  <2>4. mails' \in Seq(1..n)
    <3>1. mails' = mails \/ mails' = Append(mails, calls[k].click)
      BY <1>16 DEF SendFails
    <3>2. mails \in Seq(1..n)
      BY DEF Typed
    <3> QED
      BY <2>1, <3>1, <3>2, SMTT(30)
  <2> QED
    BY <1>0, <1>16, <2>2, <2>3, <2>4 DEF SendFails, Done, Typed
<1>17. ASSUME NEW k \in Slots, SendArrives(k)
       PROVE  Typed'
  <2>1. calls[k].click \in 1..n /\ calls[k].tab \in Tabs
    BY <1>0, <1>17, Kinds DEF SendArrives, At, Sending
  <2>2. clicks' \in Seq(Click) /\ Len(clicks') = n
    <3>1. clicks' = [clicks EXCEPT ![calls[k].click].end = "ok"]
      BY <1>17 DEF SendArrives, Ends
    <3> QED
      BY <2>1, <3>1, Ending DEF Typed
  <2>3. tab' \in [Tabs -> TabSet]
    <3> DEFINE c == calls[k].tab
               sent == IF calls[k].mine THEN "ok" ELSE tab[c].send
    <3>1. sent \in {"idle", "ok", "error"}
      BY <1>0, <2>1 DEF TabSet, TabState
    <3>2. Show([tab[c] EXCEPT !.send = sent], NoDraft) \in TabSet
      BY <1>0, <2>1, <3>1, Confirming
    <3>3. tab' = [tab EXCEPT ![c] = Show([tab[c] EXCEPT !.send = sent], NoDraft)]
      BY <1>17 DEF SendArrives, Confirmed
    <3> HIDE DEF sent
    <3> QED
      BY <2>1, <3>2, <3>3 DEF Typed
  <2> QED
    BY <1>0, <1>17, <2>2, <2>3 DEF SendArrives, Done, Typed
<1>18. ASSUME Crash
       PROVE  Typed'
  <2>1. clicks' \in Seq(Click) /\ Len(clicks') = n
    <3>1. clicks' = Buried(clicks)
      BY <1>18 DEF Crash, Buried
    <3> QED
      BY <3>1, Burying DEF Typed
  <2>2. \A t \in Tabs : tab'[t] = Survivor(tab[t], Pending(t, "send"))
    BY <1>18 DEF Crash, Survivor
  <2>3. \A t \in Tabs : tab'[t] \in TabSet
    <3> TAKE t \in Tabs
    <3>1. Pending(t, "send") \in BOOLEAN
      BY DEF Pending
    <3> QED
      BY <1>0, <2>2, <3>1, Surviving
  <2>4. tab' \in [Tabs -> TabSet]
    BY <1>18, <2>3 DEF Crash
  <2> QED
    BY <1>0, <1>18, <2>1, <2>4 DEF Crash, Typed
<1>19. CASE UNCHANGED vars
  BY <1>19 DEF vars, Typed
<1> QED
  BY <1>1, <1>2, <1>3, <1>4, <1>5, <1>6, <1>7, <1>8, <1>9, <1>10, <1>11, <1>12, <1>13,
     <1>14, <1>15, <1>16, <1>17, <1>18, <1>19 DEF Next, Person, Query, Handler

-----------------------------------------------------------------------------
(* What a step leaves alone.                                               *)

\* No call is new.
CallsKept == \A k \in Slots : calls'[k] = Free \/ SameCall(calls[k], calls'[k])

\* Nobody stops waiting for a call.
MineKept == \A k \in Slots : calls'[k] # Free => calls'[k].mine = calls[k].mine

\* No body is new on the screen of a tab.
ScreensKept == \A t \in Tabs : Screen(tab'[t]) \subseteq Screen(tab[t])

\* No click is new, and what was clicked stays what it was.
ClicksKept ==
  /\ Len(clicks') = Len(clicks)
  /\ \A i \in 1..Len(clicks) :
       clicks'[i].text = clicks[i].text /\ clicks'[i].seen = clicks[i].seen

\* No click was confirmed.
NoneConfirmed == \A i \in 1..Len(clicks) : clicks'[i].end = "ok" => clicks[i].end = "ok"

Posts(t) == Generate(t) \/ Refine(t) \/ Send(t)

LEMMA CallsStep ==
  Typed /\ [Next]_vars =>
    \/ CallsKept /\ (MineKept \/ \E t \in Tabs : Leave(t))
    \/ \E t \in Tabs : Posts(t)
<1> SUFFICES ASSUME Typed, [Next]_vars, \A t \in Tabs : ~Posts(t)
             PROVE  CallsKept /\ (MineKept \/ \E t \in Tabs : Leave(t))
  OBVIOUS
<1> DEFINE n == Len(clicks)
<1>0. /\ n \in Nat /\ \A k \in Slots : calls[k] \in CallSet(n)
      /\ \A k \in Slots : calls[k] = Free \/ SameCall(calls[k], calls[k])
  BY DEF Typed, SameCall
<1>1. ASSUME NEW t \in Tabs, Open(t) \/ Retry(t) \/ Edit(t) \/ Query(t)
      PROVE  CallsKept /\ MineKept
  BY <1>0, <1>1 DEF Open, Retry, Edit, Query, FetchServed, FetchArrives, CallsKept, MineKept
<1>2. ASSUME NEW t \in Tabs, Leave(t)
      PROVE  CallsKept
  <2> SUFFICES ASSUME NEW k \in Slots, calls[k] # Free
               PROVE  calls'[k] = Free \/ SameCall(calls[k], calls'[k])
    BY <1>2 DEF Leave, CallsKept
  <2>1. SameCall(calls[k], Abandoned(calls[k]))
    BY <1>0, Abandoning
  <2>2. calls'[k] = calls[k] \/ calls'[k] = Abandoned(calls[k])
    BY <1>2 DEF Leave, Abandoned
  <2> QED
    BY <1>0, <2>1, <2>2
<1>3. ASSUME NEW k \in Slots, ModelReturns(k)
      PROVE  CallsKept /\ MineKept
  <2>1. calls[k].turns \in Seq(Nat) /\ calls[k].turns # <<>> /\ calls[k] # Free
    BY <1>0, <1>3, Kinds DEF ModelReturns, Drafting
  <2>2. SaveDraft(calls[k].turns) \in Real /\ SaveDraft(calls[k].turns).turns = calls[k].turns
    BY <2>1, Saving
  <2> DEFINE d == SaveDraft(calls[k].turns)
  <2>3. SameCall(calls[k], Served(calls[k], d)) /\ Served(calls[k], d).mine = calls[k].mine
    BY <1>0, <1>3, <2>1, <2>2, Answering DEF ModelReturns, Drafting
  <2> QED
    BY <1>0, <1>3, <2>3 DEF ModelReturns, CallsKept, MineKept, Typed, Served
<1>4. ASSUME NEW k \in Slots, ModelFails(k) \/ DraftArrives(k) \/ SendFails(k) \/ SendArrives(k)
      PROVE  CallsKept /\ MineKept
  BY <1>0, <1>4 DEF ModelFails, DraftArrives, SendFails, SendArrives, Done, CallsKept, MineKept, Typed
<1>5. ASSUME NEW k \in Slots, ThreadFound(k) \/ Transmitted(k) \/ Filed(k) \/ Moved(k) \/ Learned(k)
      PROVE  CallsKept /\ MineKept
  <2>1. calls[k].kind = "send" /\ calls[k] # Free
    BY <1>0, <1>5, Kinds DEF ThreadFound, Transmitted, Filed, Moved, Learned, At, Sending
  <2>2. \A s \in {"transport", "file", "move", "reply"} :
          /\ SameCall(calls[k], Staged(calls[k], s))
          /\ Staged(calls[k], s).mine = calls[k].mine
    BY <1>0, <2>1, Advancing
  <2>3. store # NoDraft => /\ SameCall(calls[k], Learning(calls[k], store))
                           /\ Learning(calls[k], store).mine = calls[k].mine
    BY <1>0, <2>1, Comparing DEF Typed, Row
  <2>4. \A l \in Slots \ {k} : calls'[l] = calls[l]
    BY <1>5 DEF ThreadFound, Transmitted, Filed, Moved, Learned, Cleared, To, Typed,
                         Staged, Learning
  <2>5. SameCall(calls[k], calls'[k]) /\ calls'[k].mine = calls[k].mine
    BY <1>5, <2>2, <2>3 DEF ThreadFound, Transmitted, Filed, Moved, Learned, Cleared, To, Typed,
                         Staged, Learning
  <2> QED
    BY <1>0, <2>4, <2>5 DEF CallsKept, MineKept
<1>6. ASSUME Crash
      PROVE  CallsKept /\ MineKept
  BY <1>6 DEF Crash, CallsKept, MineKept
<1>7. CASE UNCHANGED vars
  BY <1>0, <1>7 DEF vars, CallsKept, MineKept
<1> QED
  BY <1>1, <1>2, <1>3, <1>4, <1>5, <1>6, <1>7 DEF Next, Person, Handler, Posts

LEMMA ScreensStep ==
  Typed /\ [Next]_vars =>
    \/ ScreensKept
    \/ \E t \in Tabs : FetchServed(t)
    \/ \E k \in Slots : DraftArrives(k)
<1> SUFFICES ASSUME Typed, [Next]_vars, \A t \in Tabs : ~FetchServed(t),
                    \A k \in Slots : ~DraftArrives(k)
             PROVE  ScreensKept
  OBVIOUS
<1>0. /\ \A t \in Tabs : tab[t] \in TabSet
      /\ \A k \in Slots : calls[k] \in CallSet(Len(clicks))
  BY DEF Typed
<1> Len(clicks) \in Nat
  BY DEF Typed
<1>1. ASSUME NEW t \in Tabs, Open(t)
      PROVE  ScreensKept
  BY <1>0, <1>1, Mounting DEF Open, ScreensKept, Typed
<1>2. ASSUME NEW t \in Tabs, Leave(t)
      PROVE  ScreensKept
  BY <1>0, <1>2, Hiding DEF Leave, ScreensKept, Typed
<1>3. ASSUME NEW t \in Tabs, Retry(t)
      PROVE  ScreensKept
  <2>1. Screen(Asked(tab[t])) \subseteq Screen(tab[t])
    BY <1>0, Rows, Fetching
  <2> QED
    BY <1>3, <2>1 DEF Retry, Asked, ScreensKept, Typed
<1>4. ASSUME NEW t \in Tabs, Edit(t)
      PROVE  ScreensKept
  <2>1. Screen([tab[t] EXCEPT !.text.edited = TRUE]) \subseteq Screen(tab[t])
    BY <1>0, Touching
  <2> QED
    BY <1>4, <2>1 DEF Edit, ScreensKept, Typed
<1>5. ASSUME NEW t \in Tabs, Send(t)
      PROVE  ScreensKept
  <2>1. Screen([tab[t] EXCEPT !.send = "idle"]) \subseteq Screen(tab[t])
    BY <1>0, Touching
  <2> QED
    BY <1>5, <2>1 DEF Send, ScreensKept, Typed
<1>6. ASSUME NEW t \in Tabs, FetchArrives(t)
      PROVE  ScreensKept
  <2> DEFINE e == Wired(tab[t], "none", NoDraft)
  <2>1. e \in TabSet /\ Screen(e) \subseteq Screen(tab[t]) /\ tab[t].snap \in Row
    <3>1. NoDraft \in Row /\ tab[t].snap \in Row
      BY <1>0, Rows DEF TabSet
    <3> QED
      BY <1>0, <3>1, Fetching
  <2>2. BodiesIn(tab[t].snap) \subseteq Screen(tab[t])
    BY <1>6 DEF FetchArrives, Wired, Screen
  <2>3. tab' = [tab EXCEPT ![t] = Show(e, tab[t].snap)]
    BY <1>6 DEF FetchArrives, Wired
  <2> HIDE DEF e
  <2>4. Screen(Show(e, tab[t].snap)) \subseteq Screen(e) \cup BodiesIn(tab[t].snap)
    BY <2>1, Showing
  <2> QED
    BY <2>1, <2>2, <2>3, <2>4 DEF ScreensKept, Typed
<1>7. ASSUME NEW k \in Slots, SendFails(k)
      PROVE  ScreensKept
  <2> DEFINE c == calls[k].tab
  <2>1. c \in Tabs
    <3>1. calls[k] # Free
      BY <1>7 DEF SendFails, At, Sending, Free
    <3> QED
      BY <1>0, <3>1, Kinds
  <2>2. Screen([tab[c] EXCEPT !.send = "error"]) \subseteq Screen(tab[c])
    BY <1>0, <2>1, Touching
  <2>3. [tab[c] EXCEPT !.send = @] = tab[c]
    BY <1>0, <2>1 DEF TabSet, TabState
  <2> QED
    BY <1>7, <2>1, <2>2, <2>3 DEF SendFails, ScreensKept, Typed
<1>8. ASSUME NEW k \in Slots, SendArrives(k)
      PROVE  ScreensKept
  <2> DEFINE c == calls[k].tab
             sent == IF calls[k].mine THEN "ok" ELSE tab[c].send
  <2>1. c \in Tabs
    BY <1>0, <1>8, Kinds DEF SendArrives, At, Sending, Typed
  <2>2. sent \in {"idle", "ok", "error"}
    BY <1>0, <2>1 DEF TabSet, TabState
  <2>3. Screen(Show([tab[c] EXCEPT !.send = sent], NoDraft)) \subseteq Screen(tab[c])
    BY <1>0, <2>1, <2>2, Confirming
  <2>4. tab' = [tab EXCEPT ![c] = Show([tab[c] EXCEPT !.send = sent], NoDraft)]
    BY <1>8 DEF SendArrives, Confirmed
  <2> HIDE DEF sent
  <2> QED
    BY <2>1, <2>3, <2>4 DEF ScreensKept, Typed
<1>9. ASSUME Crash
      PROVE  ScreensKept
  <2> SUFFICES ASSUME NEW t \in Tabs
               PROVE  Screen(tab'[t]) \subseteq Screen(tab[t])
    BY DEF ScreensKept
  <2>1. tab'[t] = Survivor(tab[t], Pending(t, "send")) /\ Pending(t, "send") \in BOOLEAN
    BY <1>9 DEF Crash, Survivor, Pending
  <2> QED
    BY <1>0, <2>1, Surviving
<1>10. CASE UNCHANGED tab
  BY <1>10 DEF ScreensKept
<1>11. ASSUME NEW k \in Slots, Handler(k) \/ ModelFails(k), ~SendArrives(k)
       PROVE  UNCHANGED tab
  BY <1>11 DEF Handler, ModelReturns, ThreadFound, Transmitted, Filed, Moved, Learned, ModelFails
<1>12. ASSUME NEW t \in Tabs, Generate(t) \/ Refine(t)
       PROVE  UNCHANGED tab
  BY <1>12 DEF Generate, Refine
<1> QED
  BY <1>1, <1>2, <1>3, <1>4, <1>5, <1>6, <1>7, <1>8, <1>9, <1>10, <1>11, <1>12
     DEF Next, Person, Query, vars

LEMMA ClicksStep ==
  Typed /\ [Next]_vars =>
    /\ ClicksKept \/ \E t \in Tabs : Send(t)
    /\ NoneConfirmed \/ \E k \in Slots : SendArrives(k)
<1> SUFFICES ASSUME Typed, [Next]_vars
             PROVE  /\ ClicksKept \/ \E t \in Tabs : Send(t)
                    /\ NoneConfirmed \/ \E k \in Slots : SendArrives(k)
  OBVIOUS
<1>1. CASE UNCHANGED clicks
  BY <1>1 DEF ClicksKept, NoneConfirmed
<1>2. ASSUME NEW t \in Tabs, Send(t)
      PROVE  NoneConfirmed
  BY <1>2 DEF Send, NoneConfirmed, Typed
<1>3. ASSUME NEW k \in Slots, SendFails(k)
      PROVE  ClicksKept /\ NoneConfirmed
  <2>0. Len(clicks) \in Nat /\ calls[k] \in CallSet(Len(clicks)) /\ calls[k].kind = "send"
    <3>1. clicks \in Seq(Click) /\ calls \in [Slots -> CallSet(Len(clicks))]
      BY DEF Typed
    <3>2. calls[k].kind = "send"
      BY <1>3 DEF SendFails, At, Sending
    <3> QED BY <3>1, <3>2
  <2>1. calls[k].click \in 1..Len(clicks)
    BY <2>0, Kinds
  <2>2. clicks' = [clicks EXCEPT ![calls[k].click].end = "error"]
    BY <1>3 DEF SendFails, Ends
  <2> QED
    BY <2>1, <2>2, Ending DEF Typed, ClicksKept, NoneConfirmed
<1>4. ASSUME NEW k \in Slots, SendArrives(k)
      PROVE  ClicksKept
  <2>1. calls[k].click \in 1..Len(clicks)
    BY <1>4, Kinds DEF SendArrives, At, Sending, Typed
  <2>2. clicks' = [clicks EXCEPT ![calls[k].click].end = "ok"]
    BY <1>4 DEF SendArrives, Ends
  <2> QED
    BY <2>1, <2>2, Ending DEF Typed, ClicksKept
<1>5. ASSUME Crash
      PROVE  ClicksKept /\ NoneConfirmed
  <2>1. clicks' = Buried(clicks)
    BY <1>5 DEF Crash, Buried
  <2> QED
    BY <2>1, Burying DEF Typed, ClicksKept, NoneConfirmed
<1>6. ASSUME NEW k \in Slots, Handler(k) \/ ModelFails(k), ~SendArrives(k)
      PROVE  UNCHANGED clicks
  BY <1>6 DEF Handler, ModelReturns, DraftArrives, ThreadFound, Transmitted, Filed, Moved,
              Learned, ModelFails
<1>7. ASSUME NEW t \in Tabs, Person(t) \/ Query(t), ~Send(t)
      PROVE  UNCHANGED clicks
  BY <1>7 DEF Person, Query, Open, Leave, Retry, Edit, Generate, Refine, FetchServed, FetchArrives
<1> QED
  BY <1>1, <1>2, <1>3, <1>4, <1>5, <1>6, <1>7 DEF Next, vars

\* The store changes when a model answers, and when a send clears it.
LEMMA StoreStep ==
  Typed /\ [Next]_vars =>
    \/ store' = store
    \/ store' = NoDraft /\ \E k \in Slots : Moved(k) \/ Learned(k)
    \/ \E k \in Slots : ModelReturns(k)
<1> SUFFICES ASSUME Typed, [Next]_vars
             PROVE  \/ store' = store
                    \/ store' = NoDraft /\ \E k \in Slots : Moved(k) \/ Learned(k)
                    \/ \E k \in Slots : ModelReturns(k)
  OBVIOUS
<1>1. ASSUME NEW t \in Tabs, Person(t) \/ Query(t)
      PROVE  store' = store
  BY <1>1 DEF Person, Query, Open, Leave, Retry, Edit, Generate, Refine, Send,
              FetchServed, FetchArrives
<1>2. ASSUME NEW k \in Slots, ModelFails(k) \/ SendFails(k) \/ DraftArrives(k) \/ ThreadFound(k)
                               \/ Transmitted(k) \/ Filed(k) \/ SendArrives(k)
      PROVE  store' = store
  BY <1>2 DEF ModelFails, SendFails, DraftArrives, ThreadFound, Transmitted, Filed, SendArrives
<1>3. ASSUME NEW k \in Slots, Moved(k) \/ Learned(k)
      PROVE  store' = store \/ store' = NoDraft
  BY <1>3 DEF Moved, Learned, Cleared
<1>4. Crash => store' = store
  BY DEF Crash
<1> QED
  BY <1>1, <1>2, <1>3, <1>4 DEF Next, Handler, vars

\* A step records what it crosses, and forgets nothing of it.
LEMMA CrossedStep == [Next]_vars => crossed \subseteq crossed'
<1> SUFFICES ASSUME [Next]_vars
             PROVE  crossed \subseteq crossed'
  OBVIOUS
<1>1. ASSUME NEW t \in Tabs, Person(t) \/ Query(t)
      PROVE  crossed \subseteq crossed'
  BY <1>1 DEF Person, Query, Open, Leave, Retry, Edit, Generate, Refine, Send,
              FetchServed, FetchArrives, Post
<1>2. ASSUME NEW k \in Slots, Handler(k) \/ ModelFails(k) \/ SendFails(k)
      PROVE  crossed \subseteq crossed'
  BY <1>2 DEF Handler, ModelReturns, DraftArrives, ThreadFound, Transmitted, Filed, Moved,
              Learned, SendArrives, ModelFails, SendFails
<1>3. Crash => crossed \subseteq crossed'
  BY DEF Crash
<1> QED
  BY <1>1, <1>2, <1>3 DEF Next, vars

Body(c) == Last(c.turns)

\* A new call is its tab's, and a person who posts one has the thread open.
Drafted(t, k) ==
  /\ Generate(t) \/ Refine(t)
  /\ calls'[k].kind \in {"generate", "refine"} /\ calls'[k].stage = "model"
  /\ calls'[k].draft = NoDraft
  /\ Body(calls'[k]) = bodies + 1 /\ bodies' = bodies + 1

Clicks(t, k) ==
  /\ Send(t)
  /\ calls'[k].kind = "send" /\ calls'[k].stage = "look"
  /\ calls'[k].click = Len(clicks) + 1

LEMMA PostsStep ==
  ASSUME Typed, NEW t \in Tabs, Posts(t)
  PROVE  /\ tab[t].open
         /\ \E k \in Slots :
              /\ calls[k] = Free /\ \A l \in Slots \ {k} : calls'[l] = calls[l]
              /\ calls'[k] # Free /\ calls'[k].tab = t /\ calls'[k].mine
              /\ Drafted(t, k) \/ Clicks(t, k)
              /\ crossed' = crossed \union Crossings(calls'[k].kind)
<1>1. tab[t].open
  BY DEF Posts, Generate, Refine, Send, Editing
<1>2. ASSUME NEW kind \in {"generate", "refine"}, NEW turns, Post(DraftCall(t, kind, turns)),
             Last(turns) = bodies + 1, bodies' = bodies + 1, Generate(t) \/ Refine(t)
      PROVE  \E k \in Slots :
              /\ calls[k] = Free /\ \A l \in Slots \ {k} : calls'[l] = calls[l]
              /\ calls'[k] # Free /\ calls'[k].tab = t /\ calls'[k].mine
              /\ Drafted(t, k)
              /\ crossed' = crossed \union Crossings(calls'[k].kind)
  <2> DEFINE c == DraftCall(t, kind, turns)
  <2>1. /\ c # Free /\ c.tab = t /\ c.mine /\ c.kind = kind /\ c.stage = "model"
        /\ c.turns = turns /\ c.draft = NoDraft
    BY DEF DraftCall, Free
  <2>2. PICK k \in Slots : calls[k] = Free /\ calls' = [calls EXCEPT ![k] = c]
    BY <1>2 DEF Post
  <2>3. crossed' = crossed \union Crossings(c.kind)
    BY <1>2 DEF Post
  <2> HIDE DEF c
  <2>4. calls'[k] = c /\ \A l \in Slots \ {k} : calls'[l] = calls[l]
    BY <2>2 DEF Typed
  <2> QED
    BY <1>2, <2>1, <2>2, <2>3, <2>4 DEF Drafted, Body
<1>3. ASSUME Generate(t)
      PROVE  /\ Post(DraftCall(t, "generate", <<bodies + 1>>)) /\ bodies' = bodies + 1
             /\ Last(<<bodies + 1>>) = bodies + 1
  BY <1>3 DEF Generate, Last
<1>4. ASSUME Refine(t)
      PROVE  /\ Post(DraftCall(t, "refine", Append(store.turns, bodies + 1))) /\ bodies' = bodies + 1
             /\ Last(Append(store.turns, bodies + 1)) = bodies + 1
  <2>1. store.turns \in Seq(Nat) /\ bodies + 1 \in Nat
    BY <1>4, Saved DEF Refine, Typed, Row
  <2> QED
    BY <1>4, <2>1 DEF Refine, Last
<1>5. ASSUME Send(t)
      PROVE  \E k \in Slots :
              /\ calls[k] = Free /\ \A l \in Slots \ {k} : calls'[l] = calls[l]
              /\ calls'[k] # Free /\ calls'[k].tab = t /\ calls'[k].mine
              /\ Clicks(t, k)
              /\ crossed' = crossed \union Crossings(calls'[k].kind)
  <2> DEFINE c == SendCall(t)
  <2>1. /\ c # Free /\ c.tab = t /\ c.mine /\ c.kind = "send" /\ c.stage = "look"
        /\ c.click = Len(clicks) + 1
    BY DEF SendCall, Free
  <2>2. PICK k \in Slots : calls[k] = Free /\ calls' = [calls EXCEPT ![k] = c]
    BY <1>5 DEF Send, Post
  <2>3. crossed' = crossed \union Crossings(c.kind)
    BY <1>5 DEF Send, Post
  <2> HIDE DEF c
  <2>4. calls'[k] = c /\ \A l \in Slots \ {k} : calls'[l] = calls[l]
    BY <2>2 DEF Typed
  <2> QED
    BY <1>5, <2>1, <2>2, <2>3, <2>4 DEF Clicks
<1> QED
  BY <1>1, <1>2, <1>3, <1>4, <1>5 DEF Posts

-----------------------------------------------------------------------------
(* The numbers of the bodies.                                              *)

\* Every body that is stored, shown, or was sent was drafted, and no two calls draft one.
Fresh ==
  /\ \A k \in Slots : Drafting(k) => Body(calls[k]) \in 1..bodies
  /\ \A k, l \in Slots : Drafting(k) /\ Drafting(l) /\ Body(calls[k]) = Body(calls[l]) => k = l
  /\ \A t \in Tabs : Screen(tab[t]) \subseteq 0..bodies
  /\ BodiesIn(store) \subseteq 0..bodies
  /\ \A i \in 1..Len(clicks) : clicks[i].text.of \in 0..bodies

\* The draft of a drafting call has its body; a save stores the body of its call.
LEMMA Replying ==
  ASSUME Typed, NEW k \in Slots
  PROVE  /\ DraftArrives(k) => /\ calls[k].draft \in Real /\ BodiesIn(calls[k].draft) = {Body(calls[k])}
                               /\ calls[k].tab \in Tabs
         /\ ModelReturns(k) => /\ store' \in Real /\ BodiesIn(store') = {Body(calls[k])}
                               /\ store'.version = store.version + 1
                               /\ store'.turns = calls[k].turns
<1>0. Len(clicks) \in Nat /\ calls[k] \in CallSet(Len(clicks))
  BY DEF Typed
<1>1. ASSUME DraftArrives(k)
      PROVE  /\ calls[k].draft \in Real /\ BodiesIn(calls[k].draft) = {Body(calls[k])}
             /\ calls[k].tab \in Tabs
  <2>1. calls[k].draft \in Real /\ calls[k].draft.turns = calls[k].turns /\ calls[k].tab \in Tabs
    BY <1>0, <1>1, Kinds DEF DraftArrives, Drafting, CallSet
  <2> QED
    BY <2>1, Saved DEF BodiesIn, BodyOf, Body
<1>2. ASSUME ModelReturns(k)
      PROVE  /\ store' \in Real /\ BodiesIn(store') = {Body(calls[k])}
             /\ store'.version = store.version + 1
             /\ store'.turns = calls[k].turns
  <2>1. calls[k].turns \in Seq(Nat) /\ calls[k].turns # <<>>
    BY <1>0, <1>2, Kinds DEF ModelReturns, Drafting
  <2>2. /\ store' \in Real /\ store'.version = store.version + 1 /\ store'.turns = calls[k].turns
    BY <1>2, <2>1, Saving DEF ModelReturns
  <2> QED
    BY <2>2, Saved DEF BodiesIn, BodyOf, Body
<1> QED
  BY <1>1, <1>2

\* What a person clicks on is on the screen.
LEMMA Sent ==
  ASSUME Typed, NEW t \in Tabs, Send(t)
  PROVE  /\ Len(clicks') = Len(clicks) + 1
         /\ \A i \in 1..Len(clicks) : clicks'[i] = clicks[i]
         /\ clicks'[Len(clicks) + 1].text = tab[t].text
         /\ clicks'[Len(clicks) + 1].seen = BodyOf(tab[t].view)
         /\ clicks'[Len(clicks) + 1].end = "open"
         /\ tab[t].text.of \in Screen(tab[t]) /\ tab[t].view \in Real
<1>1. /\ Clicked(t).text = tab[t].text
      /\ Clicked(t).seen = BodyOf(tab[t].view) /\ Clicked(t).end = "open" /\ tab[t].view \in Real
  BY Clicking DEF Send
<1>2. clicks' = Append(clicks, Clicked(t)) /\ clicks \in Seq(Click)
  BY DEF Send, Typed
<1>3. tab[t].text.of \in Screen(tab[t])
  BY DEF Send, Editing, Screen
<1> QED
  BY <1>1, <1>2, <1>3

LEMMA BodiesStep ==
  [Next]_vars => bodies' = bodies \/ \E t \in Tabs : (Generate(t) \/ Refine(t)) /\ bodies' = bodies + 1
<1> SUFFICES ASSUME [Next]_vars
             PROVE  \/ bodies' = bodies
                    \/ \E t \in Tabs : (Generate(t) \/ Refine(t)) /\ bodies' = bodies + 1
  OBVIOUS
<1>1. ASSUME NEW t \in Tabs, Person(t) \/ Query(t)
      PROVE  bodies' = bodies \/ ((Generate(t) \/ Refine(t)) /\ bodies' = bodies + 1)
  BY <1>1 DEF Person, Query, Open, Leave, Retry, Edit, Generate, Refine, Send,
              FetchServed, FetchArrives
<1>2. ASSUME NEW k \in Slots, Handler(k) \/ ModelFails(k) \/ SendFails(k)
      PROVE  bodies' = bodies
  BY <1>2 DEF Handler, ModelReturns, DraftArrives, ThreadFound, Transmitted, Filed, Moved,
              Learned, SendArrives, ModelFails, SendFails
<1>3. Crash => bodies' = bodies
  BY DEF Crash
<1> QED
  BY <1>1, <1>2, <1>3 DEF Next, vars

LEMMA FreshStep == Typed /\ Fresh /\ [Next]_vars => Fresh'
<1> SUFFICES ASSUME Typed, Fresh, [Next]_vars
             PROVE  Fresh'
  OBVIOUS
<1>0. bodies \in Nat /\ bodies' \in {bodies, bodies + 1} /\ 0..bodies \subseteq 0..bodies'
      /\ 1..bodies \subseteq 1..bodies'
  BY BodiesStep DEF Typed
<1>1. /\ \A k \in Slots : Drafting(k)' => Body(calls'[k]) \in 1..bodies'
      /\ \A k, l \in Slots :
           Drafting(k)' /\ Drafting(l)' /\ Body(calls'[k]) = Body(calls'[l]) => k = l
  <2>1. CASE CallsKept
    <3>1. \A k \in Slots : Drafting(k)' => Drafting(k) /\ Body(calls'[k]) = Body(calls[k])
      BY <2>1 DEF CallsKept, SameCall, Drafting, Free, Body
    <3> QED
      BY <1>0, <3>1 DEF Fresh
  <2>2. ASSUME NEW t \in Tabs, Posts(t)
        PROVE  /\ \A k \in Slots : Drafting(k)' => Body(calls'[k]) \in 1..bodies'
               /\ \A k, l \in Slots :
                    Drafting(k)' /\ Drafting(l)' /\ Body(calls'[k]) = Body(calls'[l]) => k = l
    <3>1. PICK k \in Slots :
            /\ calls[k] = Free /\ \A l \in Slots \ {k} : calls'[l] = calls[l]
            /\ Drafted(t, k) \/ Clicks(t, k)
      BY <2>2, PostsStep
    <3>2. \A l \in Slots \ {k} : Drafting(l)' => Drafting(l) /\ Body(calls'[l]) = Body(calls[l])
      BY <3>1 DEF Drafting
    <3>3. Drafting(k)' => Body(calls'[k]) = bodies + 1 /\ bodies' = bodies + 1
      BY <3>1 DEF Drafting, Drafted, Clicks
    <3> QED
      BY <1>0, <3>2, <3>3 DEF Fresh
  <2> QED
    BY <2>1, <2>2, CallsStep
<1>2. \A t \in Tabs : Screen(tab'[t]) \subseteq 0..bodies'
  <2>1. CASE ScreensKept
    BY <1>0, <2>1 DEF ScreensKept, Fresh
  <2>2. ASSUME NEW t \in Tabs, FetchServed(t)
        PROVE  \A u \in Tabs : Screen(tab'[u]) \subseteq 0..bodies'
    <3>1. tab' = [tab EXCEPT ![t] = Wired(tab[t], "answered", store)]
      BY <2>2 DEF FetchServed, Wired
    <3>2. Screen(Wired(tab[t], "answered", store)) \subseteq Screen(tab[t]) \cup BodiesIn(store)
      BY Fetching DEF Typed
    <3> QED
      BY <1>0, <3>1, <3>2 DEF Fresh, Typed
  <2>3. ASSUME NEW k \in Slots, DraftArrives(k)
        PROVE  \A u \in Tabs : Screen(tab'[u]) \subseteq 0..bodies'
    <3> DEFINE c == calls[k].tab
    <3>1. calls[k].draft \in Row /\ BodiesIn(calls[k].draft) = {Body(calls[k])} /\ c \in Tabs
      BY <2>3, Replying DEF Row
    <3>2. Screen(Show(tab[c], calls[k].draft)) \subseteq Screen(tab[c]) \cup {Body(calls[k])}
      BY <3>1, Showing DEF Typed
    <3>3. tab' = [tab EXCEPT ![c] = Show(tab[c], calls[k].draft)]
      BY <2>3 DEF DraftArrives
    <3>4. Body(calls[k]) \in 0..bodies
      BY <1>0, <2>3 DEF DraftArrives, Fresh
    <3> QED
      BY <1>0, <3>1, <3>2, <3>3, <3>4 DEF Fresh, Typed
  <2> QED
    BY <2>1, <2>2, <2>3, ScreensStep
<1>3. BodiesIn(store') \subseteq 0..bodies'
  <2>1. CASE store' \in {store, NoDraft}
    BY <1>0, <2>1 DEF Fresh, BodiesIn
  <2>2. ASSUME NEW k \in Slots, ModelReturns(k)
        PROVE  BodiesIn(store') \subseteq 0..bodies'
    <3>1. BodiesIn(store') = {Body(calls[k])}
      BY <2>2, Replying
    <3> QED
      BY <1>0, <2>2, <3>1 DEF ModelReturns, Fresh
  <2> QED
    BY <2>1, <2>2, StoreStep
<1>4. \A i \in 1..Len(clicks') : clicks'[i].text.of \in 0..bodies'
  <2>1. CASE ClicksKept
    BY <1>0, <2>1 DEF ClicksKept, Fresh
  <2>2. ASSUME NEW t \in Tabs, Send(t)
        PROVE  \A i \in 1..Len(clicks') : clicks'[i].text.of \in 0..bodies'
    <3>1. Len(clicks) \in Nat
      BY DEF Typed
    <3>2. /\ Len(clicks') = Len(clicks) + 1
          /\ \A i \in 1..Len(clicks) : clicks'[i] = clicks[i]
          /\ clicks'[Len(clicks) + 1].text = tab[t].text
          /\ tab[t].text.of \in Screen(tab[t])
      BY <2>2, Sent
    <3>3. /\ Screen(tab[t]) \subseteq 0..bodies
          /\ \A i \in 1..Len(clicks) : clicks[i].text.of \in 0..bodies
          /\ bodies' = bodies
      BY <2>2, Zenon DEF Fresh, Send
    <3> HIDE DEF Screen
    <3> QED
      BY <3>1, <3>2, <3>3
  <2> QED
    BY <2>1, <2>2, ClicksStep
<1> QED
  BY <1>1, <1>2, <1>3, <1>4 DEF Fresh

-----------------------------------------------------------------------------
(* The stages of the calls.                                                *)

StageKept(k) == calls'[k].stage = calls[k].stage /\ calls'[k].draft = calls[k].draft

\* How a call in flight comes to its stage.
Staging(k) ==
  \/ StageKept(k)
  \/ ModelReturns(k) /\ calls'[k].stage = "reply" /\ calls'[k].draft = store'
  \/ ThreadFound(k) /\ calls'[k].stage = "transport"
  \/ Transmitted(k) /\ calls'[k].stage = "file"
  \/ Filed(k) /\ calls'[k].stage = "move"
  \/ /\ Moved(k) /\ calls'[k].stage = "learn" /\ calls'[k].draft = store /\ store' = store
     /\ store # NoDraft /\ Differs(clicks[calls[k].click].text, store)
  \/ (Moved(k) \/ Learned(k)) /\ calls'[k].stage = "reply" /\ store' = NoDraft

LEMMA StagesStep ==
  ASSUME Typed, [Next]_vars, \A t \in Tabs : ~Posts(t), NEW k \in Slots, calls'[k] # Free
  PROVE  Staging(k)
<1>0. /\ Len(clicks) \in Nat /\ calls[k] \in CallSet(Len(clicks))
  BY DEF Typed
<1>1. CASE calls'[k] = calls[k]
  BY <1>1 DEF Staging, StageKept
<1>2. ASSUME NEW t \in Tabs, Leave(t)
      PROVE  Staging(k)
  <2>1. calls[k] # Free => Abandoned(calls[k]).stage = calls[k].stage /\ Abandoned(calls[k]).draft = calls[k].draft
    BY <1>0, Abandoning
  <2>2. calls'[k] = calls[k] \/ (calls[k] # Free /\ calls'[k] = Abandoned(calls[k]))
    BY <1>2 DEF Leave, Abandoned
  <2> QED
    BY <1>1, <2>1, <2>2 DEF Staging, StageKept
<1>3. ASSUME NEW t \in Tabs, Open(t) \/ Retry(t) \/ Edit(t) \/ Query(t)
      PROVE  calls'[k] = calls[k]
  BY <1>3 DEF Open, Retry, Edit, Query, FetchServed, FetchArrives
<1>4. ASSUME NEW j \in Slots, Handler(j) \/ ModelFails(j) \/ SendFails(j), j # k
      PROVE  calls'[k] = calls[k]
  BY <1>4 DEF Handler, ModelReturns, DraftArrives, ThreadFound, Transmitted, Filed, Moved,
              Learned, SendArrives, ModelFails, SendFails, To, Done, Cleared, Typed
<1>5. ASSUME DraftArrives(k) \/ SendArrives(k) \/ ModelFails(k) \/ SendFails(k)
      PROVE  FALSE
  BY <1>5 DEF DraftArrives, SendArrives, ModelFails, SendFails, Done, Typed
<1>6. ASSUME ModelReturns(k)
      PROVE  Staging(k)
  <2>1. calls[k].turns \in Seq(Nat) /\ calls[k].turns # <<>>
    BY <1>0, <1>6, Kinds DEF ModelReturns, Drafting
  <2>2. SaveDraft(calls[k].turns) \in Real /\ SaveDraft(calls[k].turns).turns = calls[k].turns
    BY <2>1, Saving
  <2>3. calls'[k] = Served(calls[k], store') /\ store' = SaveDraft(calls[k].turns)
    BY <1>6 DEF ModelReturns, Typed, Served
  <2>4. calls'[k].stage = "reply" /\ calls'[k].draft = store'
    BY <1>0, <1>6, <2>2, <2>3, Answering DEF ModelReturns, Drafting
  <2> QED
    BY <1>6, <2>4 DEF Staging
<1>7. ASSUME At(k, "look") \/ At(k, "transport") \/ At(k, "file") \/ At(k, "move") \/ At(k, "learn")
      PROVE  /\ \A s \in {"transport", "file", "move", "reply"} : Staged(calls[k], s).stage = s
             /\ store # NoDraft => /\ Learning(calls[k], store).stage = "learn"
                                   /\ Learning(calls[k], store).draft = store
  BY <1>0, <1>7, Advancing, Comparing DEF At, Sending, Typed, Row
<1>8. ASSUME ThreadFound(k)
      PROVE  Staging(k)
  <2>1. calls'[k] = Staged(calls[k], "transport")
    BY <1>8 DEF ThreadFound, To, Typed, Staged
  <2> QED
    BY <1>7, <1>8, <2>1 DEF ThreadFound, Staging
<1>9. ASSUME Transmitted(k)
      PROVE  Staging(k)
  <2>1. calls'[k] = Staged(calls[k], "file")
    BY <1>9 DEF Transmitted, To, Typed, Staged
  <2> QED
    BY <1>7, <1>9, <2>1 DEF Transmitted, Staging
<1>10. ASSUME Filed(k)
       PROVE  Staging(k)
  <2>1. calls'[k] = Staged(calls[k], "move")
    BY <1>10 DEF Filed, To, Typed, Staged
  <2> QED
    BY <1>7, <1>10, <2>1 DEF Filed, Staging
<1>11. ASSUME Learned(k)
       PROVE  Staging(k)
  <2>1. calls'[k] = Staged(calls[k], "reply") /\ store' = NoDraft
    BY <1>11 DEF Learned, Cleared, To, Typed, Staged
  <2> QED
    BY <1>7, <1>11, <2>1 DEF Learned, Staging
<1>12. ASSUME Moved(k)
       PROVE  Staging(k)
  <2>1. CASE store # NoDraft /\ Differs(clicks[calls[k].click].text, store)
    <3>1. calls'[k] = Learning(calls[k], store) /\ store' = store
      BY <1>12, <2>1 DEF Moved, Typed, Learning
    <3> QED
      BY <1>7, <1>12, <2>1, <3>1 DEF Moved, Staging
  <2>2. CASE ~(store # NoDraft /\ Differs(clicks[calls[k].click].text, store))
    <3>1. calls'[k] = Staged(calls[k], "reply") /\ store' = NoDraft
      BY <1>12, <2>2 DEF Moved, Cleared, To, Typed, Staged
    <3> QED
      BY <1>7, <1>12, <3>1 DEF Moved, Staging
  <2> QED
    BY <2>1, <2>2
<1>13. Crash => FALSE
  BY DEF Crash
<1> QED
  BY <1>1, <1>2, <1>3, <1>4, <1>5, <1>6, <1>8, <1>9, <1>10, <1>11, <1>12, <1>13
     DEF Next, Person, Handler, Posts, vars

-----------------------------------------------------------------------------
(* What becomes of a tab.                                                  *)

OnWireKept(u) == tab'[u].wire = tab[u].wire /\ tab'[u].snap = tab[u].snap
FollowsOn(u) == Follows(tab[u]) => Follows(tab'[u])

Untouched(u) ==
  /\ OnWireKept(u) /\ FollowsOn(u)
  /\ tab'[u].view = tab[u].view /\ tab'[u].open = tab[u].open
  /\ tab'[u].loaded = tab[u].loaded /\ tab'[u].broken = tab[u].broken
  /\ \/ tab'[u].send = tab[u].send
     \/ Send(u) /\ tab'[u].send = "idle"
     \/ \E k \in Slots : /\ SendFails(k) /\ calls[k].mine /\ calls[k].tab = u
                         /\ tab'[u].send = "error"

Opened(u) ==
  /\ Open(u) /\ Follows(tab'[u])
  /\ tab'[u].wire # "none" /\ (tab'[u].wire = "answered" => tab[u].wire = "answered")
  /\ tab'[u].snap = tab[u].snap /\ tab'[u].view = tab[u].view

LeftBehind(u) ==
  /\ Leave(u) /\ OnWireKept(u) /\ Follows(tab'[u])
  /\ tab'[u].view = tab[u].view /\ ~tab'[u].open

AskedAgain(u) ==
  /\ Retry(u) /\ FollowsOn(u)
  /\ tab'[u].wire = "asked" /\ tab'[u].view = tab[u].view /\ tab'[u].open = tab[u].open

ServedTo(u) ==
  /\ FetchServed(u) /\ FollowsOn(u)
  /\ tab'[u].wire = "answered" /\ tab'[u].snap = store
  /\ tab'[u].view = tab[u].view /\ tab'[u].open = tab[u].open

Fetched(u) ==
  /\ FetchArrives(u) /\ (Same(tab[u].view, tab[u].snap) => FollowsOn(u))
  /\ tab'[u].wire = "none" /\ tab'[u].view = tab[u].snap /\ tab'[u].open = tab[u].open

DraftShown(u, k) ==
  /\ DraftArrives(k) /\ calls[k].tab = u /\ OnWireKept(u)
  /\ Same(tab[u].view, calls[k].draft) => FollowsOn(u)
  /\ tab'[u].view = calls[k].draft /\ tab'[u].open = tab[u].open /\ tab'[u].send = tab[u].send

SendShown(u, k) ==
  /\ SendArrives(k) /\ calls[k].tab = u /\ OnWireKept(u) /\ Follows(tab'[u])
  /\ tab'[u].view = NoDraft /\ tab'[u].open = tab[u].open
  /\ tab'[u].send = IF calls[k].mine THEN "ok" ELSE tab[u].send

Survived(u) ==
  /\ Crash /\ FollowsOn(u)
  /\ tab'[u].wire = "none" /\ tab'[u].view = tab[u].view /\ tab'[u].open = tab[u].open
  /\ tab[u].wire # "none" => tab'[u].broken
  /\ tab[u].wire = "none" => tab'[u].broken = tab[u].broken /\ tab'[u].loaded = tab[u].loaded
  /\ tab'[u].send = IF Pending(u, "send") THEN "error" ELSE tab[u].send

LEMMA TabsStep ==
  ASSUME Typed, [Next]_vars, NEW u \in Tabs
  PROVE  \/ Untouched(u) \/ Opened(u) \/ LeftBehind(u) \/ AskedAgain(u) \/ ServedTo(u)
         \/ Fetched(u) \/ Survived(u)
         \/ \E k \in Slots : DraftShown(u, k) \/ SendShown(u, k)
<1>0. /\ tab[u] \in TabSet /\ Len(clicks) \in Nat /\ store \in Row
      /\ \A k \in Slots : calls[k] \in CallSet(Len(clicks))
  BY DEF Typed
<1>1. CASE tab'[u] = tab[u]
  BY <1>1 DEF Untouched, OnWireKept, FollowsOn
<1>2. ASSUME NEW t \in Tabs, Open(t)
      PROVE  tab'[u] = tab[u] \/ Opened(u)
  BY <1>0, <1>2, Mounting DEF Open, Opened, Typed
<1>3. ASSUME NEW t \in Tabs, Leave(t)
      PROVE  tab'[u] = tab[u] \/ LeftBehind(u)
  <2>1. tab'[u] = tab[u] \/ (t = u /\ tab'[u] = Unmount(tab[u]))
    BY <1>3 DEF Leave, Typed
  <2> QED
    BY <1>0, <1>3, <2>1, Hiding DEF LeftBehind, OnWireKept
<1>4. ASSUME NEW t \in Tabs, Retry(t)
      PROVE  tab'[u] = tab[u] \/ AskedAgain(u)
  <2>1. CASE t # u
    BY <1>4, <2>1 DEF Retry, Asked, Typed
  <2>2. CASE t = u
    <3>1. tab'[u] = Asked(tab[u])
      BY <1>4, <2>2 DEF Retry, Asked, Typed
    <3>2. LET f == Asked(tab[u])
          IN /\ f.wire = "asked" /\ f.view = tab[u].view /\ f.open = tab[u].open
             /\ Follows(tab[u]) => Follows(f)
      BY <1>0, Fetching
    <3> QED
      BY <1>4, <2>2, <3>1, <3>2 DEF AskedAgain, FollowsOn
  <2> QED
    BY <2>1, <2>2
<1>5. ASSUME NEW t \in Tabs, Edit(t)
      PROVE  tab'[u] = tab[u] \/ Untouched(u)
  <2>1. CASE t # u
    BY <1>5, <2>1 DEF Edit, Typed
  <2>2. CASE t = u
    <3>1. tab'[u] = [tab[u] EXCEPT !.text.edited = TRUE]
      BY <1>5, <2>2 DEF Edit, Typed
    <3>2. LET e == [tab[u] EXCEPT !.text.edited = TRUE]
          IN /\ e.wire = tab[u].wire /\ e.snap = tab[u].snap /\ e.view = tab[u].view
             /\ e.open = tab[u].open /\ e.send = tab[u].send /\ e.loaded = tab[u].loaded
             /\ e.broken = tab[u].broken /\ (Follows(tab[u]) => Follows(e))
      BY <1>0, Touching
    <3> QED
      BY <3>1, <3>2 DEF Untouched, OnWireKept, FollowsOn
  <2> QED
    BY <2>1, <2>2
<1>6. ASSUME NEW s \in {"idle", "error"}, tab'[u] = [tab[u] EXCEPT !.send = s]
      PROVE  /\ OnWireKept(u) /\ FollowsOn(u) /\ tab'[u].send = s
             /\ tab'[u].view = tab[u].view /\ tab'[u].open = tab[u].open
             /\ tab'[u].loaded = tab[u].loaded /\ tab'[u].broken = tab[u].broken
  <2> DEFINE f == [tab[u] EXCEPT !.send = s]
  <2>1. /\ f.wire = tab[u].wire /\ f.snap = tab[u].snap /\ f.view = tab[u].view
        /\ f.open = tab[u].open /\ f.send = s /\ f.loaded = tab[u].loaded
        /\ f.broken = tab[u].broken /\ (Follows(tab[u]) => Follows(f))
    BY <1>0, Touching, ZenonT(60)
  <2>2. tab'[u] = f
    BY <1>6
  <2> HIDE DEF f
  <2> QED
    BY <2>1, <2>2, SMTT(30) DEF OnWireKept, FollowsOn
<1>7. ASSUME NEW t \in Tabs, Send(t)
      PROVE  tab'[u] = tab[u] \/ Untouched(u)
  <2>1. tab'[u] = tab[u] \/ (t = u /\ tab'[u] = [tab[u] EXCEPT !.send = "idle"])
    BY <1>7 DEF Send, Typed
  <2> QED
    BY <1>6, <1>7, <2>1 DEF Untouched
<1>8. ASSUME NEW k \in Slots, SendFails(k)
      PROVE  tab'[u] = tab[u] \/ Untouched(u)
  <2> DEFINE c == calls[k].tab
  <2>1. [tab[u] EXCEPT !.send = @] = tab[u]
    BY <1>0 DEF TabSet, TabState
  <2>2. \/ tab'[u] = tab[u]
        \/ c = u /\ calls[k].mine /\ tab'[u] = [tab[u] EXCEPT !.send = "error"]
    BY <1>8, <2>1 DEF SendFails, Typed
  <2> QED
    BY <1>6, <1>8, <2>2 DEF Untouched
<1>9. ASSUME NEW t \in Tabs, FetchServed(t)
      PROVE  tab'[u] = tab[u] \/ ServedTo(u)
  <2>1. tab'[u] = tab[u] \/ (t = u /\ tab'[u] = Wired(tab[u], "answered", store))
    <3>1. tab' = [tab EXCEPT ![t] = Wired(tab[t], "answered", store)]
      BY <1>9 DEF FetchServed, Wired
    <3>2. tab \in [Tabs -> TabSet]
      BY DEF Typed
    <3> QED
      BY <3>1, <3>2
  <2>2. LET e == Wired(tab[u], "answered", store)
        IN /\ e.wire = "answered" /\ e.snap = store /\ e.view = tab[u].view
           /\ e.open = tab[u].open /\ (Follows(tab[u]) => Follows(e))
    <3>1. tab[u] \in TabSet /\ store \in Row /\ "answered" \in {"none", "asked", "answered"}
      BY <1>0
    <3> QED
      BY <3>1, Fetching, ZenonT(60)
  <2> QED
    BY <1>9, <2>1, <2>2 DEF ServedTo, FollowsOn
<1>10. ASSUME NEW t \in Tabs, FetchArrives(t)
       PROVE  tab'[u] = tab[u] \/ Fetched(u)
  <2>1. CASE t # u
    BY <1>10, <2>1 DEF FetchArrives, Wired, Typed
  <2>2. CASE t = u
    <3> DEFINE e == Wired(tab[u], "none", NoDraft)
    <3>1. NoDraft \in Row /\ tab[u].snap \in Row
      BY <1>0, Rows DEF TabSet
    <3>2. /\ e \in TabSet /\ e.wire = "none" /\ e.view = tab[u].view /\ e.open = tab[u].open
          /\ Follows(tab[u]) => Follows(e)
      <4>1. tab[u] \in TabSet /\ "none" \in {"none", "asked", "answered"} /\ NoDraft \in Row
        BY <1>0, <3>1
      <4>2. e \in TabSet /\ e.wire = "none"
        BY <4>1, Fetching, ZenonT(60)
      <4>3. e.view = tab[u].view /\ e.open = tab[u].open
        BY <4>1, Fetching, ZenonT(60)
      <4>4. Follows(tab[u]) => Follows(e)
        BY <4>1, Fetching, ZenonT(60)
      <4> QED
        BY <4>2, <4>3, <4>4
    <3>3. tab'[u] = Show(e, tab[u].snap)
      BY <1>10, <2>2 DEF FetchArrives, Wired, Typed
    <3> HIDE DEF e
    <3>4. /\ Show(e, tab[u].snap).wire = "none" /\ Show(e, tab[u].snap).view = tab[u].snap
          /\ Show(e, tab[u].snap).open = tab[u].open
          /\ Follows(e) /\ Same(tab[u].view, tab[u].snap) => Follows(Show(e, tab[u].snap))
      BY <3>1, <3>2, Showing
    <3> QED
      BY <1>10, <2>2, <3>2, <3>3, <3>4 DEF Fetched, FollowsOn
  <2> QED
    BY <2>1, <2>2
<1>11. ASSUME NEW k \in Slots, DraftArrives(k)
       PROVE  tab'[u] = tab[u] \/ DraftShown(u, k)
  <2>1. tab'[u] = tab[u] \/ (calls[k].tab = u /\ tab'[u] = Show(tab[u], calls[k].draft))
    BY <1>11 DEF DraftArrives, Typed
  <2>2. calls[k].draft \in Row
    BY <1>11, Replying DEF Row
  <2> QED
    BY <1>0, <1>11, <2>1, <2>2, Showing DEF DraftShown, OnWireKept, FollowsOn
<1>12. ASSUME NEW k \in Slots, SendArrives(k)
       PROVE  tab'[u] = tab[u] \/ SendShown(u, k)
  <2> DEFINE sent == IF calls[k].mine THEN "ok" ELSE tab[u].send
  <2>1. tab'[u] = tab[u] \/ (calls[k].tab = u /\ tab'[u] = Show([tab[u] EXCEPT !.send = sent], NoDraft))
    BY <1>12 DEF SendArrives, Confirmed, Typed
  <2>2. sent \in {"idle", "ok", "error"}
    BY <1>0 DEF TabSet, TabState
  <2> HIDE DEF sent
  <2> DEFINE s == Show([tab[u] EXCEPT !.send = sent], NoDraft)
  <2>3. /\ s.view = NoDraft /\ s.wire = tab[u].wire /\ s.snap = tab[u].snap
        /\ s.open = tab[u].open /\ s.send = sent /\ Follows(s)
    BY <1>0, <2>2, Confirming
  <2> HIDE DEF s
  <2> QED
    BY <1>12, <2>1, <2>3 DEF SendShown, OnWireKept, sent, s
<1>13. ASSUME Crash
       PROVE  Survived(u)
  <2>1. tab'[u] = Survivor(tab[u], Pending(u, "send")) /\ Pending(u, "send") \in BOOLEAN
    BY <1>13 DEF Crash, Survivor, Pending
  <2> QED
    BY <1>0, <1>13, <2>1, Surviving DEF Survived, FollowsOn
<1>14. ASSUME NEW k \in Slots, Handler(k) \/ ModelFails(k), ~SendArrives(k), ~DraftArrives(k)
       PROVE  UNCHANGED tab
  BY <1>14 DEF Handler, ModelReturns, ThreadFound, Transmitted, Filed, Moved, Learned, ModelFails
<1>15. ASSUME NEW t \in Tabs, Generate(t) \/ Refine(t)
       PROVE  UNCHANGED tab
  BY <1>15 DEF Generate, Refine
<1> QED
  BY <1>1, <1>2, <1>3, <1>4, <1>5, <1>7, <1>8, <1>9, <1>10, <1>11, <1>12, <1>13, <1>14, <1>15
     DEF Next, Person, Query, vars

-----------------------------------------------------------------------------
(* One tab, whose fetches cross nothing.                                   *)

OneTab == \A t, u \in Tabs : t = u
Calm == OneTab /\ "fetch" \notin crossed

\* While a call is in flight nothing is fetched, and its tab is waiting or closed;
\* what was fetched is what is stored; one send is under way, for the last click.
Quiet ==
  /\ \A k \in Slots, t \in Tabs :
       calls[k] # Free => tab[t].wire = "none" /\ (calls[k].mine \/ ~tab[t].open)
  /\ \A t \in Tabs : tab[t].wire = "answered" => tab[t].snap = store
  /\ \A k, l \in Slots : Sending(k) /\ Sending(l) => k = l
  /\ \A k \in Slots : Sending(k) => calls[k].click = Len(clicks)

\* What was asked for is asked when nothing is in flight.
LEMMA AskedAlone ==
  ASSUME Typed, NEW t \in Tabs, Open(t) \/ Retry(t), "fetch" \notin crossed'
  PROVE  \A k \in Slots : calls[k] = Free /\ calls'[k] = Free
BY DEF Open, Retry, FetchCrossing

\* What is posted is posted when nothing is fetched, and by the tab that waits for
\* whatever is in flight.
LEMMA PostedAlone ==
  ASSUME Typed, Quiet, OneTab, NEW t \in Tabs, Posts(t), "fetch" \notin crossed'
  PROVE  /\ \A u \in Tabs : tab[u].wire = "none" /\ tab'[u].wire = "none"
         /\ \A u \in Tabs : tab[u].open /\ tab'[u].open
         /\ \A u \in Tabs : tab'[u].view = tab[u].view /\ tab'[u].snap = tab[u].snap
         /\ \A k \in Slots : calls[k] # Free => calls[k].mine /\ calls[k].tab = t
         /\ Send(t) => \A k \in Slots : ~Sending(k)
<1>1. PICK k \in Slots : crossed' = crossed \union Crossings(calls'[k].kind)
  BY PostsStep
<1>2. \A u \in Tabs : tab[u].wire = "none"
  BY <1>1 DEF Crossings
<1>3. \A u \in Tabs : tab[u].open
  BY PostsStep DEF OneTab
<1>4. \A u \in Tabs : /\ tab'[u].wire = tab[u].wire /\ tab'[u].open = tab[u].open
                      /\ tab'[u].view = tab[u].view /\ tab'[u].snap = tab[u].snap
  <2>1. CASE Generate(t) \/ Refine(t)
    BY <2>1 DEF Generate, Refine
  <2>2. CASE Send(t)
    <3>1. tab' = [tab EXCEPT ![t] = [tab[t] EXCEPT !.send = "idle"]]
      BY <2>2 DEF Send
    <3>2. /\ [tab[t] EXCEPT !.send = "idle"].wire = tab[t].wire
          /\ [tab[t] EXCEPT !.send = "idle"].open = tab[t].open
          /\ [tab[t] EXCEPT !.send = "idle"].view = tab[t].view
          /\ [tab[t] EXCEPT !.send = "idle"].snap = tab[t].snap
      BY Touching DEF Typed
    <3> HIDE DEF Send
    <3> QED
      BY <3>1, <3>2 DEF Typed
  <2> QED
    BY <2>1, <2>2 DEF Posts
<1>5. \A j \in Slots : calls[j] # Free => calls[j].mine /\ calls[j].tab = t
  <2> SUFFICES ASSUME NEW j \in Slots, calls[j] # Free
               PROVE  calls[j].mine /\ calls[j].tab = t
    OBVIOUS
  <2>1. calls[j].tab \in Tabs
    BY Kinds DEF Typed
  <2> QED
    BY <1>3, <2>1 DEF Quiet, OneTab
<1>6. Send(t) => \A j \in Slots : ~Sending(j)
  BY <1>5 DEF Send, Pending, Sending, Free
<1> QED
  BY <1>2, <1>3, <1>4, <1>5, <1>6

LEMMA QuietStep ==
  ASSUME Typed, Quiet, OneTab, [Next]_vars, "fetch" \notin crossed'
  PROVE  Quiet'
<1>0. \A k \in Slots, t \in Tabs :
        calls[k] # Free => tab[t].wire = "none" /\ (calls[k].mine \/ ~tab[t].open)
  BY DEF Quiet
<1>1. ASSUME NEW k \in Slots, calls[k] # Free, NEW t \in Tabs, ~Posts(t)
      PROVE  tab'[t].wire = "none" /\ (tab'[t].open => tab[t].open)
  <2>1. tab[t].wire = "none" /\ ~Opened(t) /\ ~AskedAgain(t) /\ ~ServedTo(t) /\ ~Fetched(t)
    BY <1>0, <1>1, AskedAlone DEF Opened, AskedAgain, ServedTo, Fetched, FetchServed, FetchArrives
  <2> QED
    BY <2>1, TabsStep DEF Untouched, LeftBehind, Survived, DraftShown, SendShown, OnWireKept
<1>2. ASSUME NEW k \in Slots, NEW t \in Tabs, calls'[k] # Free
      PROVE  tab'[t].wire = "none" /\ (calls'[k].mine \/ ~tab'[t].open)
  <2>1. CASE Posts(t)
    <3>1. PICK j \in Slots : calls'[j].mine /\ \A l \in Slots \ {j} : calls'[l] = calls[l]
      BY <2>1, PostsStep
    <3> QED
      BY <1>2, <2>1, <3>1, PostedAlone
  <2>2. CASE ~Posts(t)
    <3>1. CallsKept /\ (MineKept \/ Leave(t))
      BY <2>2, CallsStep DEF OneTab
    <3>2. calls[k] # Free
      BY <1>2, <3>1 DEF CallsKept, SameCall
    <3>3. Leave(t) => ~tab'[t].open
      BY Hiding DEF Leave, Typed
    <3> QED
      BY <1>0, <1>1, <1>2, <2>2, <3>1, <3>2, <3>3 DEF MineKept
  <2> QED
    BY <2>1, <2>2
<1>3. ASSUME NEW t \in Tabs, tab'[t].wire = "answered"
      PROVE  tab'[t].snap = store'
  <2>1. ~Posts(t) /\ \A k \in Slots : calls[k] = Free
    BY <1>1, <1>3, PostedAlone
  <2>2. store' = store
    <3>1. \A k \in Slots : ~Moved(k) /\ ~Learned(k) /\ ~ModelReturns(k)
      BY <2>1 DEF Moved, Learned, ModelReturns, At, Sending, Drafting, Free
    <3> QED
      BY <3>1, StoreStep
  <2>3. tab[t].wire = "answered" => tab[t].snap = store
    BY DEF Quiet
  <2> QED
    BY <1>3, <2>2, <2>3, TabsStep
       DEF Untouched, Opened, LeftBehind, AskedAgain, ServedTo, Fetched, Survived, DraftShown,
           SendShown, OnWireKept
<1>4. /\ \A k, l \in Slots : Sending(k)' /\ Sending(l)' => k = l
      /\ \A k \in Slots : Sending(k)' => calls'[k].click = Len(clicks')
  <2>1. ASSUME NEW t \in Tabs, Posts(t)
        PROVE  /\ \A k, l \in Slots : Sending(k)' /\ Sending(l)' => k = l
               /\ \A k \in Slots : Sending(k)' => calls'[k].click = Len(clicks')
    <3>1. PICK j \in Slots : /\ \A l \in Slots \ {j} : calls'[l] = calls[l]
                             /\ Drafted(t, j) \/ Clicks(t, j)
      BY <2>1, PostsStep
    <3>2. CASE Drafted(t, j)
      <4>1. clicks' = clicks
        BY <3>2 DEF Drafted, Generate, Refine
      <4>2. ~Sending(j)'
        BY <3>2 DEF Drafted, Sending
      <4>3. \A l \in Slots : Sending(l)' => Sending(l) /\ calls'[l] = calls[l]
        BY <3>1, <4>2 DEF Sending
      <4>4. /\ \A k, l \in Slots : Sending(k) /\ Sending(l) => k = l
            /\ \A k \in Slots : Sending(k) => calls[k].click = Len(clicks)
        BY DEF Quiet
      <4> QED
        BY <4>1, <4>3, <4>4
    <3>3. CASE Clicks(t, j)
      <4>1. \A l \in Slots : ~Sending(l)
        BY <2>1, <3>3, PostedAlone DEF Clicks
      <4>2. Len(clicks') = Len(clicks) + 1
        BY <3>3, Sent DEF Clicks
      <4>3. \A l \in Slots : Sending(l)' => l = j
        BY <3>1, <4>1 DEF Sending
      <4>4. calls'[j].click = Len(clicks')
        BY <3>3, <4>2 DEF Clicks
      <4> QED
        BY <4>3, <4>4
    <3> QED
      BY <3>1, <3>2, <3>3
  <2>2. CASE \A t \in Tabs : ~Posts(t)
    <3>1. CallsKept /\ ClicksKept
      BY <2>2, CallsStep, ClicksStep DEF Posts
    <3>2. \A k \in Slots : Sending(k)' => Sending(k) /\ calls'[k].click = calls[k].click
      BY <3>1 DEF CallsKept, SameCall, Sending, Free
    <3> QED
      BY <3>1, <3>2 DEF ClicksKept, Quiet
  <2> QED
    BY <2>1, <2>2
<1> QED
  BY <1>2, <1>3, <1>4 DEF Quiet

-----------------------------------------------------------------------------
(* A confirmed reply is not sent again.                                    *)

\* The mails went out in the order of the clicks; one that is going to is the last.
Ordered ==
  /\ \A i, j \in 1..Len(mails) : i < j => mails[i] < mails[j]
  /\ \A k \in Slots : At(k, "look") \/ At(k, "transport") =>
       \A i \in 1..Len(mails) : mails[i] < Len(clicks)

LEMMA MailsStep ==
  [Next]_vars =>
    \/ mails' = mails
    \/ \E k \in Slots : /\ Transmitted(k) \/ SendFails(k)
                        /\ At(k, "transport") /\ mails' = Append(mails, calls[k].click)
<1> SUFFICES ASSUME [Next]_vars
             PROVE  \/ mails' = mails
                    \/ \E k \in Slots : /\ Transmitted(k) \/ SendFails(k)
                                        /\ At(k, "transport") /\ mails' = Append(mails, calls[k].click)
  OBVIOUS
<1>1. ASSUME NEW t \in Tabs, Person(t) \/ Query(t)
      PROVE  mails' = mails
  BY <1>1 DEF Person, Query, Open, Leave, Retry, Edit, Generate, Refine, Send,
              FetchServed, FetchArrives
<1>2. ASSUME NEW k \in Slots, Handler(k) \/ ModelFails(k), ~Transmitted(k)
      PROVE  mails' = mails
  BY <1>2 DEF Handler, ModelReturns, DraftArrives, ThreadFound, Filed, Moved,
              Learned, SendArrives, ModelFails
<1>3. ASSUME NEW k \in Slots, Transmitted(k)
      PROVE  At(k, "transport") /\ mails' = Append(mails, calls[k].click)
  BY <1>3 DEF Transmitted
<1>4. ASSUME NEW k \in Slots, SendFails(k)
      PROVE  mails' = mails \/ (At(k, "transport") /\ mails' = Append(mails, calls[k].click))
  BY <1>4 DEF SendFails
<1>5. Crash => mails' = mails
  BY DEF Crash
<1> QED
  BY <1>1, <1>2, <1>3, <1>4, <1>5 DEF Next, vars

LEMMA OrderedStep ==
  ASSUME Typed, Quiet, OneTab, Ordered, [Next]_vars, "fetch" \notin crossed'
  PROVE  Ordered'
<1>0. /\ mails \in Seq(1..Len(clicks)) /\ Len(clicks) \in Nat /\ Len(mails) \in Nat
      /\ \A i \in 1..Len(mails) : mails[i] \in 1..Len(clicks)
  BY DEF Typed
<1>1. ASSUME NEW t \in Tabs, Posts(t)
      PROVE  Ordered'
  <2>1. mails' = mails /\ (Len(clicks') = Len(clicks) \/ (Send(t) /\ Len(clicks') = Len(clicks) + 1))
    BY <1>1, Sent DEF Posts, Generate, Refine, Send
  <2>2. PICK j \in Slots : /\ \A l \in Slots \ {j} : calls'[l] = calls[l]
                           /\ Drafted(t, j) \/ Clicks(t, j)
    BY <1>1, PostsStep
  <2>3. ASSUME NEW k \in Slots, (At(k, "look") \/ At(k, "transport"))'
        PROVE  \A i \in 1..Len(mails) : mails[i] < Len(clicks')
    <3>1. CASE Clicks(t, j)
      BY <1>0, <3>1, Sent DEF Clicks
    <3>2. CASE Drafted(t, j)
      <4>1. k # j /\ (At(k, "look") \/ At(k, "transport"))
        <5>1. calls'[k].kind = "send" /\ calls'[k].stage \in {"look", "transport"}
          BY <2>3 DEF At, Sending
        <5>2. k # j
          BY <3>2, <5>1 DEF Drafted
        <5>3. calls'[k] = calls[k]
          BY <2>2, <5>2
        <5> QED
          BY <5>1, <5>2, <5>3 DEF At, Sending
      <4> QED
        BY <1>0, <2>1, <4>1 DEF Ordered
    <3> QED
      BY <2>2, <3>1, <3>2
  <2> QED
    BY <2>1, <2>3 DEF Ordered
<1>2. ASSUME \A t \in Tabs : ~Posts(t), mails' = mails
      PROVE  Ordered'
  <2>1. CallsKept /\ ClicksKept
    BY <1>2, CallsStep, ClicksStep DEF Posts
  <2>2. ASSUME NEW k \in Slots, (At(k, "look") \/ At(k, "transport"))'
        PROVE  At(k, "look") \/ At(k, "transport")
    <3>1. calls'[k] # Free /\ Sending(k)
      BY <2>1, <2>2 DEF At, Sending, Free, CallsKept, SameCall
    <3>2. Staging(k)
      BY <1>2, <3>1, StagesStep
    <3>3. StageKept(k) \/ ThreadFound(k)
      BY <2>2, <3>2 DEF Staging, At
    <3> QED
      BY <2>2, <3>1, <3>3 DEF StageKept, ThreadFound, At
  <2> QED
    BY <1>2, <2>1, <2>2 DEF Ordered, ClicksKept
<1>3. ASSUME NEW k \in Slots, Transmitted(k) \/ SendFails(k), At(k, "transport"),
             mails' = Append(mails, calls[k].click), \A t \in Tabs : ~Posts(t)
      PROVE  Ordered'
  <2>1. /\ calls[k].click = Len(clicks) /\ \A l \in Slots : Sending(l) => l = k
        /\ \A i \in 1..Len(mails) : mails[i] < Len(clicks)
    BY <1>3 DEF Quiet, Ordered, At
  <2>2. CallsKept
    BY <1>3, CallsStep
  <2>3. ~(At(k, "look") \/ At(k, "transport"))'
    <3>1. CASE Transmitted(k)
      <4>1. calls'[k].stage = "file"
        <5>1. calls'[k] = Staged(calls[k], "file")
          BY <3>1 DEF Transmitted, To, Typed, Staged
        <5> QED
          BY <1>0, <1>3, <5>1, Advancing DEF At, Sending, Typed
      <4> QED
        BY <4>1 DEF At
    <3>2. CASE SendFails(k)
      BY <3>2 DEF SendFails, Done, Typed, At, Sending, Free
    <3> QED
      BY <1>3, <3>1, <3>2
  <2>4. \A l \in Slots : Sending(l)' => l = k
    BY <2>1, <2>2 DEF CallsKept, SameCall, Sending, Free
  <2>5. Len(mails') = Len(mails) + 1 /\ \A i \in 1..Len(mails) : mails'[i] = mails[i]
    BY <1>0, <1>3
  <2>6. mails'[Len(mails) + 1] = Len(clicks)
    BY <1>0, <1>3, <2>1
  <2>7. \A i, j \in 1..Len(mails') : i < j => mails'[i] < mails'[j]
    <3> SUFFICES ASSUME NEW i \in 1..Len(mails'), NEW j \in 1..Len(mails'), i < j
                 PROVE  mails'[i] < mails'[j]
      OBVIOUS
    <3>1. i \in 1..Len(mails) /\ (j \in 1..Len(mails) \/ j = Len(mails) + 1)
      BY <1>0, <2>5
    <3>2. mails'[i] = mails[i] /\ mails[i] < Len(clicks)
      BY <2>1, <2>5, <3>1
    <3>3. CASE j \in 1..Len(mails)
      BY <2>5, <3>1, <3>2, <3>3 DEF Ordered
    <3>4. CASE j = Len(mails) + 1
      BY <2>6, <3>2, <3>4
    <3> QED
      BY <3>1, <3>3, <3>4
  <2>8. \A l \in Slots : ~(At(l, "look") \/ At(l, "transport"))'
    BY <2>3, <2>4 DEF At
  <2> QED
    BY <2>7, <2>8 DEF Ordered
<1> QED
  BY <1>1, <1>2, <1>3, MailsStep

TextOf(i) == clicks[i].text.of

\* What is on the screen is being drafted by no call in flight.
Settled == \A t \in Tabs, k \in Slots : Drafting(k) => Body(calls[k]) \notin Screen(tab[t])

\* A confirmed body is on no screen, in no call and not in the store.
Gone ==
  \A i \in 1..Len(clicks) : clicks[i].end = "ok" =>
    /\ \A t \in Tabs : TextOf(i) \notin Screen(tab[t])
    /\ \A k \in Slots : Drafting(k) => Body(calls[k]) # TextOf(i)
    /\ TextOf(i) \notin BodiesIn(store)

\* A body that is being sent was not confirmed before, is in no drafting call, and
\* is gone from the store when the reply is under way.
Going ==
  \A k \in Slots : Sending(k) =>
    /\ \A j \in Slots : Drafting(j) => Body(calls[j]) # TextOf(calls[k].click)
    /\ \A i \in 1..Len(clicks) : clicks[i].end = "ok" => TextOf(i) # TextOf(calls[k].click)
    /\ calls[k].stage = "reply" => TextOf(calls[k].click) \notin BodiesIn(store)

Spent == Settled /\ Gone /\ Going

\* Serving a fetch adds what is stored to the screen, an arriving draft its body,
\* and a confirmation leaves nothing on it.
LEMMA Appearing ==
  ASSUME Typed, NEW u \in Tabs
  PROVE  /\ \A t \in Tabs : FetchServed(t) => Screen(tab'[u]) \subseteq Screen(tab[u]) \cup BodiesIn(store)
         /\ \A k \in Slots : DraftArrives(k) => Screen(tab'[u]) \subseteq Screen(tab[u]) \cup {Body(calls[k])}
         /\ \A k \in Slots : SendArrives(k) /\ OneTab /\ Quiet => Screen(tab'[u]) = {}
<1>0. /\ tab[u] \in TabSet /\ store \in Row /\ Len(clicks) \in Nat
      /\ \A k \in Slots : calls[k] \in CallSet(Len(clicks))
  BY DEF Typed
<1>1. ASSUME NEW t \in Tabs, FetchServed(t)
      PROVE  Screen(tab'[u]) \subseteq Screen(tab[u]) \cup BodiesIn(store)
  <2>1. tab'[u] = tab[u] \/ tab'[u] = Wired(tab[u], "answered", store)
    BY <1>1 DEF FetchServed, Wired, Typed
  <2>2. Screen(Wired(tab[u], "answered", store)) \subseteq Screen(tab[u]) \cup BodiesIn(store)
    BY <1>0, Fetching
  <2> QED
    BY <2>1, <2>2
<1>2. ASSUME NEW k \in Slots, DraftArrives(k)
      PROVE  Screen(tab'[u]) \subseteq Screen(tab[u]) \cup {Body(calls[k])}
  <2>1. tab'[u] = tab[u] \/ tab'[u] = Show(tab[u], calls[k].draft)
    BY <1>2 DEF DraftArrives, Typed
  <2>2. calls[k].draft \in Row /\ BodiesIn(calls[k].draft) = {Body(calls[k])}
    BY <1>2, Replying DEF Row
  <2>3. Screen(Show(tab[u], calls[k].draft)) \subseteq Screen(tab[u]) \cup {Body(calls[k])}
    BY <1>0, <2>2, Showing
  <2> QED
    BY <2>1, <2>3
<1>3. ASSUME NEW k \in Slots, SendArrives(k), OneTab, Quiet
      PROVE  Screen(tab'[u]) = {}
  <2> DEFINE sent == IF calls[k].mine THEN "ok" ELSE tab[u].send
             s == Show([tab[u] EXCEPT !.send = sent], NoDraft)
  <2>1. calls[k] # Free
    BY <1>3 DEF SendArrives, At, Sending, Free
  <2>2. calls[k].tab = u
    BY <1>0, <1>3, <2>1, Kinds DEF OneTab
  <2>3. tab[u].wire = "none"
    BY <1>3, <2>1 DEF Quiet
  <2>4. tab'[u] = s
    BY <1>3, <2>2 DEF SendArrives, Confirmed, Typed
  <2>5. sent \in {"idle", "ok", "error"}
    BY <1>0 DEF TabSet, TabState
  <2> HIDE DEF sent
  <2>6. s.view = NoDraft /\ s.wire = tab[u].wire /\ s.shown = 0
    BY <1>0, <2>5, Confirming
  <2> HIDE DEF s
  <2> QED
    BY <2>3, <2>4, <2>6 DEF Screen, BodiesIn
<1> QED
  BY <1>1, <1>2, <1>3

LEMMA SettledStep ==
  ASSUME Typed, Fresh, Quiet, OneTab, Settled, [Next]_vars, "fetch" \notin crossed'
  PROVE  Settled'
<1> SUFFICES ASSUME NEW t \in Tabs, NEW k \in Slots, Drafting(k)'
             PROVE  Body(calls'[k]) \notin Screen(tab'[t])
  BY DEF Settled
<1>1. CASE ScreensKept
  <2>1. CASE CallsKept
    BY <1>1, <2>1 DEF ScreensKept, CallsKept, SameCall, Drafting, Free, Body, Settled
  <2>2. ASSUME NEW u \in Tabs, Posts(u)
        PROVE  Body(calls'[k]) \notin Screen(tab'[t])
    <3>1. PICK j \in Slots :
            /\ \A l \in Slots \ {j} : calls'[l] = calls[l]
            /\ Drafted(u, j) \/ Clicks(u, j)
      BY <2>2, PostsStep
    <3>2. CASE k = j
      <4>1. Body(calls'[k]) = bodies + 1 /\ bodies \in Nat
        BY <3>1, <3>2 DEF Drafted, Clicks, Drafting, Typed
      <4>2. Screen(tab'[t]) \subseteq 0..bodies
        BY <1>1 DEF ScreensKept, Fresh
      <4> QED
        BY <4>1, <4>2
    <3>3. CASE k # j
      <4>1. calls'[k] = calls[k] /\ Drafting(k)
        BY <3>1, <3>3 DEF Drafting
      <4> QED
        BY <1>1, <4>1 DEF ScreensKept, Settled
    <3> QED
      BY <3>2, <3>3
  <2> QED
    BY <2>1, <2>2, CallsStep
<1>2. ASSUME NEW u \in Tabs, FetchServed(u)
      PROVE  FALSE
  <2>1. calls'[k] = calls[k] /\ calls[k] # Free
    BY <1>2 DEF FetchServed, Drafting, Free
  <2> QED
    BY <1>2, <2>1 DEF FetchServed, Quiet
<1>3. ASSUME NEW j \in Slots, DraftArrives(j)
      PROVE  Body(calls'[k]) \notin Screen(tab'[t])
  <2>1. k # j /\ calls'[k] = calls[k] /\ Drafting(k) /\ Drafting(j)
    BY <1>3 DEF DraftArrives, Done, Typed, Drafting, Free
  <2>2. Body(calls[k]) # Body(calls[j])
    BY <2>1 DEF Fresh
  <2> QED
    BY <1>3, <2>1, <2>2, Appearing DEF Settled
<1> QED
  BY <1>1, <1>2, <1>3, ScreensStep

LEMMA GoneStep ==
  ASSUME Typed, Fresh, Quiet, OneTab, Gone, Going, [Next]_vars, "fetch" \notin crossed'
  PROVE  Gone'
<1> SUFFICES ASSUME NEW i \in 1..Len(clicks'), clicks'[i].end = "ok"
             PROVE  /\ \A t \in Tabs : clicks'[i].text.of \notin Screen(tab'[t])
                    /\ \A k \in Slots : Drafting(k)' => Body(calls'[k]) # clicks'[i].text.of
                    /\ clicks'[i].text.of \notin BodiesIn(store')
  BY DEF Gone, TextOf
<1>0. Len(clicks) \in Nat /\ bodies \in Nat
  BY DEF Typed
<1>1. i \in 1..Len(clicks) /\ clicks'[i].text = clicks[i].text
  <2>1. CASE ClicksKept
    BY <2>1 DEF ClicksKept
  <2>2. ASSUME NEW t \in Tabs, Send(t)
        PROVE  i \in 1..Len(clicks) /\ clicks'[i].text = clicks[i].text
    BY <1>0, <2>2, Sent
  <2> QED
    BY <2>1, <2>2, ClicksStep
<1>2. ASSUME clicks[i].end = "ok"
      PROVE  /\ \A t \in Tabs : TextOf(i) \notin Screen(tab'[t])
             /\ \A k \in Slots : Drafting(k)' => Body(calls'[k]) # TextOf(i)
             /\ TextOf(i) \notin BodiesIn(store')
  <2>0. /\ \A t \in Tabs : TextOf(i) \notin Screen(tab[t])
        /\ \A k \in Slots : Drafting(k) => Body(calls[k]) # TextOf(i)
        /\ TextOf(i) \notin BodiesIn(store) /\ TextOf(i) \in 0..bodies
    BY <1>1, <1>2 DEF Gone, Fresh, TextOf
  <2>1. \A t \in Tabs : TextOf(i) \notin Screen(tab'[t])
    <3>1. CASE ScreensKept
      BY <2>0, <3>1 DEF ScreensKept
    <3>2. ASSUME NEW u \in Tabs, FetchServed(u)
          PROVE  \A t \in Tabs : TextOf(i) \notin Screen(tab'[t])
      BY <2>0, <3>2, Appearing
    <3>3. ASSUME NEW j \in Slots, DraftArrives(j)
          PROVE  \A t \in Tabs : TextOf(i) \notin Screen(tab'[t])
      <4>1. Body(calls[j]) # TextOf(i)
        BY <2>0, <3>3 DEF DraftArrives
      <4> QED
        BY <2>0, <3>3, <4>1, Appearing
    <3> QED
      BY <3>1, <3>2, <3>3, ScreensStep
  <2>2. \A k \in Slots : Drafting(k)' => Body(calls'[k]) # TextOf(i)
    <3>1. CASE CallsKept
      BY <2>0, <3>1 DEF CallsKept, SameCall, Drafting, Free, Body
    <3>2. ASSUME NEW u \in Tabs, Posts(u)
          PROVE  \A k \in Slots : Drafting(k)' => Body(calls'[k]) # TextOf(i)
      <4>1. PICK j \in Slots :
              /\ \A l \in Slots \ {j} : calls'[l] = calls[l]
              /\ Drafted(u, j) \/ Clicks(u, j)
        BY <3>2, PostsStep
      <4>2. \A k \in Slots \ {j} : Drafting(k)' => Drafting(k) /\ Body(calls'[k]) = Body(calls[k])
        BY <4>1 DEF Drafting
      <4>3. Drafting(j)' => Body(calls'[j]) = bodies + 1
        BY <4>1 DEF Drafted, Clicks, Drafting
      <4> QED
        BY <1>0, <2>0, <4>2, <4>3
    <3> QED
      BY <3>1, <3>2, CallsStep
  <2>3. TextOf(i) \notin BodiesIn(store')
    <3>1. CASE store' \in {store, NoDraft}
      BY <2>0, <3>1 DEF BodiesIn
    <3>2. ASSUME NEW j \in Slots, ModelReturns(j)
          PROVE  TextOf(i) \notin BodiesIn(store')
      <4>1. BodiesIn(store') = {Body(calls[j])} /\ Drafting(j)
        BY <3>2, Replying DEF ModelReturns
      <4> QED
        BY <2>0, <4>1
    <3> QED
      BY <3>1, <3>2, StoreStep
  <2> QED
    BY <2>1, <2>2, <2>3
<1>3. ASSUME NEW k \in Slots, SendArrives(k), clicks[i].end # "ok"
      PROVE  /\ \A t \in Tabs : TextOf(i) \notin Screen(tab'[t])
             /\ \A j \in Slots : Drafting(j)' => Body(calls'[j]) # TextOf(i)
             /\ TextOf(i) \notin BodiesIn(store')
  <2>1. i = calls[k].click
    <3>1. calls[k].click \in 1..Len(clicks) /\ clicks \in Seq(Click)
      BY <1>0, <1>3, Kinds DEF SendArrives, At, Sending, Typed
    <3>2. clicks' = [clicks EXCEPT ![calls[k].click].end = "ok"]
      BY <1>3 DEF SendArrives, Ends
    <3> QED
      BY <1>1, <1>3, <3>1, <3>2, Ending
  <2>2. \A t \in Tabs : Screen(tab'[t]) = {}
    BY <1>3, Appearing
  <2>3. \A j \in Slots : Drafting(j)' => Drafting(j) /\ calls'[j] = calls[j]
    BY <1>3 DEF SendArrives, Done, Typed, Drafting, Free
  <2>4. Sending(k) /\ calls[k].stage = "reply" /\ store' = store
    BY <1>3 DEF SendArrives, At
  <2> QED
    BY <2>1, <2>2, <2>3, <2>4 DEF Going
<1>4. clicks[i].end = "ok" \/ \E k \in Slots : SendArrives(k)
  BY <1>1, ClicksStep DEF NoneConfirmed
<1> QED
  BY <1>1, <1>2, <1>3, <1>4 DEF TextOf

LEMMA GoingStep ==
  ASSUME Typed, Fresh, Quiet, OneTab, Spent, [Next]_vars, "fetch" \notin crossed'
  PROVE  Going'
<1> SUFFICES ASSUME NEW k \in Slots, Sending(k)'
             PROVE  /\ \A j \in Slots : Drafting(j)' => Body(calls'[j]) # clicks'[calls'[k].click].text.of
                    /\ \A i \in 1..Len(clicks') : clicks'[i].end = "ok" =>
                         clicks'[i].text.of # clicks'[calls'[k].click].text.of
                    /\ calls'[k].stage = "reply" =>
                         clicks'[calls'[k].click].text.of \notin BodiesIn(store')
  BY DEF Going, TextOf
<1>0. Len(clicks) \in Nat /\ bodies \in Nat /\ \A j \in Slots : calls[j] \in CallSet(Len(clicks))
  BY DEF Typed
<1>1. ASSUME NEW t \in Tabs, Generate(t) \/ Refine(t)
      PROVE  /\ \A j \in Slots : Drafting(j)' => Body(calls'[j]) # clicks'[calls'[k].click].text.of
             /\ \A i \in 1..Len(clicks') : clicks'[i].end = "ok" =>
                  clicks'[i].text.of # clicks'[calls'[k].click].text.of
             /\ calls'[k].stage = "reply" =>
                  clicks'[calls'[k].click].text.of \notin BodiesIn(store')
  <2>1. PICK l \in Slots :
          /\ \A j \in Slots \ {l} : calls'[j] = calls[j]
          /\ Drafted(t, l) \/ Clicks(t, l)
    BY <1>1, PostsStep DEF Posts
  <2>2. clicks' = clicks /\ store' = store
    BY <1>1 DEF Generate, Refine
  <2>3. Drafted(t, l)
    BY <1>0, <2>1, <2>2, Sent DEF Clicks
  <2>4. k # l /\ calls'[k] = calls[k] /\ Sending(k)
    BY <2>1, <2>3 DEF Drafted, Sending
  <2>5. calls[k].click \in 1..Len(clicks)
    BY <1>0, <2>4, Kinds DEF Sending
  <2>6. TextOf(calls[k].click) \in 0..bodies
    BY <2>5 DEF Fresh, TextOf
  <2>7. /\ Body(calls'[l]) = bodies + 1
        /\ \A j \in Slots \ {l} : Drafting(j)' => Drafting(j) /\ Body(calls'[j]) = Body(calls[j])
    BY <2>1, <2>3 DEF Drafted, Drafting
  <2> QED
    BY <1>0, <2>2, <2>4, <2>6, <2>7 DEF Spent, Going, TextOf
<1>2. ASSUME NEW t \in Tabs, Send(t)
      PROVE  /\ \A j \in Slots : Drafting(j)' => Body(calls'[j]) # clicks'[calls'[k].click].text.of
             /\ \A i \in 1..Len(clicks') : clicks'[i].end = "ok" =>
                  clicks'[i].text.of # clicks'[calls'[k].click].text.of
             /\ calls'[k].stage # "reply"
  <2>1. PICK l \in Slots :
          /\ \A j \in Slots \ {l} : calls'[j] = calls[j]
          /\ Drafted(t, l) \/ Clicks(t, l)
    BY <1>2, PostsStep DEF Posts
  <2>2. Clicks(t, l)
    BY <1>2, <2>1 DEF Drafted, Send, Typed
  <2>3. k = l
    BY <1>2, <2>1, PostedAlone DEF Posts, Sending
  <2>4. calls'[k].click = Len(clicks) + 1 /\ calls'[k].stage = "look"
    BY <2>2, <2>3 DEF Clicks
  <2> DEFINE b == clicks'[Len(clicks) + 1].text.of
  <2>5. /\ b \in Screen(tab[t]) /\ Len(clicks') = Len(clicks) + 1
        /\ clicks'[Len(clicks) + 1].end = "open"
        /\ \A i \in 1..Len(clicks) : clicks'[i] = clicks[i]
    BY <1>2, Sent
  <2> HIDE DEF b
  <2>6. \A j \in Slots : Drafting(j)' => Body(calls'[j]) # b
    <3>1. \A j \in Slots : Drafting(j)' => Drafting(j) /\ calls'[j] = calls[j]
      BY <2>1, <2>2 DEF Clicks, Drafting
    <3> QED
      BY <2>5, <3>1 DEF Spent, Settled
  <2>7. \A i \in 1..Len(clicks') : clicks'[i].end = "ok" => clicks'[i].text.of # b
    <3> SUFFICES ASSUME NEW i \in 1..Len(clicks'), clicks'[i].end = "ok"
                 PROVE  clicks'[i].text.of # b
      OBVIOUS
    <3>1. i \in 1..Len(clicks)
      BY <1>0, <2>5
    <3>2. TextOf(i) \notin Screen(tab[t])
      BY <2>5, <3>1 DEF Spent, Gone
    <3> QED
      BY <2>5, <3>1, <3>2 DEF TextOf
  <2> QED
    BY <2>4, <2>6, <2>7 DEF b
<1>3. ASSUME \A t \in Tabs : ~Posts(t)
      PROVE  /\ \A j \in Slots : Drafting(j)' => Body(calls'[j]) # clicks'[calls'[k].click].text.of
             /\ \A i \in 1..Len(clicks') : clicks'[i].end = "ok" =>
                  clicks'[i].text.of # clicks'[calls'[k].click].text.of
             /\ calls'[k].stage = "reply" =>
                  clicks'[calls'[k].click].text.of \notin BodiesIn(store')
  <2>1. CallsKept /\ ClicksKept
    BY <1>3, CallsStep, ClicksStep DEF Posts
  <2>2. Sending(k) /\ calls'[k].click = calls[k].click /\ calls'[k] # Free
    BY <2>1 DEF CallsKept, SameCall, Sending, Free
  <2>3. calls[k].click \in 1..Len(clicks)
    BY <1>0, <2>2, Kinds DEF Sending
  <2>4. clicks'[calls'[k].click].text.of = TextOf(calls[k].click)
    BY <2>1, <2>2, <2>3 DEF ClicksKept, TextOf
  <2>5. \A j \in Slots : Drafting(j)' => Body(calls'[j]) # TextOf(calls[k].click)
    BY <2>1, <2>2 DEF Spent, Going, CallsKept, SameCall, Drafting, Free, Body
  <2>6. NoneConfirmed
    <3>1. ASSUME NEW j \in Slots, SendArrives(j)
          PROVE  FALSE
      <4>1. Sending(j) /\ calls'[j] = Free
        BY <3>1 DEF SendArrives, At, Done, Typed
      <4>2. j = k
        BY <2>2, <4>1 DEF Quiet
      <4> QED
        BY <2>2, <4>1, <4>2
    <3> QED
      BY <3>1, ClicksStep
  <2>7. \A i \in 1..Len(clicks') : clicks'[i].end = "ok" => clicks'[i].text.of # TextOf(calls[k].click)
    BY <2>1, <2>2, <2>6 DEF ClicksKept, NoneConfirmed, Spent, Going, TextOf
  <2>8. calls'[k].stage = "reply" => TextOf(calls[k].click) \notin BodiesIn(store')
    <3>1. CASE store' = store
      <4>1. Staging(k)
        BY <1>3, <2>2, StagesStep
      <4>2. ~ModelReturns(k)
        BY <2>2 DEF ModelReturns, Drafting, Sending
      <4> QED
        BY <2>2, <3>1, <4>1, <4>2 DEF Staging, StageKept, Spent, Going, BodiesIn
    <3>2. CASE store' = NoDraft
      BY <3>2 DEF BodiesIn
    <3>3. ASSUME NEW j \in Slots, ModelReturns(j)
          PROVE  TextOf(calls[k].click) \notin BodiesIn(store')
      <4>1. BodiesIn(store') = {Body(calls[j])} /\ Drafting(j)
        BY <3>3, Replying DEF ModelReturns
      <4> QED
        BY <2>2, <4>1 DEF Spent, Going
    <3> QED
      BY <3>1, <3>2, <3>3, StoreStep
  <2> QED
    BY <2>4, <2>5, <2>7, <2>8
<1> QED
  BY <1>1, <1>2, <1>3 DEF Posts

\* A body goes out again only as long as no click confirmed it.
NoResend ==
  \A i, j \in 1..Len(mails) :
    i < j /\ TextOf(mails[i]) = TextOf(mails[j]) => clicks[mails[i]].end # "ok"

LEMMA NoResendStep ==
  ASSUME Typed, Quiet, OneTab, Ordered, Spent, NoResend, [Next]_vars, "fetch" \notin crossed'
  PROVE  NoResend'
<1> SUFFICES ASSUME NEW i \in 1..Len(mails'), NEW j \in 1..Len(mails'), i < j,
                    clicks'[mails'[i]].end = "ok"
             PROVE  clicks'[mails'[i]].text.of # clicks'[mails'[j]].text.of
  BY DEF NoResend, TextOf
<1>0. /\ mails \in Seq(1..Len(clicks)) /\ Len(clicks) \in Nat /\ Len(mails) \in Nat
      /\ \A n \in 1..Len(mails) : mails[n] \in 1..Len(clicks)
      /\ clicks \in Seq(Click)
  BY DEF Typed
<1>1. \A n \in 1..Len(clicks) : clicks'[n].text = clicks[n].text
  BY Sent, ClicksStep DEF ClicksKept
<1>2. CASE i \in 1..Len(mails) /\ j \in 1..Len(mails) /\ mails'[i] = mails[i] /\ mails'[j] = mails[j]
  <2>1. mails[i] \in 1..Len(clicks) /\ mails[j] \in 1..Len(clicks) /\ mails[i] < mails[j]
    BY <1>0, <1>2 DEF Ordered
  <2>2. clicks[mails[i]].end = "ok"
    <3>1. CASE NoneConfirmed
      BY <1>2, <2>1, <3>1 DEF NoneConfirmed
    <3>2. ASSUME NEW k \in Slots, SendArrives(k)
          PROVE  clicks[mails[i]].end = "ok"
      <4>1. calls[k].click = Len(clicks) /\ clicks' = [clicks EXCEPT ![calls[k].click].end = "ok"]
        BY <3>2 DEF SendArrives, At, Ends, Quiet
      <4>2. mails[i] # calls[k].click /\ calls[k].click \in 1..Len(clicks)
        BY <1>0, <2>1, <4>1
      <4> QED
        BY <1>0, <1>2, <2>1, <4>1, <4>2, Ending
    <3> QED
      BY <3>1, <3>2, ClicksStep
  <2> QED
    BY <1>1, <1>2, <2>1, <2>2 DEF NoResend, TextOf
<1>3. CASE mails' = mails
  BY <1>2, <1>3
<1>4. ASSUME NEW k \in Slots, Transmitted(k) \/ SendFails(k), At(k, "transport"),
             mails' = Append(mails, calls[k].click)
      PROVE  clicks'[mails'[i]].text.of # clicks'[mails'[j]].text.of
  <2>1. calls[k].click \in 1..Len(clicks)
    BY <1>0, <1>4, Kinds DEF At, Sending, Typed
  <2>2. /\ Len(mails') = Len(mails) + 1 /\ \A n \in 1..Len(mails) : mails'[n] = mails[n]
        /\ mails'[Len(mails) + 1] = calls[k].click
    BY <1>0, <1>4, <2>1
  <2>3. i \in 1..Len(mails) /\ (j \in 1..Len(mails) \/ j = Len(mails) + 1)
    <3>1. Len(mails) \in Nat /\ Len(mails') = Len(mails) + 1
      BY <1>0, <2>2
    <3>2. i \in 1..(Len(mails) + 1) /\ j \in 1..(Len(mails) + 1) /\ i < j
      BY <3>1
    <3> QED
      BY <3>1, <3>2
  <2>4. CASE j = Len(mails) + 1
    <3>1. NoneConfirmed
      <4>1. CASE Transmitted(k)
        BY <4>1 DEF Transmitted, NoneConfirmed
      <4>2. CASE SendFails(k)
        <5>1. clicks' = [clicks EXCEPT ![calls[k].click].end = "error"]
          BY <4>2 DEF SendFails, Ends
        <5> QED
          BY <1>0, <2>1, <5>1, Ending DEF NoneConfirmed
      <4> QED
        BY <1>4, <4>1, <4>2
    <3>2. mails[i] \in 1..Len(clicks) /\ clicks[mails[i]].end = "ok"
      BY <1>0, <2>2, <2>3, <3>1 DEF NoneConfirmed
    <3>3. TextOf(mails[i]) # TextOf(calls[k].click)
      BY <1>4, <3>2 DEF Spent, Going, At
    <3> QED
      BY <1>1, <2>1, <2>2, <2>3, <2>4, <3>2, <3>3 DEF TextOf
  <2> QED
    BY <1>2, <2>2, <2>3, <2>4
<1> QED
  BY <1>3, <1>4, MailsStep

\* The inductive invariant of the send.
Sends ==
  /\ Typed /\ Fresh
  /\ Calm => Quiet /\ Ordered /\ Spent /\ NoResend

LEMMA SendsInit == Init => Sends
<1> SUFFICES ASSUME Init PROVE Sends
  OBVIOUS
<1>1. Typed
  BY TypedInit
<1>2. \A k \in Slots : calls[k] = Free /\ ~Drafting(k) /\ ~Sending(k)
  BY DEF Init, Drafting, Sending, Free
<1>3. \A t \in Tabs : Screen(tab[t]) = {} /\ tab[t].wire = "none"
  BY DEF Init, Closed, Screen, BodiesIn
<1>4. Len(clicks) = 0 /\ Len(mails) = 0 /\ BodiesIn(store) = {}
  BY DEF Init, BodiesIn
<1>5. Fresh
  BY <1>2, <1>3, <1>4 DEF Fresh
<1>6. Quiet
  BY <1>2, <1>3 DEF Quiet
<1>7. Ordered /\ NoResend /\ Spent
  BY <1>2, <1>3, <1>4 DEF Ordered, NoResend, Spent, Settled, Gone, Going, At
<1> QED
  BY <1>1, <1>5, <1>6, <1>7 DEF Sends

LEMMA SendsStep == Sends /\ [Next]_vars => Sends'
<1> SUFFICES ASSUME Sends, [Next]_vars
             PROVE  Sends'
  OBVIOUS
<1>1. Typed /\ Fresh
  BY DEF Sends
<1>2. Typed' /\ Fresh'
  BY <1>1, TypedStep, FreshStep
<1>3. ASSUME OneTab, "fetch" \notin crossed'
      PROVE  Quiet' /\ Ordered' /\ Spent' /\ NoResend'
  <2>1. Quiet /\ Ordered /\ Spent /\ NoResend
    BY <1>3, CrossedStep DEF Sends, Calm
  <2>2. Settled /\ Gone /\ Going
    BY <2>1 DEF Spent
  <2>3. Settled' /\ Gone' /\ Going'
    BY <1>1, <1>3, <2>1, <2>2, SettledStep, GoneStep, GoingStep
  <2> QED
    BY <1>1, <1>3, <2>1, <2>3, QuietStep, OrderedStep, NoResendStep DEF Spent
<1>4. Calm' => OneTab /\ "fetch" \notin crossed'
  BY DEF Calm, OneTab
<1> QED
  BY <1>2, <1>3, <1>4 DEF Sends

\* Whatever fails and in whatever order the calls of the tab are answered, the
\* store, the calls, the tabs and the history of the sends keep their types, and
\* no handler works on a click nobody made or on a draft that is not there.
THEOREM TypeCorrect == Spec => []Typed
<1>1. Init => Sends
  BY SendsInit
<1>2. Sends /\ [Next]_vars => Sends'
  BY SendsStep
<1>3. Sends => Typed
  BY DEF Sends
<1> QED
  BY <1>1, <1>2, <1>3, PTL DEF Spec

\* A reply that was sent, and confirmed to have been (POST .../send), is not sent
\* again from the one tab: with no fetch of the draft crossing another call, its
\* body is gone from the store, from the calls in flight and from the screen.
THEOREM SentOnceHolds == Spec => []SentOnce
<1>1. Sends => SentOnce
  <2> SUFFICES ASSUME Sends, \A t, u \in Tabs : t = u, "fetch" \notin crossed
               PROVE  \A i, j \in DOMAIN mails :
                        i < j /\ clicks[mails[i]].text.of = clicks[mails[j]].text.of
                          => clicks[mails[i]].end # "ok"
    BY DEF SentOnce
  <2>1. NoResend /\ DOMAIN mails = 1..Len(mails)
    BY DEF Sends, Calm, OneTab, Typed
  <2> QED
    BY <2>1 DEF NoResend, TextOf
<1>2. Init => Sends
  BY SendsInit
<1>3. Sends /\ [Next]_vars => Sends'
  BY SendsStep
<1> QED
  BY <1>1, <1>2, <1>3, PTL DEF Spec

-----------------------------------------------------------------------------
(* A lesson is about what the person edited.                               *)

\* One tab, and no call of it was in flight with another.
Alone == OneTab /\ crossed = {}

\* A call posted by itself finds every slot free and no fetch on its way.
LEMMA PostedByItself ==
  ASSUME Typed, NEW t \in Tabs, Posts(t), crossed' = {}
  PROVE  (\A k \in Slots : calls[k] = Free) /\ (\A u \in Tabs : tab[u].wire = "none")
<1>1. PICK k \in Slots : /\ calls'[k].kind \in {"generate", "refine", "send"}
                         /\ crossed' = crossed \union Crossings(calls'[k].kind)
  BY PostsStep DEF Drafted, Clicks
<1>2. Crossings(calls'[k].kind) = {}
  BY <1>1
<1>3. \A j \in Slots : ~Drafting(j) /\ ~Sending(j)
  BY <1>1, <1>2 DEF Crossings
<1>4. \A u \in Tabs : tab[u].wire = "none"
  BY <1>1, <1>2 DEF Crossings
<1>5. \A j \in Slots : calls[j] = Free
  <2> TAKE j \in Slots
  <2>1. calls[j] \in CallSet(Len(clicks)) /\ Len(clicks) \in Nat
    BY DEF Typed
  <2> QED
    BY <1>3, <2>1, Kinds DEF Drafting, Sending
<1> QED
  BY <1>4, <1>5

Lesson(l) == l.draft = clicks[l.click].seen /\ (clicks[l.click].text.edited \/ clicks[l.click].text.of # l.draft)

\* One call is in flight.  The draft that is stored is the one its drafting call
\* is bringing, or the one on the screen: so it is the one that was seen by
\* the click whose send is under way, and the one the send compares.
Single ==
  /\ \A k, l \in Slots : calls[k] # Free /\ calls[l] # Free => k = l
  /\ \A k \in Slots : Drafting(k) /\ calls[k].stage = "reply" => calls[k].draft = store
  /\ \A k \in Slots : At(k, "reply") => store = NoDraft
  /\ \A k \in Slots : At(k, "learn") =>
       /\ calls[k].draft = store /\ store # NoDraft
       /\ Differs(clicks[calls[k].click].text, store)
  /\ \A k \in Slots : Sending(k) => store = NoDraft \/ clicks[calls[k].click].seen = BodyOf(store)
  /\ \/ store = NoDraft
     \/ \E k \in Slots : Drafting(k) /\ calls[k].stage = "reply"
     \/ \A t \in Tabs : tab[t].view = store
  /\ \A l \in lessons : Lesson(l)

\* A lesson is added when a send that learned ends.
LEMMA LessonsStep ==
  [Next]_vars =>
    \/ lessons' = lessons
    \/ \E k \in Slots : /\ Learned(k)
                        /\ lessons' = lessons \union
                             {[draft |-> BodyOf(calls[k].draft), click |-> calls[k].click]}
<1> SUFFICES ASSUME [Next]_vars, \A k \in Slots : ~Learned(k)
             PROVE  lessons' = lessons
  BY DEF Learned
<1>1. ASSUME NEW t \in Tabs, Person(t) \/ Query(t)
      PROVE  lessons' = lessons
  BY <1>1 DEF Person, Query, Open, Leave, Retry, Edit, Generate, Refine, Send,
              FetchServed, FetchArrives
<1>2. ASSUME NEW k \in Slots, Handler(k) \/ ModelFails(k) \/ SendFails(k)
      PROVE  lessons' = lessons
  BY <1>2 DEF Handler, ModelReturns, DraftArrives, ThreadFound, Transmitted, Filed, Moved,
              SendArrives, ModelFails, SendFails
<1>3. Crash => lessons' = lessons
  BY DEF Crash
<1> QED
  BY <1>1, <1>2, <1>3 DEF Next, vars

LEMMA SinglePosts ==
  ASSUME Typed, Quiet, Single, OneTab, crossed' = {}, NEW t \in Tabs, Posts(t)
  PROVE  Single'
<1>0. Len(clicks) \in Nat /\ \A l \in lessons : l.click \in 1..Len(clicks)
  BY DEF Typed
<1>1. /\ \A k \in Slots : calls[k] = Free
      /\ \A u \in Tabs : tab'[u].view = tab[u].view
  BY PostedByItself, PostedAlone
<1>2. PICK k \in Slots : /\ \A l \in Slots \ {k} : calls'[l] = calls[l]
                         /\ Drafted(t, k) \/ Clicks(t, k)
  BY PostsStep
<1>3. store' = store /\ lessons' = lessons
  BY DEF Posts, Generate, Refine, Send
<1>4. \A i \in 1..Len(clicks) : clicks'[i] = clicks[i]
  BY Sent DEF Posts, Generate, Refine
<1>5. \A j \in Slots : calls'[j] # Free => j = k
  BY <1>1, <1>2
<1>6. store = NoDraft \/ \A u \in Tabs : tab[u].view = store
  BY <1>1 DEF Single, Drafting, Free
<1>7. calls'[k].stage \in {"model", "look"}
  BY <1>2 DEF Drafted, Clicks
<1>8. \A j \in Slots : ~(Drafting(j) /\ calls[j].stage = "reply")' /\ ~At(j, "reply")' /\ ~At(j, "learn")'
  BY <1>5, <1>7 DEF Drafting, At, Sending, Free
<1>9. ASSUME NEW j \in Slots, Sending(j)', store' # NoDraft
      PROVE  clicks'[calls'[j].click].seen = BodyOf(store')
  <2>1. j = k /\ calls'[k].kind = "send"
    BY <1>5, <1>9 DEF Sending, Free
  <2>2. Send(t) /\ calls'[k].click = Len(clicks) + 1
    BY <1>2, <2>1 DEF Drafted, Clicks
  <2> QED
    BY <1>3, <1>6, <1>9, <2>1, <2>2, Sent
<1>10. \A l \in lessons' : Lesson(l)'
  BY <1>0, <1>3, <1>4 DEF Single, Lesson
<1> QED
  BY <1>1, <1>3, <1>5, <1>6, <1>8, <1>9, <1>10 DEF Single

\* A drafting call that has saved its draft and is bringing it to its tab.
Bringing(k) == Drafting(k) /\ calls[k].stage = "reply"

\* A model that answers leaves its call with the draft that was saved.
LEMMA Saves ==
  ASSUME Typed, NEW k \in Slots, ModelReturns(k)
  PROVE  Bringing(k)' /\ calls'[k].draft = store'
<1>0. Len(clicks) \in Nat /\ calls[k] \in CallSet(Len(clicks))
  BY DEF Typed
<1>1. calls[k].turns \in Seq(Nat) /\ calls[k].turns # <<>>
  BY <1>0, Kinds DEF ModelReturns, Drafting
<1>2. SaveDraft(calls[k].turns) \in Real /\ SaveDraft(calls[k].turns).turns = calls[k].turns
  BY <1>1, Saving
<1>3. calls'[k] = Served(calls[k], store') /\ store' = SaveDraft(calls[k].turns)
  BY DEF ModelReturns, Typed, Served
<1>4. /\ calls'[k].stage = "reply" /\ calls'[k].kind = calls[k].kind
      /\ calls'[k].draft = store'
  BY <1>0, <1>2, <1>3, Answering DEF ModelReturns, Drafting, SameCall
<1> QED
  BY <1>4 DEF ModelReturns, Drafting, Bringing

\* A draft that is being brought arrives, stays on its way, or is lost with the backend.
LEMMA Arriving ==
  ASSUME Typed, [Next]_vars, NEW k \in Slots, Drafting(k), calls[k].stage = "reply",
         "lost" \notin crossed', ~DraftArrives(k)
  PROVE  /\ Drafting(k)' /\ calls'[k].stage = "reply"
         /\ calls'[k].draft = calls[k].draft /\ calls'[k].turns = calls[k].turns
<1>0. Len(clicks) \in Nat /\ calls[k] \in CallSet(Len(clicks)) /\ calls[k] # Free /\ ~Sending(k)
  BY DEF Typed, Drafting, Sending, Free
<1>1. CASE calls'[k] = calls[k]
  BY <1>1 DEF Drafting
<1>2. ASSUME NEW t \in Tabs, Posts(t)
      PROVE  calls'[k] = calls[k]
  BY <1>0, <1>2, PostsStep
<1>3. ASSUME NEW t \in Tabs, Open(t) \/ Retry(t) \/ Edit(t) \/ Query(t)
      PROVE  calls'[k] = calls[k]
  BY <1>3 DEF Open, Retry, Edit, Query, FetchServed, FetchArrives
<1>4. ASSUME NEW t \in Tabs, Leave(t), calls'[k] # calls[k]
      PROVE  /\ Drafting(k)' /\ calls'[k].stage = "reply"
             /\ calls'[k].draft = calls[k].draft /\ calls'[k].turns = calls[k].turns
  <2>1. calls'[k] = Abandoned(calls[k])
    BY <1>4 DEF Leave, Abandoned
  <2>2. /\ SameCall(calls[k], Abandoned(calls[k])) /\ Abandoned(calls[k]).stage = calls[k].stage
        /\ Abandoned(calls[k]).draft = calls[k].draft
    BY <1>0, Abandoning
  <2> QED
    BY <2>1, <2>2 DEF SameCall, Drafting
<1>5. ASSUME NEW j \in Slots, Handler(j) \/ ModelFails(j) \/ SendFails(j)
      PROVE  calls'[k] = calls[k]
  <2>1. j # k
    BY <1>0, <1>5 DEF Handler, ModelReturns, DraftArrives, ThreadFound, Transmitted, Filed, Moved,
                      Learned, SendArrives, ModelFails, SendFails, At
  <2> QED
    BY <1>5, <2>1 DEF Handler, ModelReturns, DraftArrives, ThreadFound, Transmitted, Filed, Moved,
                      Learned, SendArrives, ModelFails, SendFails, To, Done, Cleared, Typed
<1>6. ~Crash
  BY DEF Crash
<1> QED
  BY <1>1, <1>2, <1>3, <1>4, <1>5, <1>6 DEF Next, Person, Posts, vars

LEMMA SingleGoes ==
  ASSUME Typed, Quiet, Single, OneTab, [Next]_vars, crossed' = {}, \A t \in Tabs : ~Posts(t)
  PROVE  Single'
<1>0. /\ Len(clicks) \in Nat /\ \A l \in lessons : l.click \in 1..Len(clicks)
      /\ \A k \in Slots : calls[k] \in CallSet(Len(clicks))
  BY DEF Typed
<1>1. CallsKept /\ ClicksKept
  BY CallsStep, ClicksStep DEF Posts
<1>2. ASSUME NEW k \in Slots, calls'[k] # Free
      PROVE  /\ calls[k] # Free /\ Staging(k) /\ \A l \in Slots : calls[l] # Free => l = k
             /\ Drafting(k)' = Drafting(k) /\ Sending(k)' = Sending(k)
             /\ Sending(k) => calls'[k].click = calls[k].click /\ calls[k].click \in 1..Len(clicks)
  <2>1. calls[k] # Free /\ SameCall(calls[k], calls'[k])
    BY <1>1, <1>2 DEF CallsKept, SameCall
  <2>2. Sending(k) => calls[k].click \in 1..Len(clicks)
    BY <1>0, Kinds DEF Sending
  <2> QED
    BY <1>2, <2>1, <2>2, StagesStep DEF Single, SameCall, Drafting, Sending
\* The store stays, unless the one call that is in flight changes it.
<1>3. ASSUME NEW k \in Slots, calls'[k] # Free
      PROVE  store' = store \/ ModelReturns(k) \/ store' = NoDraft
  <2>1. \A j \in Slots : ModelReturns(j) => j = k
    BY <1>2, <1>3 DEF ModelReturns, Drafting, Free
  <2> QED
    BY <2>1, StoreStep
<1>4. ASSUME NEW k \in Slots, Drafting(k)', calls'[k].stage = "reply"
      PROVE  calls'[k].draft = store'
  <2>1. calls'[k] # Free
    BY <1>4 DEF Drafting, Free
  <2>2. Drafting(k) /\ Staging(k) /\ ~Sending(k)
    BY <1>2, <1>4, <2>1 DEF Drafting, Sending
  <2>3. \A j \in Slots : ~Moved(j) /\ ~Learned(j)
    BY <1>2, <2>1, <2>2 DEF Moved, Learned, At, Sending, Free
  <2>4. CASE StageKept(k)
    <3>1. ~ModelReturns(k)
      BY <1>4, <2>4 DEF StageKept, ModelReturns
    <3>2. \A j \in Slots : ~ModelReturns(j)
      BY <1>2, <2>1, <3>1 DEF ModelReturns, Drafting, Free
    <3>3. store' = store
      BY <2>3, <3>2, StoreStep
    <3> QED
      BY <1>4, <2>2, <2>4, <3>3 DEF StageKept, Single
  <2>5. CASE ~StageKept(k)
    BY <2>2, <2>5, <2>3 DEF Staging, ThreadFound, Transmitted, Filed, At
  <2> QED
    BY <2>4, <2>5
<1>5. ASSUME NEW k \in Slots, Sending(k)'
      PROVE  /\ Sending(k) /\ (store' = store \/ store' = NoDraft) /\ Staging(k)
             /\ clicks'[calls'[k].click].seen = clicks[calls[k].click].seen
             /\ clicks'[calls'[k].click].text = clicks[calls[k].click].text
  <2>1. calls'[k] # Free
    BY <1>5 DEF Sending, Free
  <2>2. Sending(k) /\ Staging(k) /\ calls'[k].click = calls[k].click /\ calls[k].click \in 1..Len(clicks)
    BY <1>2, <1>5, <2>1
  <2>3. ~ModelReturns(k)
    BY <2>2 DEF ModelReturns, Drafting, Sending
  <2> QED
    BY <1>1, <1>3, <2>1, <2>2, <2>3 DEF ClicksKept
<1>6. ASSUME NEW k \in Slots, At(k, "reply")'
      PROVE  store' = NoDraft
  <2>1. Sending(k)' /\ calls'[k].stage = "reply"
    BY <1>6 DEF At
  <2>2. Sending(k) /\ (store' = store \/ store' = NoDraft) /\ Staging(k)
    BY <1>5, <2>1
  <2>3. StageKept(k) => store = NoDraft
    BY <2>1, <2>2 DEF StageKept, Single, At
  <2> QED
    BY <2>1, <2>2, <2>3 DEF Staging, ModelReturns, Drafting, Sending
<1>7. ASSUME NEW k \in Slots, At(k, "learn")'
      PROVE  /\ calls'[k].draft = store' /\ store' # NoDraft
             /\ Differs(clicks'[calls'[k].click].text, store')
  <2>1. Sending(k)' /\ calls'[k].stage = "learn" /\ calls'[k] # Free
    BY <1>7 DEF At, Sending, Free
  <2>2. Sending(k) /\ Staging(k) /\ clicks'[calls'[k].click].text = clicks[calls[k].click].text
    BY <1>5, <2>1
  <2>3. ASSUME StageKept(k)
        PROVE  /\ calls'[k].draft = store /\ store # NoDraft /\ store' = store
               /\ Differs(clicks[calls[k].click].text, store)
    <3>1. At(k, "learn") /\ calls'[k].draft = calls[k].draft
      BY <2>1, <2>2, <2>3 DEF StageKept, At
    <3>2. /\ calls[k].draft = store /\ store # NoDraft
          /\ Differs(clicks[calls[k].click].text, store)
      BY <3>1 DEF Single
    <3>3. ~Learned(k) /\ ~Moved(k)
      <4>1. Learned(k) => calls'[k] = Staged(calls[k], "reply")
        BY DEF Learned, Cleared, To, Typed, Staged
      <4>2. Staged(calls[k], "reply").stage = "reply"
        BY <1>0, <2>2, Advancing DEF Sending
      <4> QED
        BY <2>1, <3>1, <4>1, <4>2 DEF Moved, At
    <3>4. \A j \in Slots : ~Learned(j) /\ ~Moved(j) /\ ~ModelReturns(j)
      BY <1>2, <2>1, <2>2, <3>3 DEF Learned, Moved, ModelReturns, At, Sending, Drafting, Free
    <3>5. store' = store
      BY <3>4, StoreStep
    <3> QED
      BY <3>1, <3>2, <3>5
  <2>4. ~ModelReturns(k)
    BY <2>2 DEF ModelReturns, Drafting, Sending
  <2> QED
    BY <2>1, <2>2, <2>3, <2>4 DEF Staging
<1>8. ASSUME NEW k \in Slots, Sending(k)'
      PROVE  store' = NoDraft \/ clicks'[calls'[k].click].seen = BodyOf(store')
  BY <1>5, <1>8 DEF Single
<1>9. \A l \in lessons' : Lesson(l)'
  <2>1. \A l \in lessons : Lesson(l)'
    BY <1>0, <1>1 DEF Single, Lesson, ClicksKept
  <2>2. ASSUME NEW k \in Slots, Learned(k),
               NEW l, l = [draft |-> BodyOf(calls[k].draft), click |-> calls[k].click]
        PROVE  Lesson(l)'
    <3>1. Sending(k) /\ At(k, "learn") /\ calls[k].click \in 1..Len(clicks)
      BY <1>0, <2>2, Kinds DEF Learned, At, Sending
    <3>2. /\ calls[k].draft = store /\ store # NoDraft
          /\ Differs(clicks[calls[k].click].text, store)
          /\ clicks[calls[k].click].seen = BodyOf(store)
      BY <3>1 DEF Single
    <3>3. l.draft = BodyOf(store) /\ l.click = calls[k].click
      BY <2>2, <3>2
    <3> QED
      BY <1>1, <3>1, <3>2, <3>3 DEF Lesson, Differs, ClicksKept
  <2> QED
    BY <2>1, <2>2, LessonsStep
<1>10. \/ store' = NoDraft
       \/ \E k \in Slots : (Drafting(k) /\ calls[k].stage = "reply")'
       \/ \A t \in Tabs : tab'[t].view = store'
  <2> SUFFICES ASSUME store' # NoDraft, \A k \in Slots : ~(Drafting(k) /\ calls[k].stage = "reply")'
               PROVE  \A t \in Tabs : tab'[t].view = store'
    OBVIOUS
  <2>1. \A k \in Slots : ~ModelReturns(k)
    <3> SUFFICES ASSUME NEW k \in Slots, ModelReturns(k)
                 PROVE  FALSE
      OBVIOUS
    <3> QED
      BY Saves DEF Bringing
  <2>2. store' = store /\ store # NoDraft
    BY <2>1, StoreStep
  <2>3. ASSUME NEW k \in Slots, Drafting(k), calls[k].stage = "reply"
        PROVE  DraftArrives(k) /\ calls[k].draft = store
    BY <2>2, <2>3, Arriving DEF Single
  <2>4. TAKE t \in Tabs
  <2>5. CASE \E k \in Slots : Drafting(k) /\ calls[k].stage = "reply"
    <3>1. PICK k \in Slots : DraftArrives(k) /\ calls[k].draft = store
      BY <2>3, <2>5
    <3>2. calls[k].tab = t
      BY <3>1, Replying DEF OneTab
    <3>3. tab'[t] = Show(tab[t], calls[k].draft)
      BY <3>1, <3>2 DEF DraftArrives, Typed
    <3>4. calls[k].draft \in Row /\ tab[t] \in TabSet
      BY <3>1, Replying DEF Row, Typed
    <3> QED
      BY <2>2, <3>1, <3>3, <3>4, Showing
  <2>6. CASE ~\E k \in Slots : Drafting(k) /\ calls[k].stage = "reply"
    <3>1. tab[t].view = store
      BY <2>2, <2>6 DEF Single
    <3>2. Fetched(t) => tab'[t].view = store
      BY DEF Fetched, FetchArrives, Quiet
    <3>3. ASSUME NEW k \in Slots
          PROVE  ~DraftShown(t, k) /\ ~SendShown(t, k)
      BY <2>2, <2>6 DEF DraftShown, DraftArrives, SendShown, SendArrives, Single
    <3> QED
      BY <2>2, <3>1, <3>2, <3>3, TabsStep
         DEF Untouched, Opened, LeftBehind, AskedAgain, ServedTo, Survived
  <2> QED
    BY <2>5, <2>6
<1>11. \A k, l \in Slots : calls'[k] # Free /\ calls'[l] # Free => k = l
  BY <1>2
<1> QED
  BY <1>4, <1>6, <1>7, <1>8, <1>9, <1>10, <1>11 DEF Single

LEMMA SingleInit == Init => Single
<1> SUFFICES ASSUME Init PROVE Single
  OBVIOUS
<1>1. (\A k \in Slots : calls[k] = Free) /\ store = NoDraft /\ lessons = {}
  BY DEF Init
<1> QED
  BY <1>1 DEF Single, Drafting, At, Sending, Free

\* The inductive invariant of learning.
Learns == Sends /\ (Alone => Single)

LEMMA LearnsStep == Learns /\ [Next]_vars => Learns'
<1> SUFFICES ASSUME Learns, [Next]_vars
             PROVE  Learns'
  OBVIOUS
<1>1. Sends /\ Sends' /\ crossed \subseteq crossed'
  BY SendsStep, CrossedStep DEF Learns
<1>2. ASSUME OneTab, crossed' = {}
      PROVE  Single'
  <2>1. Typed /\ Quiet /\ Single
    BY <1>1, <1>2 DEF Learns, Alone, Sends, Calm
  <2> QED
    BY <1>2, <2>1, SinglePosts, SingleGoes
<1>3. Alone' => OneTab /\ crossed' = {}
  BY DEF Alone, OneTab
<1> QED
  BY <1>1, <1>2, <1>3 DEF Learns

\* A lesson that is handed to learning (POST .../send) compares what was sent with
\* the draft its person had on the screen, and the two differ: from one tab, whose
\* calls did not cross, whatever failed.
THEOREM LessonIsAboutTheEditHolds ==
  ASSUME OneTab
  PROVE  Spec => []LessonIsAboutTheEdit
<1>1. Learns => LessonIsAboutTheEdit
  <2> SUFFICES ASSUME Learns, crossed = {}, NEW l \in lessons
               PROVE  /\ l.draft = clicks[l.click].seen
                      /\ Differs(clicks[l.click].text, [turns |-> <<l.draft>>])
    BY DEF LessonIsAboutTheEdit
  <2>1. Lesson(l)
    BY DEF Learns, Alone, Single
  <2>2. BodyOf([turns |-> <<l.draft>>]) = l.draft
    BY DEF BodyOf, Last
  <2> QED
    BY <2>1, <2>2 DEF Lesson, Differs
<1>2. Init => Learns
  BY SendsInit, SingleInit DEF Learns
<1>3. Learns /\ [Next]_vars => Learns'
  BY LearnsStep
<1> QED
  BY <1>1, <1>2, <1>3, PTL DEF Spec

-----------------------------------------------------------------------------
(* The editor shows the draft.                                             *)

\* The drafts the tab has or is going to be brought.
Held == {tab[t].view : t \in Tabs} \cup {calls[k].draft : k \in {j \in Slots : Bringing(j)}}

LEMMA HeldRows == Typed => Held \subseteq Row
<1> SUFFICES ASSUME Typed, NEW k \in Slots, Bringing(k)
             PROVE  calls[k].draft \in Row
  BY DEF Held, Typed, TabSet
<1>1. calls[k] \in CallSet(Len(clicks)) /\ Len(clicks) \in Nat
  BY DEF Typed
<1> QED
  BY <1>1, Kinds DEF Bringing, Drafting, CallSet, Row

\* A view changes only while the store stays, and to a draft that was stored or
\* held, or to none.
LEMMA ViewsStep ==
  ASSUME Typed, Quiet, [Next]_vars, NEW u \in Tabs
  PROVE  \/ tab'[u].view = tab[u].view
         \/ store' = store /\ tab'[u].view \in Held \cup {store, NoDraft}
<1>1. ASSUME tab'[u].view # tab[u].view
      PROVE  tab'[u].view \in Held \cup {store, NoDraft}
  <2>1. ASSUME Fetched(u)
        PROVE  tab'[u].view = store
    BY <2>1 DEF Fetched, FetchArrives, Quiet
  <2>2. ASSUME NEW k \in Slots, DraftShown(u, k)
        PROVE  tab'[u].view \in Held
    BY <2>2 DEF DraftShown, DraftArrives, Held, Bringing
  <2>3. ASSUME NEW k \in Slots, SendShown(u, k)
        PROVE  tab'[u].view = NoDraft
    BY <2>3 DEF SendShown
  <2> QED
    BY <1>1, <2>1, <2>2, <2>3, TabsStep
       DEF Untouched, Opened, LeftBehind, AskedAgain, ServedTo, Survived
<1>2. store' = store \/ tab' = tab
  BY StoreStep DEF Moved, Learned, ModelReturns
<1> QED
  BY <1>1, <1>2

\* A drafting call that holds a draft had it before, or has just saved it.
LEMMA BringingStep ==
  ASSUME Typed, [Next]_vars, NEW k \in Slots, Bringing(k)'
  PROVE  \/ Bringing(k) /\ calls'[k].draft = calls[k].draft
         \/ ModelReturns(k) /\ calls'[k].draft = store'
<1>1. ASSUME NEW t \in Tabs, Posts(t)
      PROVE  Bringing(k) /\ calls'[k].draft = calls[k].draft
  <2>1. PICK j \in Slots : /\ \A l \in Slots \ {j} : calls'[l] = calls[l]
                           /\ Drafted(t, j) \/ Clicks(t, j)
    BY <1>1, PostsStep
  <2>2. calls'[j].stage # "reply"
    BY <2>1 DEF Drafted, Clicks
  <2>3. calls'[k] = calls[k]
    BY <2>1, <2>2 DEF Bringing
  <2> QED
    BY <2>3 DEF Bringing, Drafting
<1>2. ASSUME \A t \in Tabs : ~Posts(t)
      PROVE  \/ Bringing(k) /\ calls'[k].draft = calls[k].draft
             \/ ModelReturns(k) /\ calls'[k].draft = store'
  <2>1. calls'[k] # Free /\ calls'[k].kind \in {"generate", "refine"} /\ calls'[k].stage = "reply"
    BY DEF Bringing, Drafting, Free
  <2>2. Drafting(k) /\ ~Sending(k)
    BY <1>2, <2>1, CallsStep DEF CallsKept, SameCall, Drafting, Sending
  <2>3. Staging(k)
    BY <1>2, <2>1, StagesStep
  <2> QED
    BY <2>1, <2>2, <2>3
       DEF Staging, StageKept, Bringing, ThreadFound, Transmitted, Filed, Moved, Learned, At
<1> QED
  BY <1>1, <1>2

LEMMA HeldStep ==
  ASSUME Typed, Quiet, [Next]_vars
  PROVE  /\ Held' \subseteq Held \cup {store, NoDraft, store'}
         /\ store' # store => Held' \subseteq Held \cup {store'}
<1>1. ASSUME NEW u \in Tabs
      PROVE  tab'[u].view \in Held \/ (store' = store /\ tab'[u].view \in Held \cup {store, NoDraft})
  BY ViewsStep DEF Held
<1>2. ASSUME NEW k \in Slots, Bringing(k)'
      PROVE  calls'[k].draft \in Held \cup {store'}
  BY <1>2, BringingStep DEF Held
<1> QED
  BY <1>1, <1>2 DEF Held

\* No send is under way with a drafting call.  An editor shows the draft of the
\* query; of the drafts that are stored, held or brought no two have one number,
\* and none has a later one than the one that is stored; and a first draft is
\* drafted for a tab that has none.
Numbered ==
  /\ \A k, l \in Slots : ~(Sending(k) /\ Drafting(l))
  /\ \A t \in Tabs : Follows(tab[t])
  /\ store # NoDraft => \A d, e \in Held \cup {store} : Same(d, e) /\ d.version <= store.version
  /\ store = NoDraft => \A k \in Slots : Drafting(k) => /\ calls[k].stage = "model"
                                                        /\ \A t \in Tabs : tab[t].view = NoDraft

LEMMA NumberedStep ==
  ASSUME Typed, Quiet, OneTab, Numbered, [Next]_vars,
         "fetch" \notin crossed', "send/draft" \notin crossed'
  PROVE  Numbered'
<1>0. /\ Held \subseteq Row /\ store \in Row /\ Len(clicks) \in Nat
      /\ \A k \in Slots : calls[k] \in CallSet(Len(clicks))
  BY HeldRows DEF Typed
<1>1. \A k, l \in Slots : ~(Sending(k)' /\ Drafting(l)')
  <2>1. ASSUME NEW t \in Tabs, Posts(t)
        PROVE  \A k, l \in Slots : ~(Sending(k)' /\ Drafting(l)')
    <3>1. PICK j \in Slots : /\ \A l \in Slots \ {j} : calls'[l] = calls[l]
                             /\ Drafted(t, j) \/ Clicks(t, j)
                             /\ crossed' = crossed \union Crossings(calls'[j].kind)
      BY <2>1, PostsStep
    <3>2. "send/draft" \notin Crossings(calls'[j].kind)
      BY <3>1
    <3>3. CASE Drafted(t, j)
      <4>1. calls'[j].kind # "send"
        BY <3>3 DEF Drafted
      <4>2. \A k \in Slots : ~Sending(k)
        BY <3>2, <4>1 DEF Crossings
      <4> QED
        BY <3>1, <4>1, <4>2 DEF Sending
    <3>4. CASE Clicks(t, j)
      <4>1. calls'[j].kind = "send"
        BY <3>4 DEF Clicks
      <4>2. \A k \in Slots : ~Drafting(k)
        BY <3>2, <4>1 DEF Crossings
      <4> QED
        BY <3>1, <4>1, <4>2 DEF Drafting
    <3> QED
      BY <3>1, <3>3, <3>4
  <2>2. ASSUME CallsKept, NEW k \in Slots, NEW l \in Slots
        PROVE  ~(Sending(k)' /\ Drafting(l)')
    BY <2>2 DEF CallsKept, SameCall, Sending, Drafting, Free, Numbered
  <2> QED
    BY <2>1, <2>2, CallsStep
<1>2. ASSUME NEW u \in Tabs
      PROVE  Follows(tab'[u])
  <2>1. Follows(tab[u])
    BY DEF Numbered
  <2>2. Fetched(u) => Same(tab[u].view, tab[u].snap)
    <3> SUFFICES ASSUME Fetched(u)
                 PROVE  Same(tab[u].view, store)
      BY DEF Fetched, FetchArrives, Quiet
    <3>1. tab[u].view \in Held
      BY DEF Held
    <3> QED
      BY <3>1 DEF Numbered, Same
  <2>3. ASSUME NEW k \in Slots, DraftShown(u, k)
        PROVE  Same(tab[u].view, calls[k].draft)
    <3>1. tab[u].view \in Held /\ calls[k].draft \in Held /\ Bringing(k)
      BY <2>3 DEF DraftShown, DraftArrives, Held, Bringing
    <3>2. store # NoDraft
      BY <3>1 DEF Numbered, Bringing
    <3> QED
      BY <3>1, <3>2 DEF Numbered
  <2> QED
    BY <2>1, <2>2, <2>3, TabsStep
       DEF Untouched, Opened, LeftBehind, AskedAgain, ServedTo, Fetched, Survived,
           DraftShown, SendShown, FollowsOn
<1>3. ASSUME store' # NoDraft, NEW d \in Held' \cup {store'}, NEW e \in Held' \cup {store'}
      PROVE  Same(d, e) /\ d.version <= store'.version
  <2>1. CASE store' = store
    <3>1. d \in Held \cup {store, NoDraft} /\ e \in Held \cup {store, NoDraft}
      BY <1>3, <2>1, HeldStep
    <3>2. NoDraft.version <= store.version
      BY <1>0 DEF NoDraft, Row, Real
    <3> QED
      BY <1>3, <2>1, <3>1, <3>2 DEF Numbered, Same
  <2>2. ASSUME NEW k \in Slots, ModelReturns(k), store' # store
        PROVE  Same(d, e) /\ d.version <= store'.version
    <3>1. d \in Held \cup {store'} /\ e \in Held \cup {store'}
      BY <1>3, <2>2, HeldStep
    <3>2. store'.version = store.version + 1 /\ store.version \in Nat
      BY <1>0, <2>2, Replying DEF Row, Real, NoDraft
    <3>3. CASE store = NoDraft
      <4>1. Held \subseteq {NoDraft}
        BY <2>2, <3>3 DEF Numbered, ModelReturns, Held, Bringing
      <4>2. NoDraft.version = 0
        BY DEF NoDraft
      <4> QED
        BY <3>1, <3>2, <4>1, <4>2 DEF Same
    <3>4. CASE store # NoDraft
      <4>1. \A f, g \in Held : Same(f, g) /\ f.version <= store.version
        BY <3>4 DEF Numbered
      <4>2. \A f \in Held : f.version \in Nat /\ f.version # store'.version /\ f.version <= store'.version
        <5> TAKE f \in Held
        <5>1. f.version \in Nat
          BY <1>0 DEF Row, Real, NoDraft
        <5> QED
          BY <3>2, <4>1, <5>1
      <4>3. store'.version <= store'.version
        BY <3>2
      <4> QED
        BY <3>1, <4>1, <4>2, <4>3 DEF Same
    <3> QED
      BY <3>3, <3>4
  <2> QED
    BY <1>3, <2>1, <2>2, StoreStep
<1>4. ASSUME store' = NoDraft, NEW k \in Slots, Drafting(k)'
      PROVE  calls'[k].stage = "model" /\ \A t \in Tabs : tab'[t].view = NoDraft
  <2>1. \A j \in Slots : ~ModelReturns(j)
    BY <1>4, Replying, Saved
  <2>2. ASSUME NEW t \in Tabs, Posts(t)
        PROVE  calls'[k].stage = "model" /\ \A u \in Tabs : tab'[u].view = NoDraft
    <3>1. PICK j \in Slots : /\ \A l \in Slots \ {j} : calls'[l] = calls[l]
                             /\ Drafted(t, j) \/ Clicks(t, j)
      BY <2>2, PostsStep
    <3>2. store = NoDraft /\ \A u \in Tabs : tab'[u].view = tab[u].view
      BY <1>4, <2>2, PostedAlone DEF Posts, Generate, Refine, Send
    <3>3. CASE j = k
      <4>1. Drafted(t, k)
        BY <1>4, <3>1, <3>3 DEF Clicks, Drafting
      <4>2. tab[t].view = NoDraft /\ calls'[k].stage = "model"
        BY <3>2, <4>1 DEF Drafted, Generate, Refine
      <4> QED
        BY <3>2, <4>2 DEF OneTab
    <3>4. CASE j # k
      <4>1. Drafting(k) /\ calls'[k].stage = calls[k].stage
        BY <1>4, <3>1, <3>4 DEF Drafting
      <4> QED
        BY <3>2, <4>1 DEF Numbered
    <3> QED
      BY <3>3, <3>4
  <2>3. ASSUME \A t \in Tabs : ~Posts(t)
        PROVE  calls'[k].stage = "model" /\ \A u \in Tabs : tab'[u].view = NoDraft
    <3>1. calls'[k] # Free /\ Drafting(k)
      BY <1>4, <2>3, CallsStep DEF CallsKept, SameCall, Drafting, Free
    <3>2. \A j \in Slots : ~Sending(j)
      BY <3>1 DEF Numbered
    <3>3. store = NoDraft
      BY <1>4, <2>1, <3>2, StoreStep DEF Moved, Learned, At
    <3>4. /\ \A j \in Slots : Drafting(j) => calls[j].stage = "model"
          /\ \A u \in Tabs : tab[u].view = NoDraft
      BY <3>1, <3>3 DEF Numbered
    <3>5. Held \subseteq {NoDraft}
      BY <3>4 DEF Held, Bringing
    <3>6. Staging(k)
      BY <2>3, <3>1, StagesStep
    <3>7. calls'[k].stage = "model"
      BY <2>1, <3>1, <3>2, <3>4, <3>6
         DEF Staging, StageKept, ThreadFound, Transmitted, Filed, Moved, Learned, At
    <3> QED
      BY <3>3, <3>4, <3>5, <3>7, ViewsStep
  <2> QED
    BY <2>2, <2>3
<1> QED
  BY <1>1, <1>2, <1>3, <1>4 DEF Numbered

LEMMA NumberedInit == Init => Numbered
<1> SUFFICES ASSUME Init PROVE Numbered
  OBVIOUS
<1>1. /\ \A k \in Slots : ~Drafting(k) /\ ~Sending(k)
      /\ \A t \in Tabs : Follows(tab[t])
      /\ store = NoDraft
  BY DEF Init, Drafting, Sending, Free, Closed, Follows, Editing
<1> QED
  BY <1>1 DEF Numbered

\* The inductive invariant of the pane.
Shows == Sends /\ (Calm /\ "send/draft" \notin crossed => Numbered)

LEMMA ShowsStep == Shows /\ [Next]_vars => Shows'
<1> SUFFICES ASSUME Shows, [Next]_vars
             PROVE  Shows'
  OBVIOUS
<1>1. Sends /\ Sends' /\ crossed \subseteq crossed'
  BY SendsStep, CrossedStep DEF Shows
<1>2. ASSUME OneTab, "fetch" \notin crossed', "send/draft" \notin crossed'
      PROVE  Numbered'
  <2>1. Typed /\ Quiet /\ Numbered
    BY <1>1, <1>2 DEF Shows, Sends, Calm
  <2> QED
    BY <1>2, <2>1, NumberedStep
<1>3. Calm' => OneTab /\ "fetch" \notin crossed'
  BY DEF Calm, OneTab
<1> QED
  BY <1>1, <1>2, <1>3 DEF Shows

\* What the person sees in the editor, and has not touched, is the draft the tab
\* holds (the seeding by version of draft-pane.tsx): in one tab, as long as no
\* fetch crosses a call and no drafting call crosses a send.
THEOREM EditorShowsDraftHolds ==
  ASSUME OneTab
  PROVE  Spec => []EditorShowsDraft
<1>1. Shows => EditorShowsDraft
  <2> SUFFICES ASSUME Shows, crossed \subseteq {"draft/draft", "send/send", "lost"},
                      NEW t \in Tabs, Editing(tab[t]), ~tab[t].text.edited
               PROVE  tab[t].text.of = BodyOf(tab[t].view)
    BY DEF EditorShowsDraft, EditorFollows
  <2>1. Numbered
    BY DEF Shows, Calm
  <2> QED
    BY <2>1 DEF Numbered, Follows
<1>2. Init => Shows
  BY SendsInit, NumberedInit DEF Shows
<1>3. Shows /\ [Next]_vars => Shows'
  BY ShowsStep
<1> QED
  BY <1>1, <1>2, <1>3, PTL DEF Spec

-----------------------------------------------------------------------------
(* No turn of the conversation is lost.                                    *)

\* The person may ask tab u for a first draft.
Bare(u) ==
  /\ tab[u].open /\ tab[u].loaded /\ ~tab[u].broken /\ tab[u].wire = "none"
  /\ tab[u].view = NoDraft /\ tab[u].send # "ok"

\* One drafting call is in flight, and it extends what is stored; a tab that may
\* ask for a first draft knows of every draft, or is being brought the one there is.
Known ==
  /\ \A k, l \in Slots : Drafting(k) /\ Drafting(l) => k = l
  /\ \A k \in Slots : Drafting(k) /\ calls[k].stage = "model" =>
       store = NoDraft \/ \E b \in Nat : calls[k].turns = Append(store.turns, b)
  /\ \A t \in Tabs : Bare(t) => store = NoDraft \/ \E k \in Slots : Bringing(k)
  /\ \A k \in Slots : Sending(k) /\ calls[k].mine => tab[calls[k].tab].send # "ok"

\* What a new drafting call replays.
LEMMA Replayed ==
  ASSUME Typed, NEW t \in Tabs, NEW k \in Slots, calls[k] = Free, calls'[k] # Free
  PROVE  /\ Generate(t) => calls'[k].turns = <<bodies + 1>>
         /\ Refine(t) => calls'[k].turns = Append(store.turns, bodies + 1)
<1>1. ASSUME NEW call, Post(call)
      PROVE  calls'[k] = call
  BY <1>1 DEF Post, Typed
<1>2. Generate(t) => calls'[k] = DraftCall(t, "generate", <<bodies + 1>>)
  BY <1>1 DEF Generate
<1>3. Refine(t) => calls'[k] = DraftCall(t, "refine", Append(store.turns, bodies + 1))
  BY <1>1 DEF Refine
<1> QED
  BY <1>2, <1>3 DEF DraftCall

\* A tab comes to lack a draft when a fetch tells it that there is none.
LEMMA BareStep ==
  ASSUME Typed, Quiet, Known, [Next]_vars, NEW u \in Tabs, Bare(u)'
  PROVE  Bare(u) \/ store = NoDraft
<1>1. CASE Untouched(u)
  <2>1. Send(u) => tab[u].send # "ok"
    BY Clicking DEF Send
  <2>2. ASSUME NEW k \in Slots, SendFails(k), calls[k].mine, calls[k].tab = u
        PROVE  tab[u].send # "ok"
    BY <2>2 DEF SendFails, At, Known
  <2> QED
    BY <1>1, <2>1, <2>2 DEF Untouched, OnWireKept, Bare
<1>2. CASE Fetched(u)
  BY <1>2 DEF Fetched, FetchArrives, Quiet, Bare
<1>3. ASSUME NEW k \in Slots, DraftShown(u, k)
      PROVE  FALSE
  BY <1>3, Replying, Saved DEF DraftShown, Bare
<1>4. ASSUME NEW k \in Slots, SendShown(u, k)
      PROVE  FALSE
  BY <1>4 DEF SendShown, SendArrives, At, Sending, Free, Quiet, Bare
<1>5. CASE Survived(u)
  <2>1. Pending(u, "send") => tab[u].send # "ok"
    BY DEF Pending, Known, Sending
  <2> QED
    BY <1>5, <2>1 DEF Survived, Bare
<1> QED
  BY <1>1, <1>2, <1>3, <1>4, <1>5, TabsStep DEF Opened, LeftBehind, AskedAgain, ServedTo, Bare

LEMMA KnownStep ==
  ASSUME Typed, Quiet, OneTab, Known, [Next]_vars,
         "draft/draft" \notin crossed', "lost" \notin crossed', "fetch" \notin crossed'
  PROVE  Known'
<1>0. /\ Len(clicks) \in Nat /\ bodies \in Nat
      /\ \A k \in Slots : calls[k] \in CallSet(Len(clicks))
  BY DEF Typed
<1>1. ASSUME NEW t \in Tabs, Posts(t)
      PROVE  /\ \A k, l \in Slots : Drafting(k)' /\ Drafting(l)' => k = l
             /\ \A k \in Slots : Drafting(k)' /\ calls'[k].stage = "model" =>
                  store' = NoDraft \/ \E b \in Nat : calls'[k].turns = Append(store'.turns, b)
  <2>1. PICK j \in Slots : /\ calls[j] = Free /\ calls'[j] # Free
                           /\ \A l \in Slots \ {j} : calls'[l] = calls[l]
                           /\ Drafted(t, j) \/ Clicks(t, j)
                           /\ crossed' = crossed \union Crossings(calls'[j].kind)
    BY <1>1, PostsStep
  <2>2. store' = store
    BY <1>1 DEF Posts, Generate, Refine, Send
  <2>3. CASE Clicks(t, j)
    <3>1. \A l \in Slots : Drafting(l)' => l # j /\ Drafting(l) /\ calls'[l] = calls[l]
      BY <2>1, <2>3 DEF Clicks, Drafting
    <3> QED
      BY <2>2, <3>1 DEF Known
  <2>4. CASE Drafted(t, j)
    <3>1. \A l \in Slots : ~Drafting(l)
      <4>1. "draft/draft" \notin Crossings(calls'[j].kind) /\ calls'[j].kind # "send"
        BY <2>1, <2>4 DEF Drafted
      <4> QED
        BY <4>1 DEF Crossings
    <3>2. \A l \in Slots : Drafting(l)' => l = j
      BY <2>1, <3>1 DEF Drafting
    <3>3. CASE Generate(t)
      <4>1. Bare(t)
        BY <1>1, <3>3, PostedAlone DEF Generate, Bare
      <4>2. store = NoDraft
        BY <3>1, <4>1 DEF Known, Bringing
      <4> QED
        BY <2>2, <3>2, <4>2
    <3>4. CASE Refine(t)
      <4>1. calls'[j].turns = Append(store.turns, bodies + 1)
        BY <2>1, <3>4, Replayed
      <4> QED
        BY <1>0, <2>2, <3>2, <4>1
    <3> QED
      BY <2>4, <3>3, <3>4 DEF Drafted
  <2> QED
    BY <2>1, <2>3, <2>4
<1>2. ASSUME CallsKept, \A t \in Tabs : ~Posts(t)
      PROVE  /\ \A k, l \in Slots : Drafting(k)' /\ Drafting(l)' => k = l
             /\ \A k \in Slots : Drafting(k)' /\ calls'[k].stage = "model" =>
                  store' = NoDraft \/ \E b \in Nat : calls'[k].turns = Append(store'.turns, b)
  <2>1. \A k \in Slots : Drafting(k)' => Drafting(k) /\ calls'[k].turns = calls[k].turns /\ calls'[k] # Free
    BY <1>2 DEF CallsKept, SameCall, Drafting, Free
  <2>2. ASSUME NEW k \in Slots, Drafting(k)', calls'[k].stage = "model"
        PROVE  store' = NoDraft \/ \E b \in Nat : calls'[k].turns = Append(store'.turns, b)
    <3>1. Drafting(k) /\ calls'[k].turns = calls[k].turns /\ ~Sending(k)
      BY <2>1, <2>2 DEF Drafting, Sending
    <3>2. StageKept(k)
      BY <1>2, <2>1, <2>2, StagesStep DEF Staging
    <3>3. calls[k].stage = "model"
      BY <2>2, <3>2 DEF StageKept
    <3>4. ASSUME NEW j \in Slots, ModelReturns(j)
          PROVE  FALSE
      <4>1. j = k
        BY <3>1, <3>4 DEF Known, ModelReturns
      <4>2. calls'[j].stage = "reply"
        BY <3>4, Saves DEF Bringing
      <4> QED
        BY <2>2, <4>1, <4>2
    <3> QED
      BY <3>1, <3>3, <3>4, StoreStep DEF Known
  <2> QED
    BY <2>1, <2>2 DEF Known
<1>3. ASSUME NEW u \in Tabs, Bare(u)', store' # NoDraft
      PROVE  \E k \in Slots : Bringing(k)'
  <2>1. ASSUME NEW k \in Slots, ModelReturns(k)
        PROVE  Bringing(k)'
    BY <2>1, Saves
  <2>2. CASE store' = store
    <3>1. Bare(u)
      BY <1>3, <2>2, BareStep
    <3>2. PICK k \in Slots : Bringing(k)
      BY <1>3, <2>2, <3>1 DEF Known
    <3>3. ~DraftArrives(k)
      <4>1. ASSUME DraftArrives(k)
            PROVE  FALSE
        <5>1. /\ tab' = [tab EXCEPT ![calls[k].tab] = Show(tab[calls[k].tab], calls[k].draft)]
              /\ calls[k].tab = u /\ calls[k].draft \in Real
          BY <4>1, Replying DEF DraftArrives, OneTab
        <5>2. tab[u] \in TabSet /\ calls[k].draft \in Row /\ tab'[u] = Show(tab[u], calls[k].draft)
          BY <5>1 DEF Typed, Row
        <5>3. tab'[u].view = calls[k].draft
          BY <5>2, Showing
        <5> QED
          BY <1>3, <5>1, <5>3, Saved DEF Bare
      <4> QED
        BY <4>1
    <3> QED
      BY <3>2, <3>3, Arriving DEF Bringing
  <2> QED
    BY <1>3, <2>1, <2>2, StoreStep
<1>4. ASSUME NEW k \in Slots, Sending(k)', calls'[k].mine
      PROVE  tab'[calls'[k].tab].send # "ok"
  <2>1. ASSUME NEW t \in Tabs, Posts(t)
        PROVE  tab'[calls'[k].tab].send # "ok"
    <3>1. PICK j \in Slots : /\ calls'[j].tab = t
                             /\ \A l \in Slots \ {j} : calls'[l] = calls[l]
                             /\ Drafted(t, j) \/ Clicks(t, j)
      BY <2>1, PostsStep
    <3>2. CASE Clicks(t, j)
      <4>1. tab'[t].send = "idle"
        BY <3>2, Touching DEF Clicks, Send, Typed
      <4>2. \A l \in Slots : ~Sending(l)
        BY <2>1, <3>2, PostedAlone DEF Clicks
      <4>3. k = j
        BY <1>4, <3>1, <4>2 DEF Sending
      <4> QED
        BY <3>1, <4>1, <4>3
    <3>3. CASE Drafted(t, j)
      <4>1. k # j
        BY <1>4, <3>3 DEF Drafted, Sending
      <4>2. calls'[k] = calls[k] /\ Sending(k) /\ tab' = tab
        BY <1>4, <3>1, <3>3, <4>1 DEF Drafted, Generate, Refine, Sending
      <4> QED
        BY <1>4, <4>2 DEF Known
    <3> QED
      BY <3>1, <3>2, <3>3
  <2>2. ASSUME \A t \in Tabs : ~Posts(t)
        PROVE  tab'[calls'[k].tab].send # "ok"
    <3> DEFINE u == calls[k].tab
    <3>1. /\ calls'[k] # Free /\ calls[k] # Free /\ Sending(k) /\ calls'[k].tab = u /\ calls[k].mine
      BY <1>4, <2>2, CallsStep DEF CallsKept, SameCall, Sending, Free
    <3>2. u \in Tabs
      BY <1>0, <3>1, Kinds
    <3>3. tab[u].send # "ok" /\ tab[u].wire = "none"
      BY <3>1, <3>2 DEF Known, Quiet
    <3>4. ASSUME NEW j \in Slots, SendShown(u, j)
          PROVE  FALSE
      <4>1. SendArrives(j) /\ Sending(j)
        BY <3>4 DEF SendShown, SendArrives, At
      <4>2. j = k
        BY <3>1, <4>1 DEF Quiet
      <4> QED
        BY <3>1, <4>1, <4>2 DEF SendArrives, Done, Typed
    <3>5. ~Opened(u) /\ ~AskedAgain(u) /\ ~ServedTo(u) /\ ~Fetched(u)
      BY <3>1, <3>2, <3>3, AskedAlone DEF Opened, AskedAgain, ServedTo, Fetched, FetchServed, FetchArrives
    <3>6. Survived(u) => FALSE
      BY <3>1 DEF Survived, Crash
    <3>7. LeftBehind(u) => ~calls'[k].mine
      <4>1. Leave(u) => calls'[k] = Abandoned(calls[k])
        BY <3>1 DEF Leave, Abandoned
      <4>2. Abandoned(calls[k]).mine = FALSE
        BY <1>0, <3>1, Abandoning
      <4> QED
        BY <4>1, <4>2 DEF LeftBehind
    <3> HIDE DEF u
    <3>8. tab'[u].send # "ok"
      BY <1>4, <3>2, <3>3, <3>4, <3>5, <3>6, <3>7, TabsStep DEF Untouched, DraftShown
    <3> QED
      BY <3>1, <3>8
  <2> QED
    BY <2>1, <2>2
<1>5. /\ \A k, l \in Slots : Drafting(k)' /\ Drafting(l)' => k = l
      /\ \A k \in Slots : Drafting(k)' /\ calls'[k].stage = "model" =>
           store' = NoDraft \/ \E b \in Nat : calls'[k].turns = Append(store'.turns, b)
  BY <1>1, <1>2, CallsStep
<1> QED
  BY <1>3, <1>4, <1>5 DEF Known

LEMMA KnownInit == Init => Known
<1> SUFFICES ASSUME Init PROVE Known
  OBVIOUS
<1>1. (\A k \in Slots : ~Drafting(k) /\ ~Sending(k)) /\ store = NoDraft
  BY DEF Init, Drafting, Sending, Free
<1> QED
  BY <1>1 DEF Known

\* The inductive invariant of the conversation.
Extends ==
  /\ Sends
  /\ Calm /\ "draft/draft" \notin crossed /\ "lost" \notin crossed => Known

LEMMA ExtendsStep == Extends /\ [Next]_vars => Extends'
<1> SUFFICES ASSUME Extends, [Next]_vars
             PROVE  Extends'
  OBVIOUS
<1>1. Sends /\ Sends' /\ crossed \subseteq crossed'
  BY SendsStep, CrossedStep DEF Extends
<1>2. ASSUME OneTab, "fetch" \notin crossed', "draft/draft" \notin crossed', "lost" \notin crossed'
      PROVE  Known'
  <2>1. Typed /\ Quiet /\ Known
    BY <1>1, <1>2 DEF Extends, Sends, Calm
  <2> QED
    BY <1>2, <2>1, KnownStep
<1>3. Calm' => OneTab /\ "fetch" \notin crossed'
  BY DEF Calm, OneTab
<1> QED
  BY <1>1, <1>2, <1>3 DEF Extends

\* A sequence with one more element extends it.
LEMMA Extending ==
  ASSUME NEW s \in Seq(Nat), NEW b \in Nat
  PROVE  IsStrictPrefix(s, Append(s, b))
<1>1. Append(s, b) \in Seq(Nat) /\ Len(Append(s, b)) = Len(s) + 1 /\ Len(s) \in Nat
  OBVIOUS
<1>2. \A i \in 1..Len(s) : Append(s, b)[i] = s[i]
  OBVIOUS
<1>3. SubSeq(s, 1, Len(s)) = SubSeq(Append(s, b), 1, Len(s))
  <2>1. SubSeq(s, 1, Len(s)) = [i \in 1..Len(s) |-> s[i]]
    BY <1>1
  <2>2. SubSeq(Append(s, b), 1, Len(s)) = [i \in 1..Len(s) |-> Append(s, b)[i]]
    BY <1>1
  <2> QED
    BY <1>2, <2>1, <2>2
<1>4. s # Append(s, b)
  BY <1>1
<1> QED
  BY <1>1, <1>3, <1>4 DEF IsStrictPrefix, IsPrefix

\* No turn of the conversation is lost: a draft that is saved over another extends
\* its transcript (POST .../draft/refine), from one tab, as long as no two drafting
\* calls and no fetch crossed and no reply was lost.
THEOREM TurnsSurviveHolds ==
  ASSUME OneTab
  PROVE  Spec => TurnsSurvive
<1> DEFINE Extended ==
      /\ crossed \intersect {"draft/draft", "lost", "fetch"} = {}
      /\ store # NoDraft /\ store' # store /\ store' # NoDraft
      => IsStrictPrefix(store.turns, store'.turns)
<1>1. Extends /\ [Next]_vars => [Extended]_vars
  <2> SUFFICES ASSUME Extends, [Next]_vars,
                      crossed \intersect {"draft/draft", "lost", "fetch"} = {},
                      store # NoDraft, store' # store, store' # NoDraft
               PROVE  IsStrictPrefix(store.turns, store'.turns)
    OBVIOUS
  <2>1. Known /\ Typed
    BY DEF Extends, Calm, Sends
  <2>2. PICK k \in Slots : ModelReturns(k)
    BY <2>1, StoreStep
  <2>3. store'.turns = calls[k].turns
    BY <2>1, <2>2, Replying
  <2>4. PICK b \in Nat : calls[k].turns = Append(store.turns, b)
    BY <2>1, <2>2 DEF Known, ModelReturns
  <2>5. store.turns \in Seq(Nat)
    BY <2>1, Saved DEF Typed, Row
  <2> QED
    BY <2>3, <2>4, <2>5, Extending
<1>2. Init => Extends
  BY SendsInit, KnownInit DEF Extends
<1>3. Extends /\ [Next]_vars => Extends'
  BY ExtendsStep
<1> QED
  BY <1>1, <1>2, <1>3, PTL DEF Spec, TurnsSurvive

-----------------------------------------------------------------------------
(* Sending is manual: one mail for a click.                                *)

\* A click has one send, which has put no mail on its way before it transmits.
Mailed ==
  /\ \A k, l \in Slots : Sending(k) /\ Sending(l) /\ calls[k].click = calls[l].click => k = l
  /\ \A k \in Slots : At(k, "look") \/ At(k, "transport") =>
       \A i \in 1..Len(mails) : mails[i] # calls[k].click
  /\ \A i, j \in 1..Len(mails) : mails[i] = mails[j] => i = j

LEMMA MailedStep ==
  ASSUME Typed, Mailed, [Next]_vars
  PROVE  Mailed'
<1>0. /\ mails \in Seq(1..Len(clicks)) /\ Len(clicks) \in Nat /\ Len(mails) \in Nat
      /\ \A i \in 1..Len(mails) : mails[i] \in 1..Len(clicks)
      /\ \A k \in Slots : calls[k] \in CallSet(Len(clicks))
  BY DEF Typed
<1>1. \A k \in Slots : Sending(k) => calls[k].click \in 1..Len(clicks)
  BY <1>0, Kinds DEF Sending
<1>2. ASSUME NEW t \in Tabs, Posts(t)
      PROVE  Mailed'
  <2>1. PICK j \in Slots : /\ calls[j] = Free /\ \A l \in Slots \ {j} : calls'[l] = calls[l]
                           /\ Drafted(t, j) \/ Clicks(t, j)
    BY <1>2, PostsStep
  <2>2. mails' = mails
    BY <1>2 DEF Posts, Generate, Refine, Send
  <2>3. ASSUME NEW k \in Slots, Sending(k)'
        PROVE  \/ k # j /\ Sending(k) /\ calls'[k] = calls[k]
               \/ k = j /\ calls'[k].click = Len(clicks) + 1
    BY <2>1, <2>3 DEF Sending, Drafted, Clicks
  <2>4. \A k, l \in Slots : Sending(k)' /\ Sending(l)' /\ calls'[k].click = calls'[l].click => k = l
    BY <1>0, <1>1, <2>3 DEF Mailed
  <2>5. ASSUME NEW k \in Slots, (At(k, "look") \/ At(k, "transport"))', NEW i \in 1..Len(mails)
        PROVE  mails[i] # calls'[k].click
    <3>1. Sending(k)' /\ calls'[k].stage \in {"look", "transport"}
      BY <2>5 DEF At
    <3>2. CASE k # j
      BY <2>3, <3>1, <3>2 DEF Mailed, At
    <3>3. CASE k = j
      BY <1>0, <2>3, <3>1, <3>3
    <3> QED
      BY <3>2, <3>3
  <2> QED
    BY <2>2, <2>4, <2>5 DEF Mailed
<1>3. ASSUME \A t \in Tabs : ~Posts(t)
      PROVE  Mailed'
  <2>1. CallsKept
    BY <1>3, CallsStep
  <2>2. ASSUME NEW k \in Slots, Sending(k)'
        PROVE  Sending(k) /\ calls'[k].click = calls[k].click /\ Staging(k)
    <3>1. calls'[k] # Free
      BY <2>2 DEF Sending, Free
    <3> QED
      BY <1>3, <2>1, <2>2, <3>1, StagesStep DEF CallsKept, SameCall, Sending
  <2>3. \A k, l \in Slots : Sending(k)' /\ Sending(l)' /\ calls'[k].click = calls'[l].click => k = l
    BY <2>2 DEF Mailed
  <2>4. ASSUME NEW k \in Slots, (At(k, "look") \/ At(k, "transport"))'
        PROVE  (At(k, "look") \/ At(k, "transport")) /\ ~Transmitted(k) /\ ~SendFails(k)
    <3>1. Sending(k)' /\ calls'[k].stage \in {"look", "transport"} /\ calls'[k] # Free
      BY <2>4 DEF At, Sending, Free
    <3>2. StageKept(k) \/ ThreadFound(k)
      BY <2>2, <3>1 DEF Staging
    <3>3. At(k, "look") \/ At(k, "transport")
      BY <2>2, <3>1, <3>2 DEF StageKept, ThreadFound, At
    <3>4. Transmitted(k) => calls'[k].stage = "file"
      <4>1. Transmitted(k) => calls'[k] = Staged(calls[k], "file")
        BY DEF Transmitted, To, Typed, Staged
      <4>2. Staged(calls[k], "file").stage = "file"
        BY <1>0, <3>3, Advancing DEF At, Sending
      <4> QED
        BY <4>1, <4>2
    <3>5. ~SendFails(k)
      BY <3>1 DEF SendFails, Done, Typed
    <3> QED
      BY <3>1, <3>3, <3>4, <3>5
  <2>5. CASE mails' = mails
    BY <2>2, <2>3, <2>4, <2>5 DEF Mailed, At
  <2>6. ASSUME NEW k \in Slots, Transmitted(k) \/ SendFails(k), At(k, "transport"),
               mails' = Append(mails, calls[k].click)
        PROVE  Mailed'
    <3>1. /\ Len(mails') = Len(mails) + 1 /\ \A i \in 1..Len(mails) : mails'[i] = mails[i]
          /\ mails'[Len(mails) + 1] = calls[k].click
      BY <1>0, <1>1, <2>6 DEF At
    <3>2. \A i \in 1..Len(mails') : i \in 1..Len(mails) \/ i = Len(mails) + 1
      BY <1>0, <3>1
    <3>3. \A i \in 1..Len(mails) : mails[i] # calls[k].click
      BY <2>6 DEF Mailed
    <3>4. \A i, j \in 1..Len(mails') : mails'[i] = mails'[j] => i = j
      BY <3>1, <3>2, <3>3 DEF Mailed
    <3>5. ASSUME NEW l \in Slots, (At(l, "look") \/ At(l, "transport"))', NEW i \in 1..Len(mails')
          PROVE  mails'[i] # calls'[l].click
      <4>1. l # k /\ (At(l, "look") \/ At(l, "transport")) /\ calls'[l].click = calls[l].click
        BY <2>2, <2>4, <2>6, <3>5 DEF At
      <4>2. calls[l].click # calls[k].click
        BY <2>6, <4>1 DEF Mailed, At
      <4>3. \A n \in 1..Len(mails) : mails[n] # calls[l].click
        BY <4>1 DEF Mailed
      <4> QED
        BY <3>1, <3>2, <4>1, <4>2, <4>3
    <3> QED
      BY <2>3, <3>4, <3>5 DEF Mailed
  <2> QED
    BY <2>5, <2>6, MailsStep
<1> QED
  BY <1>2, <1>3

\* Sending is manual (PROJECT.md, golden rule 1): whatever fails, from however many
\* tabs, a click on Send (POST .../send) puts at most one mail on its way, and no mail
\* goes out without a click.
THEOREM OneMailPerClickHolds == Spec => []OneMailPerClick
<1> DEFINE I == Typed /\ Mailed
<1>1. Init => I
  <2> SUFFICES ASSUME Init PROVE I
    OBVIOUS
  <2>1. (\A k \in Slots : ~Sending(k)) /\ Len(mails) = 0
    BY DEF Init, Sending, Free
  <2> QED
    BY <2>1, TypedInit DEF Mailed, At
<1>2. I /\ [Next]_vars => I'
  BY TypedStep, MailedStep
<1>3. I => OneMailPerClick
  <2> SUFFICES ASSUME Typed, Mailed PROVE OneMailPerClick
    OBVIOUS
  <2>1. /\ DOMAIN mails = 1..Len(mails) /\ DOMAIN clicks = 1..Len(clicks)
        /\ \A i \in 1..Len(mails) : mails[i] \in 1..Len(clicks)
    BY DEF Typed
  <2> QED
    BY <2>1 DEF Mailed, OneMailPerClick
<1> QED
  BY <1>1, <1>2, <1>3, PTL DEF Spec
=============================================================================
