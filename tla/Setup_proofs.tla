----------------------------- MODULE Setup_proofs -----------------------------
(***************************************************************************)
(* Proofs about Setup, for any addresses, mailboxes of earlier visits,     *)
(* submissions, faults and bounds: the passwords in the credential store   *)
(* follow the mailboxes of the config, and the list is true once nothing   *)
(* is under way.                                                           *)
(***************************************************************************)
EXTENDS Setup, TLAPS

Ops == {"add", "edit", "password", "remove"}
Stages == {"sent", "storing", "replied", "failed"}

Call ==
  [n : Nat, op : Ops, id : Ids, to : SUBSET Addresses, kinds : SUBSET Kinds,
   stage : Stages, heard : BOOLEAN]

Slots == [Ids -> [Kinds -> Nat]]

\* The types the argument needs.
Typed ==
  /\ DOMAIN boxes \subseteq Ids /\ DOMAIN list \subseteq Ids
  /\ DOMAIN fetch.got \subseteq Ids /\ fetch.stage \in {"idle", "asked", "read"}
  /\ carried \subseteq Ids /\ drafts \subseteq Ids /\ forms \in Nat
  /\ secrets \in Slots /\ given \in Slots
  /\ calls \subseteq Call

\* A mailbox that is added or removed takes both passwords with it.
WholeForms ==
  \A c \in calls : c.op \in {"add", "remove"} /\ c.stage = "sent" => c.kinds = Kinds

Storing(c) == c.stage = "storing"

\* What the credential store should hold of a mailbox.
Due(id) == IF id \in DOMAIN boxes THEN given[id] ELSE NoSecrets

\* Unless calls crossed on a mailbox, one of them at most writes its passwords.
OneWriter ==
  \A c, d \in calls :
    Storing(c) /\ Storing(d) /\ c.id = d.id /\ c.id \notin torn => c = d

\* What a writer has written is what is due, and what it has yet to write is
\* going to be.
HalfWritten ==
  \A c \in calls : Storing(c) /\ c.id \notin torn =>
    /\ c.op = "remove" <=> c.id \notin DOMAIN boxes
    /\ \A kind \in c.kinds : given[c.id][kind] = IF c.op = "remove" THEN 0 ELSE c.n
    /\ \A kind \in Kinds \ c.kinds : secrets[c.id][kind] = Due(c.id)[kind]

\* Where nothing is being written the store holds what is due.
Written ==
  \A id \in Ids : Untouched(id) /\ id \notin torn => secrets[id] = Due(id)

\* The inductive invariant of the passwords.
Followed == WholeForms /\ OneWriter /\ HalfWritten /\ Written

\* Unless something was missed, what a fetch has read, and what the page shows,
\* is true until a call gets beyond being sent.
Fresh ==
  behind = "nothing" /\ (\A c \in calls : c.stage = "sent") =>
    /\ fetch.stage = "read" => fetch.got = Config
    /\ fetch.stage = "idle" /\ listed
         => list = [id \in DOMAIN Config |-> Entry(Config[id], id)]

-----------------------------------------------------------------------------
\* The parts of a record that is a call.
LEMMA CallFields ==
  ASSUME NEW c \in Call
  PROVE  /\ c.n \in Nat /\ c.op \in Ops /\ c.id \in Ids /\ c.kinds \subseteq Kinds
         /\ c.stage \in Stages /\ c.heard \in BOOLEAN /\ c.to \subseteq Addresses
  BY DEF Call

\* A call that gets to another stage is the same call otherwise.
LEMMA Staged ==
  ASSUME NEW c \in Call, NEW s \in Stages
  PROVE  LET d == [c EXCEPT !.stage = s]
         IN /\ d \in Call /\ d.stage = s
            /\ d.n = c.n /\ d.op = c.op /\ d.id = c.id /\ d.kinds = c.kinds
  BY DEF Call

\* A call that has written a password has one less to write.
LEMMA Served ==
  ASSUME NEW c \in Call, NEW kind
  PROVE  LET d == [c EXCEPT !.kinds = @ \ {kind}]
         IN /\ d \in Call /\ d.stage = c.stage
            /\ d.n = c.n /\ d.op = c.op /\ d.id = c.id /\ d.kinds = c.kinds \ {kind}
  BY DEF Call

\* A call nobody listens to any more goes on as it was.
LEMMA Deaf ==
  ASSUME NEW c \in Call, NEW b \in BOOLEAN
  PROVE  LET d == [c EXCEPT !.heard = b]
         IN /\ d \in Call /\ d.stage = c.stage
            /\ d.n = c.n /\ d.op = c.op /\ d.id = c.id /\ d.kinds = c.kinds
  BY DEF Call
-----------------------------------------------------------------------------
(* The passwords.                                                          *)

\* What is true of the passwords is true at the start.
LEMMA StartsFollowed == Init => Typed /\ Followed
<1> SUFFICES ASSUME Init PROVE Typed /\ Followed
  OBVIOUS
<1>1. 1..Earlier \subseteq Ids
  BY BoundsAssumption DEF Ids
<1>2. Typed
  BY <1>1, BoundsAssumption DEF Init, Typed, Slots, Ids, Nothing
<1>3. \A id \in Ids : secrets[id] = Due(id)
  <2> TAKE id \in Ids
  <2>1. CASE id \in DOMAIN boxes
    BY <2>1 DEF Init, Due
  <2>2. CASE id \notin DOMAIN boxes
    BY <2>2, BoundsAssumption DEF Init, Due, NoSecrets, Ids
  <2> QED BY <2>1, <2>2
<1>4. Followed
  BY <1>3 DEF Init, Followed, WholeForms, OneWriter, HalfWritten, Written
<1> QED BY <1>2, <1>4

\* A step that leaves the store and those that write alone.
LEMMA Bystander ==
  ASSUME Followed, UNCHANGED <<boxes, secrets, given, torn>>, WholeForms',
         \A c \in calls' : Storing(c) => c \in calls,
         \A c \in calls : Storing(c) => c \in calls'
  PROVE  Followed'
<1>1. OneWriter'
  BY DEF Followed, OneWriter
<1>2. \A id : Due(id)' = Due(id)
  BY DEF Due, NoSecrets
<1>3. HalfWritten'
  BY <1>2 DEF Followed, HalfWritten
<1>4. Written'
  BY <1>2 DEF Followed, Written, Untouched, Storing
<1> QED BY <1>1, <1>3, <1>4 DEF Followed

\* A form is sent.
LEMMA Sending ==
  ASSUME Typed, Followed, NEW op \in Ops, NEW id, NEW to \in SUBSET Addresses,
         NEW kinds \in SUBSET Kinds, Submit(op, id, to, kinds),
         id \in Ids \/ id = forms + 1,
         op \in {"add", "remove"} => kinds = Kinds,
         UNCHANGED <<serverVars, pageVars, historyVars>>
  PROVE  Typed' /\ Followed'
<1> DEFINE new == [n |-> forms + 1, op |-> op, id |-> id, to |-> to, kinds |-> kinds,
                   stage |-> "sent", heard |-> TRUE]
<1>1. forms \in Nat /\ forms < MaxForms
  BY DEF Typed, Submit
<1>2. forms + 1 \in Ids
  BY <1>1, BoundsAssumption DEF Ids
<1>3. new \in Call
  BY <1>1, <1>2 DEF Call, Stages
<1>4. calls' = calls \cup {new} /\ forms' \in Nat
  BY <1>1 DEF Submit
<1>5. new.stage = "sent" /\ new.op = op /\ new.kinds = kinds
  OBVIOUS
<1> HIDE DEF new
<1>6. Typed'
  BY <1>3, <1>4 DEF Typed, serverVars, pageVars, historyVars
<1>7. WholeForms'
  BY <1>4, <1>5 DEF Followed, WholeForms
<1>8. Followed'
  BY <1>4, <1>5, <1>7, Bystander DEF Storing, serverVars, historyVars
<1> QED BY <1>6, <1>8

LEMMA SubmitAddFollows ==
  ASSUME Typed, Followed, SubmitAdd PROVE Typed' /\ Followed'
<1>1. PICK address \in Addresses : Submit("add", forms + 1, {address}, Kinds)
  BY DEF SubmitAdd
<1> QED BY <1>1, Sending DEF SubmitAdd, Ops

LEMMA SubmitPasswordFollows ==
  ASSUME Typed, Followed, SubmitPassword PROVE Typed' /\ Followed'
<1>1. PICK id \in carried, kinds \in {{"imap"}, Kinds} : Submit("password", id, {}, kinds)
  BY DEF SubmitPassword
<1>2. id \in Ids /\ kinds \subseteq Kinds
  BY DEF Typed, Kinds
<1> QED BY <1>1, <1>2, Sending DEF SubmitPassword, Ops

LEMMA SubmitEditFollows ==
  ASSUME Typed, Followed, SubmitEdit PROVE Typed' /\ Followed'
<1>1. PICK id \in drafts, address \in Addresses, kinds \in SUBSET Kinds :
        Submit("edit", id, {address}, kinds)
  BY DEF SubmitEdit
<1>2. id \in Ids
  BY DEF Typed
<1> QED BY <1>1, <1>2, Sending DEF SubmitEdit, Ops

LEMMA SubmitRemoveFollows ==
  ASSUME Typed, Followed, SubmitRemove PROVE Typed' /\ Followed'
<1>1. PICK id \in DOMAIN list : Submit("remove", id, {}, Kinds)
  BY DEF SubmitRemove
<1>2. id \in Ids
  BY DEF Typed
<1> QED BY <1>1, <1>2, Sending DEF SubmitRemove, Ops

\* Components that go take nothing from what the handlers do.
LEMMA Unhearing ==
  ASSUME Typed, Followed, NEW ops, NEW ids, Unheard(ops, ids),
         UNCHANGED <<boxes, secrets, given, torn>>
  PROVE  calls' \subseteq Call /\ Followed'
<1> DEFINE deaf(c) == [c EXCEPT !.heard = c.heard /\ ~(c.op \in ops /\ c.id \in ids)]
<1>1. calls' = {deaf(c) : c \in calls}
  BY DEF Unheard
<1>2. \A c \in calls : /\ deaf(c) \in Call /\ deaf(c).stage = c.stage
                       /\ deaf(c).n = c.n /\ deaf(c).op = c.op /\ deaf(c).id = c.id
                       /\ deaf(c).kinds = c.kinds
  <2> TAKE c \in calls
  <2>1. c \in Call
    BY DEF Typed
  <2>2. (c.heard /\ ~(c.op \in ops /\ c.id \in ids)) \in BOOLEAN
    OBVIOUS
  <2> QED BY <2>1, <2>2, Deaf
<1> HIDE DEF deaf
<1>3. calls' \subseteq Call
  BY <1>1, <1>2
<1>4. WholeForms'
  BY <1>1, <1>2 DEF Followed, WholeForms
<1>5. OneWriter'
  <2> SUFFICES ASSUME NEW c \in calls, NEW d \in calls,
                      Storing(deaf(c)), Storing(deaf(d)), deaf(c).id = deaf(d).id,
                      deaf(c).id \notin torn
               PROVE  deaf(c) = deaf(d)
    BY <1>1 DEF OneWriter
  <2>1. c = d
    BY <1>2 DEF Followed, OneWriter, Storing
  <2> QED BY <2>1
<1>6. \A id : Due(id)' = Due(id)
  BY DEF Due, NoSecrets
<1>7. HalfWritten'
  <2> SUFFICES ASSUME NEW c \in calls, Storing(deaf(c)), deaf(c).id \notin torn
               PROVE  HalfWritten!(deaf(c))!2'
    BY <1>1 DEF HalfWritten
  <2> QED BY <1>2, <1>6 DEF Followed, HalfWritten, Storing
<1>8. \A id : Untouched(id)' => Untouched(id)
  BY <1>1, <1>2 DEF Untouched
<1>9. Written'
  BY <1>6, <1>8 DEF Followed, Written
<1> QED BY <1>3, <1>4, <1>5, <1>7, <1>9 DEF Followed

LEMMA OpenEditFollows ==
  ASSUME Typed, Followed, OpenEdit PROVE Typed' /\ Followed'
<1>1. UNCHANGED calls /\ UNCHANGED <<boxes, secrets, given, torn>>
  BY DEF OpenEdit, serverVars, historyVars
<1>2. Followed'
  BY <1>1, Bystander DEF Followed, WholeForms
<1>3. Typed'
  BY DEF OpenEdit, Typed, serverVars, historyVars
<1> QED BY <1>2, <1>3

LEMMA CloseEditFollows ==
  ASSUME Typed, Followed, CloseEdit PROVE Typed' /\ Followed'
<1>1. PICK id \in drafts : drafts' = drafts \ {id} /\ Unheard({"edit"}, {id})
  BY DEF CloseEdit
<1>2. UNCHANGED <<boxes, secrets, given, torn>>
  BY DEF CloseEdit, serverVars, historyVars
<1>3. calls' \subseteq Call /\ Followed'
  BY <1>1, <1>2, Unhearing
<1>4. Typed'
  BY <1>1, <1>3 DEF CloseEdit, Typed, serverVars, historyVars
<1> QED BY <1>3, <1>4

LEMMA LeaveStepFollows ==
  ASSUME Typed, Followed, LeaveStep PROVE Typed' /\ Followed'
<1>1. UNCHANGED <<boxes, secrets, given, torn>>
  BY DEF LeaveStep, serverVars, historyVars
<1>2. calls' \subseteq Call /\ Followed'
  BY <1>1, Unhearing DEF LeaveStep
<1>3. Typed'
  BY <1>2 DEF LeaveStep, Typed, serverVars, pageVars, historyVars
<1> QED BY <1>2, <1>3

LEMMA ListFailsFollows ==
  ASSUME Typed, Followed, ListFails PROVE Typed' /\ Followed'
<1>1. UNCHANGED <<boxes, secrets, given, torn>>
  BY DEF ListFails, serverVars
<1>2. calls' \subseteq Call /\ Followed'
  BY <1>1, Unhearing DEF ListFails
<1>3. Typed'
  BY <1>2 DEF ListFails, Typed, serverVars, Idle, Nothing
<1> QED BY <1>2, <1>3

\* What an invalidation does to the fetch.
LEMMA Invalidated ==
  ASSUME Typed, Invalidate
  PROVE  fetch'.stage \in {"idle", "asked", "read"} /\ DOMAIN fetch'.got \subseteq Ids
<1>1. CASE ~listed /\ fetch.stage # "idle"
  BY <1>1 DEF Invalidate, Typed
<1>2. CASE ~(~listed /\ fetch.stage # "idle")
  BY <1>2 DEF Invalidate, Typed, Idle, Nothing
<1> QED BY <1>1, <1>2

LEMMA MountSetupFollows ==
  ASSUME Typed, Followed, MountSetup PROVE Typed' /\ Followed'
<1>1. UNCHANGED <<boxes, secrets, given, torn>>
  BY DEF MountSetup, serverVars
<1>2. calls' \subseteq Call /\ Followed'
  BY <1>1, Unhearing DEF MountSetup
<1>3. fetch'.stage \in {"idle", "asked", "read"} /\ DOMAIN fetch'.got \subseteq Ids
  BY Invalidated DEF MountSetup, Typed
<1>4. Typed'
  BY <1>2, <1>3 DEF MountSetup, Typed, serverVars
<1> QED BY <1>2, <1>4

LEMMA ListReadFollows ==
  ASSUME Typed, Followed, ListRead PROVE Typed' /\ Followed'
<1>1. UNCHANGED calls /\ UNCHANGED <<boxes, secrets, given, torn>>
  BY DEF ListRead, serverVars, historyVars
<1>2. Followed'
  BY <1>1, Bystander DEF Followed, WholeForms
<1>3. DOMAIN Config \subseteq Ids
  BY DEF Typed, Config, Nothing
<1>4. Typed'
  BY <1>3 DEF ListRead, Typed, serverVars, historyVars
<1> QED BY <1>2, <1>4

LEMMA ListArrivesFollows ==
  ASSUME Typed, Followed, ListArrives PROVE Typed' /\ Followed'
<1>1. UNCHANGED calls /\ UNCHANGED <<boxes, secrets, given, torn>>
  BY DEF ListArrives, serverVars, historyVars
<1>2. Followed'
  BY <1>1, Bystander DEF Followed, WholeForms
<1>3. Typed'
  BY DEF ListArrives, Typed, serverVars, historyVars, Idle, Nothing
<1> QED BY <1>2, <1>3

LEMMA CorruptFollows ==
  ASSUME Typed, Followed, Corrupt PROVE Typed' /\ Followed'
<1>1. UNCHANGED calls /\ UNCHANGED <<boxes, secrets, given, torn>>
  BY DEF Corrupt
<1>2. Followed'
  BY <1>1, Bystander DEF Followed, WholeForms
<1>3. Typed'
  BY DEF Corrupt, Typed, pageVars
<1> QED BY <1>2, <1>3

\* A call that is settled has nothing left to do.
LEMMA SettleFollows ==
  ASSUME Typed, Followed, Settle PROVE Typed' /\ Followed'
<1>1. PICK c \in calls :
        /\ calls' = calls \ {c}
        /\ \/ c.stage = "replied" /\ Succeeds(c)
           \/ c.stage = "failed" /\ behind' = "failed" /\ UNCHANGED <<fetch, carried, drafts>>
  BY DEF Settle
<1>2. UNCHANGED <<boxes, secrets, given, torn>> /\ UNCHANGED <<list, forms>>
  BY DEF Settle, serverVars
<1>3. Followed'
  BY <1>1, <1>2, Bystander DEF Followed, WholeForms, Storing
<1>4. c.id \in Ids
  BY CallFields DEF Typed
<1>5. fetch'.stage \in {"idle", "asked", "read"} /\ DOMAIN fetch'.got \subseteq Ids
  BY <1>1, Invalidated DEF Succeeds, Typed
<1>6. carried' \subseteq Ids /\ drafts' \subseteq Ids
  BY <1>1, <1>4 DEF Succeeds, Typed
<1>7. Typed'
  BY <1>1, <1>2, <1>5, <1>6 DEF Typed
<1> QED BY <1>3, <1>7

\* A call that is accepted: the config is written, and the call sets out to
\* write passwords.
LEMMA Accepting ==
  ASSUME Typed, Followed, NEW c \in calls, c.stage = "sent", NEW config,
         Accepted(c, config), UNCHANGED secrets,
         DOMAIN config \subseteq Ids,
         c.op = "remove" <=> c.id \notin DOMAIN config,
         \A id \in Ids \ {c.id} : id \in DOMAIN config <=> id \in DOMAIN Config,
         c.id \in DOMAIN Config \/ c.kinds = Kinds
  PROVE  /\ DOMAIN boxes' \subseteq Ids /\ given' \in Slots /\ calls' \subseteq Call
         /\ Followed'
<1> DEFINE d == [c EXCEPT !.stage = "storing"]
           asked == [kind \in Kinds |-> IF kind \notin c.kinds THEN given[c.id][kind]
                                        ELSE IF c.op = "remove" THEN 0 ELSE c.n]
<1>1. c \in Call
  BY DEF Typed
<1>2. /\ c.n \in Nat /\ c.op \in Ops /\ c.id \in Ids /\ c.kinds \subseteq Kinds
  BY <1>1, CallFields
<1>3. /\ d \in Call /\ d.stage = "storing"
      /\ d.n = c.n /\ d.op = c.op /\ d.id = c.id /\ d.kinds = c.kinds
  BY <1>1, Staged DEF Stages
<1>4. calls' = (calls \ {c}) \cup {d}
  BY DEF Accepted, Becomes
<1> HIDE DEF d
<1>5. boxes' = config
  BY DEF Accepted, Update
<1>6. given' = [given EXCEPT ![c.id] = asked]
  BY DEF Accepted
<1>7. given \in Slots /\ secrets \in Slots
  BY DEF Typed
<1>8. given[c.id] \in [Kinds -> Nat]
  BY <1>2, <1>7 DEF Slots
<1>9. asked \in [Kinds -> Nat]
  BY <1>2, <1>8
<1>10. given'[c.id] = asked /\ \A id \in Ids \ {c.id} : given'[id] = given[id]
  BY <1>2, <1>6, <1>7 DEF Slots
<1>11. given' \in Slots
  BY <1>2, <1>6, <1>7, <1>9 DEF Slots
<1> HIDE DEF asked
<1>12. calls' \subseteq Call
  BY <1>3, <1>4 DEF Typed
<1>13. WholeForms'
  BY <1>3, <1>4 DEF Followed, WholeForms
<1>14. \A id \in Ids \ {c.id} : id \notin torn' =>
         id \notin torn /\ Due(id)' = Due(id)
  <2> TAKE id \in Ids \ {c.id}
  <2> HAVE id \notin torn'
  <2>1. id \notin torn /\ (readable \/ id \notin DOMAIN boxes)
    BY DEF Accepted
  <2>2. id \in DOMAIN config <=> id \in DOMAIN boxes
    <3>1. CASE readable
      BY <3>1 DEF Config
    <3>2. CASE ~readable
      <4>1. DOMAIN Config = {}
        BY <3>2 DEF Config, Nothing
      <4> QED BY <2>1, <3>2, <4>1
    <3> QED BY <3>1, <3>2
  <2>3. Due(id)' = Due(id)
    BY <1>5, <1>10, <2>2 DEF Due, NoSecrets
  <2> QED BY <2>1, <2>3
<1>15. c.id \notin torn' => ~Crossing(c)
  BY DEF Accepted
<1>16. \A e \in calls' : Storing(e) /\ e.id \notin torn' =>
         e = d \/ (e \in calls /\ e.id # c.id)
  BY <1>4, <1>15 DEF Crossing, Storing
<1>17. OneWriter'
  <2> SUFFICES ASSUME NEW e \in calls', NEW f \in calls',
                      Storing(e), Storing(f), e.id = f.id, e.id \notin torn'
               PROVE  e = f
    BY DEF OneWriter
  <2>1. CASE e = d \/ f = d
    BY <1>3, <1>16, <2>1
  <2>2. CASE e # d /\ f # d
    <3>1. e \in calls /\ f \in calls /\ e.id # c.id
      BY <1>16, <2>2
    <3>2. e.id \in Ids
      BY <3>1, CallFields DEF Typed
    <3>3. e.id \notin torn
      BY <1>14, <3>1, <3>2
    <3> QED BY <3>1, <3>3 DEF Followed, OneWriter
  <2> QED BY <2>1, <2>2
<1>18. ASSUME c.id \notin torn', NEW kind \in Kinds \ c.kinds
       PROVE  secrets[c.id][kind] = Due(c.id)'[kind]
  <2>1. c.kinds # Kinds
    OBVIOUS
  <2>2. c.id \in DOMAIN Config /\ readable /\ c.id \in DOMAIN boxes
    BY <2>1 DEF Config, Nothing
  <2>3. c.id \notin torn
    BY <1>18, <2>1, <2>2 DEF Accepted
  <2>4. c.op # "remove" /\ c.id \in DOMAIN boxes'
    BY <1>5, <2>1 DEF Followed, WholeForms
  <2>5. Untouched(c.id)
    BY <1>15, <1>18 DEF Untouched, Crossing
  <2>6. secrets[c.id] = given[c.id]
    BY <1>2, <2>2, <2>3, <2>5 DEF Followed, Written, Due
  <2>7. Due(c.id)' = asked
    BY <1>10, <2>4 DEF Due
  <2> QED BY <2>6, <2>7 DEF asked
<1>19. HalfWritten'
  <2> SUFFICES ASSUME NEW e \in calls', Storing(e), e.id \notin torn'
               PROVE  HalfWritten!(e)!2'
    BY DEF HalfWritten
  <2>1. CASE e = d
    <3>1. d.op = "remove" <=> d.id \notin DOMAIN boxes'
      BY <1>3, <1>5
    <3>2. \A kind \in d.kinds :
            given'[d.id][kind] = IF d.op = "remove" THEN 0 ELSE d.n
      BY <1>2, <1>3, <1>10 DEF asked
    <3>3. \A kind \in Kinds \ d.kinds : secrets'[d.id][kind] = Due(d.id)'[kind]
      BY <1>3, <1>18, <2>1
    <3> QED BY <2>1, <3>1, <3>2, <3>3
  <2>2. CASE e # d
    <3>1. e \in calls /\ e.id # c.id
      BY <1>16, <2>2
    <3>2. e.id \in Ids
      BY <3>1, CallFields DEF Typed
    <3>3. e.id \notin torn /\ Due(e.id)' = Due(e.id) /\ given'[e.id] = given[e.id]
      BY <1>10, <1>14, <3>1, <3>2
    <3>4. HalfWritten!(e)!2
      BY <3>1, <3>3 DEF Followed, HalfWritten
    <3>5. e.id \in DOMAIN boxes' <=> e.id \in DOMAIN boxes
      <4>1. readable \/ e.id \notin DOMAIN boxes
        BY <3>1 DEF Accepted
      <4>2. CASE readable
        BY <1>5, <3>1, <3>2, <4>2 DEF Config
      <4>3. CASE ~readable
        <5>1. DOMAIN Config = {}
          BY <4>3 DEF Config, Nothing
        <5> QED BY <1>5, <3>1, <3>2, <4>1, <4>3, <5>1
      <4> QED BY <4>2, <4>3
    <3> QED BY <3>3, <3>4, <3>5
  <2> QED BY <2>1, <2>2
<1>20. Written'
  <2> SUFFICES ASSUME NEW id \in Ids, Untouched(id)', id \notin torn'
               PROVE  secrets'[id] = Due(id)'
    BY DEF Written
  <2>1. id # c.id
    BY <1>3, <1>4 DEF Untouched
  <2>2. Untouched(id)
    BY <1>4, <2>1 DEF Untouched
  <2> QED BY <1>14, <2>1, <2>2 DEF Followed, Written
<1> QED BY <1>5, <1>11, <1>12, <1>13, <1>17, <1>19, <1>20 DEF Followed

\* A call that is refused has done nothing.
LEMMA FailsFollows ==
  ASSUME Typed, Followed, NEW c \in calls, Fails(c), c.stage = "sent",
         UNCHANGED <<boxes, secrets, given, torn>>
  PROVE  /\ DOMAIN boxes' \subseteq Ids /\ secrets' \in Slots /\ given' \in Slots
         /\ calls' \subseteq Call /\ Followed'
<1> DEFINE d == [c EXCEPT !.stage = "failed"]
<1>1. d \in Call /\ d.stage = "failed"
  BY Staged DEF Typed, Stages
<1>2. calls' = (calls \ {c}) \cup {d}
  BY DEF Fails, Becomes
<1> HIDE DEF d
<1>3. WholeForms'
  BY <1>1, <1>2 DEF Followed, WholeForms
<1>4. Followed'
  BY <1>1, <1>2, <1>3, Bystander DEF Storing
<1> QED BY <1>1, <1>2, <1>4 DEF Typed

\* A call that fails while it writes leaves its mailbox torn.
LEMMA Failing ==
  ASSUME Typed, Followed, NEW c \in calls, Fails(c), torn' = torn \cup {c.id},
         UNCHANGED <<boxes, secrets, given>>
  PROVE  /\ DOMAIN boxes' \subseteq Ids /\ secrets' \in Slots /\ given' \in Slots
         /\ calls' \subseteq Call /\ Followed'
<1> DEFINE d == [c EXCEPT !.stage = "failed"]
<1>1. d \in Call /\ d.stage = "failed"
  BY Staged DEF Typed, Stages
<1>2. calls' = (calls \ {c}) \cup {d}
  BY DEF Fails, Becomes
<1> HIDE DEF d
<1>3. \A id : Due(id)' = Due(id)
  BY DEF Due, NoSecrets
<1>4. WholeForms' /\ OneWriter'
  BY <1>1, <1>2 DEF Followed, WholeForms, OneWriter, Storing
<1>5. HalfWritten'
  BY <1>1, <1>2, <1>3 DEF Followed, HalfWritten, Storing
<1>6. Written'
  BY <1>1, <1>2, <1>3 DEF Followed, Written, Untouched
<1> QED BY <1>1, <1>2, <1>4, <1>5, <1>6 DEF Typed, Followed

\* A call whose deletion fails goes on, and leaves its mailbox torn.
LEMMA Dropping ==
  ASSUME Typed, Followed, NEW c \in calls, c.stage = "storing", NEW kind,
         Becomes(c, [c EXCEPT !.kinds = @ \ {kind}]), torn' = torn \cup {c.id},
         UNCHANGED <<boxes, secrets, given>>
  PROVE  /\ DOMAIN boxes' \subseteq Ids /\ secrets' \in Slots /\ given' \in Slots
         /\ calls' \subseteq Call /\ Followed'
<1> DEFINE d == [c EXCEPT !.kinds = @ \ {kind}]
<1>1. d \in Call /\ d.stage = "storing" /\ d.id = c.id
  BY Served DEF Typed
<1>2. calls' = (calls \ {c}) \cup {d}
  BY DEF Becomes
<1> HIDE DEF d
<1>3. \A id : Due(id)' = Due(id)
  BY DEF Due, NoSecrets
<1>4. WholeForms' /\ OneWriter'
  BY <1>1, <1>2 DEF Followed, WholeForms, OneWriter, Storing
<1>5. HalfWritten'
  BY <1>1, <1>2, <1>3 DEF Followed, HalfWritten, Storing
<1>6. Written'
  BY <1>1, <1>2, <1>3 DEF Followed, Written, Untouched
<1> QED BY <1>1, <1>2, <1>4, <1>5, <1>6 DEF Typed, Followed

\* A call writes one of its passwords as it is due.
LEMMA Writing ==
  ASSUME Typed, Followed, NEW c \in calls, c.stage = "storing",
         NEW kind \in Kinds, kind \in c.kinds, NEW value \in Nat,
         secrets' = [secrets EXCEPT ![c.id] = [secrets[c.id] EXCEPT ![kind] = value]],
         c.id \notin torn => value = Due(c.id)[kind],
         Becomes(c, [c EXCEPT !.kinds = @ \ {kind}]),
         UNCHANGED <<boxes, given, torn>>
  PROVE  /\ DOMAIN boxes' \subseteq Ids /\ secrets' \in Slots /\ given' \in Slots
         /\ calls' \subseteq Call /\ Followed'
<1> DEFINE d == [c EXCEPT !.kinds = @ \ {kind}]
<1>1. c \in Call /\ c.id \in Ids /\ c.kinds \subseteq Kinds
  BY CallFields DEF Typed
<1>2. /\ d \in Call /\ d.stage = "storing" /\ d.n = c.n /\ d.op = c.op /\ d.id = c.id
      /\ d.kinds = c.kinds \ {kind}
  BY <1>1, Served
<1>3. calls' = (calls \ {c}) \cup {d}
  BY DEF Becomes
<1> HIDE DEF d
<1>4. secrets \in Slots
  BY DEF Typed
<1>5. secrets' \in Slots
  BY <1>1, <1>4 DEF Slots
<1>6. /\ secrets'[c.id][kind] = value
      /\ \A other \in Kinds \ {kind} : secrets'[c.id][other] = secrets[c.id][other]
      /\ \A id \in Ids \ {c.id} : secrets'[id] = secrets[id]
  BY <1>1, <1>4 DEF Slots
<1>7. \A id : Due(id)' = Due(id)
  BY DEF Due, NoSecrets
<1>8. WholeForms'
  BY <1>2, <1>3 DEF Followed, WholeForms
<1>9. \A e \in calls' : Storing(e) /\ e.id \notin torn =>
        e = d \/ (e \in calls /\ e.id # c.id)
  BY <1>3 DEF Followed, OneWriter, Storing
<1>10. OneWriter'
  <2> SUFFICES ASSUME NEW e \in calls', NEW f \in calls',
                      Storing(e), Storing(f), e.id = f.id, e.id \notin torn
               PROVE  e = f
    BY DEF OneWriter
  <2>1. CASE e = d \/ f = d
    BY <1>2, <1>9, <2>1
  <2>2. CASE e # d /\ f # d
    BY <1>9, <2>2 DEF Followed, OneWriter
  <2> QED BY <2>1, <2>2
<1>11. HalfWritten'
  <2> SUFFICES ASSUME NEW e \in calls', Storing(e), e.id \notin torn
               PROVE  HalfWritten!(e)!2'
    BY DEF HalfWritten
  <2>1. CASE e = d
    <3>1. HalfWritten!(c)!2
      BY <1>2, <2>1 DEF Followed, HalfWritten, Storing
    <3>2. \A other \in Kinds \ d.kinds : secrets'[c.id][other] = Due(c.id)[other]
      BY <1>2, <1>6, <2>1, <3>1
    <3> QED BY <1>2, <1>7, <2>1, <3>1, <3>2
  <2>2. CASE e # d
    <3>1. e \in calls /\ e.id # c.id
      BY <1>9, <2>2
    <3>2. e.id \in Ids
      BY <3>1, CallFields DEF Typed
    <3>3. HalfWritten!(e)!2
      BY <3>1 DEF Followed, HalfWritten
    <3> QED BY <1>6, <1>7, <3>1, <3>2, <3>3
  <2> QED BY <2>1, <2>2
<1>12. Written'
  <2> SUFFICES ASSUME NEW id \in Ids, Untouched(id)', id \notin torn
               PROVE  secrets'[id] = Due(id)
    BY <1>7 DEF Written
  <2>1. id # c.id
    BY <1>2, <1>3 DEF Untouched
  <2>2. Untouched(id)
    BY <1>3, <2>1 DEF Untouched
  <2> QED BY <1>6, <2>1, <2>2 DEF Followed, Written
<1> QED BY <1>2, <1>3, <1>5, <1>8, <1>10, <1>11, <1>12 DEF Typed, Followed

LEMMA AddFollows ==
  ASSUME Typed, Followed, NEW c \in calls, Add(c)
  PROVE  /\ DOMAIN boxes' \subseteq Ids /\ secrets' \in Slots /\ given' \in Slots
         /\ calls' \subseteq Call /\ Followed'
<1>1. c \in Call /\ c.id \in Ids
  BY CallFields DEF Typed
<1>2. CASE MayAdd(c)
  <2> DEFINE config == With(Config, c.id, Address(c, "none"))
  <2>1. DOMAIN config = DOMAIN Config \cup {c.id}
    BY DEF With
  <2>2. DOMAIN Config \subseteq Ids
    BY DEF Typed, Config, Nothing
  <2>3. Accepted(c, config) /\ c.stage = "sent" /\ c.op = "add" /\ UNCHANGED secrets
    BY <1>2 DEF Add
  <2>4. c.kinds = Kinds
    BY <2>3 DEF Followed, WholeForms
  <2> HIDE DEF config
  <2> QED BY <1>1, <2>1, <2>2, <2>3, <2>4, Accepting DEF Typed
<1>3. CASE ~MayAdd(c)
  BY <1>3, FailsFollows DEF Add
<1> QED BY <1>2, <1>3

LEMMA PatchFollows ==
  ASSUME Typed, Followed, NEW c \in calls, Patch(c)
  PROVE  /\ DOMAIN boxes' \subseteq Ids /\ secrets' \in Slots /\ given' \in Slots
         /\ calls' \subseteq Call /\ Followed'
<1>1. CASE c.id \in DOMAIN Config
  <2> DEFINE config == [Config EXCEPT ![c.id] = Address(c, @)]
  <2>1. DOMAIN config = DOMAIN Config
    OBVIOUS
  <2>2. DOMAIN Config \subseteq Ids
    BY DEF Typed, Config, Nothing
  <2>3. Accepted(c, config) /\ c.stage = "sent" /\ c.op # "remove" /\ UNCHANGED secrets
    BY <1>1 DEF Patch
  <2> HIDE DEF config
  <2> QED BY <1>1, <2>1, <2>2, <2>3, Accepting DEF Typed
<1>2. CASE c.id \notin DOMAIN Config
  BY <1>2, FailsFollows DEF Patch
<1> QED BY <1>1, <1>2

LEMMA RemoveFollows ==
  ASSUME Typed, Followed, NEW c \in calls, Remove(c)
  PROVE  /\ DOMAIN boxes' \subseteq Ids /\ secrets' \in Slots /\ given' \in Slots
         /\ calls' \subseteq Call /\ Followed'
<1>1. CASE c.id \in DOMAIN Config
  <2> DEFINE config == Without(Config, c.id)
  <2>1. DOMAIN config = DOMAIN Config \ {c.id}
    BY DEF Without
  <2>2. DOMAIN Config \subseteq Ids
    BY DEF Typed, Config, Nothing
  <2>3. Accepted(c, config) /\ c.stage = "sent" /\ c.op = "remove" /\ UNCHANGED secrets
    BY <1>1 DEF Remove
  <2> HIDE DEF config
  <2> QED BY <1>1, <2>1, <2>2, <2>3, Accepting DEF Typed
<1>2. CASE c.id \notin DOMAIN Config
  BY <1>2, FailsFollows DEF Remove
<1> QED BY <1>1, <1>2

\* A password is put into the store.
LEMMA StoreFollows ==
  ASSUME Typed, Followed, NEW c \in calls, Store(c)
  PROVE  /\ DOMAIN boxes' \subseteq Ids /\ secrets' \in Slots /\ given' \in Slots
         /\ calls' \subseteq Call /\ Followed'
<1>1. UNCHANGED <<boxes, given>> /\ c.op # "remove" /\ c.stage = "storing" /\ c.kinds # {}
  BY DEF Store
<1>2. CASE Fails(c) /\ torn' = torn \cup {c.id} /\ UNCHANGED secrets
  BY <1>1, <1>2, Failing
<1>3. CASE /\ secrets' = [secrets EXCEPT ![c.id] = Stored(c)] /\ UNCHANGED torn
           /\ Becomes(c, [c EXCEPT !.kinds = @ \ {IF "imap" \in @ THEN "imap" ELSE "smtp"}])
  <2> DEFINE kind == IF "imap" \in c.kinds THEN "imap" ELSE "smtp"
  <2>1. c \in Call /\ c.id \in Ids /\ c.kinds \subseteq Kinds /\ c.n \in Nat
    BY CallFields DEF Typed
  <2>2. kind \in c.kinds /\ kind \in Kinds
    BY <1>1, <2>1 DEF Kinds
  <2>3. /\ secrets' = [secrets EXCEPT ![c.id] = [secrets[c.id] EXCEPT ![kind] = c.n]]
        /\ Becomes(c, [c EXCEPT !.kinds = @ \ {kind}])
    BY <1>3, <2>1 DEF Stored
  <2> HIDE DEF kind
  <2>4. c.id \notin torn => c.n = Due(c.id)[kind]
    BY <1>1, <2>2 DEF Followed, HalfWritten, Storing, Due
  <2> QED BY <1>1, <1>3, <2>1, <2>2, <2>3, <2>4, Writing
<1> QED BY <1>2, <1>3 DEF Store

\* A password is taken from the store.
LEMMA DeleteFollows ==
  ASSUME Typed, Followed, NEW c \in calls, Delete(c)
  PROVE  /\ DOMAIN boxes' \subseteq Ids /\ secrets' \in Slots /\ given' \in Slots
         /\ calls' \subseteq Call /\ Followed'
<1>1. PICK kind \in c.kinds :
        /\ \/ /\ secrets' = [secrets EXCEPT ![c.id][kind] = IF Deletes(c, kind) THEN 0 ELSE @]
              /\ UNCHANGED <<torn, faults>>
           \/ Fault("keychain") /\ torn' = torn \cup {c.id} /\ UNCHANGED secrets
        /\ Becomes(c, [c EXCEPT !.kinds = @ \ {kind}])
  BY DEF Delete
<1>2. UNCHANGED <<boxes, given>> /\ c.op = "remove" /\ c.stage = "storing"
  BY DEF Delete
<1>3. c \in Call /\ c.id \in Ids /\ kind \in Kinds
  BY CallFields DEF Typed
<1>4. CASE torn' = torn \cup {c.id} /\ UNCHANGED secrets
  BY <1>1, <1>2, <1>3, <1>4, Dropping
<1>5. CASE /\ secrets' = [secrets EXCEPT ![c.id][kind] = IF Deletes(c, kind) THEN 0 ELSE @]
           /\ UNCHANGED torn
  <2>1. secrets' = [secrets EXCEPT ![c.id] = [secrets[c.id] EXCEPT ![kind] = 0]]
    BY <1>5 DEF Deletes
  <2>2. c.id \notin torn => Due(c.id)[kind] = 0
    BY <1>2, <1>3 DEF Followed, HalfWritten, Storing, Due, NoSecrets
  <2> QED BY <1>1, <1>2, <1>3, <1>5, <2>1, <2>2, Writing
<1> QED BY <1>1, <1>4, <1>5

\* A writer that has nothing left to write has written what is due.
LEMMA AllWritten ==
  ASSUME Typed, Followed, NEW c \in calls, Storing(c), c.kinds = {}, c.id \notin torn
  PROVE  secrets[c.id] = Due(c.id)
<1>1. c.id \in Ids
  BY CallFields DEF Typed
<1>2. secrets[c.id] \in [Kinds -> Nat] /\ Due(c.id) \in [Kinds -> Nat]
  BY <1>1 DEF Typed, Slots, Due, NoSecrets
<1>3. \A kind \in Kinds : secrets[c.id][kind] = Due(c.id)[kind]
  BY DEF Followed, HalfWritten
<1> HIDE DEF Due
<1> QED BY <1>2, <1>3

LEMMA ReplyFollows ==
  ASSUME Typed, Followed, NEW c \in calls, Reply(c)
  PROVE  /\ DOMAIN boxes' \subseteq Ids /\ secrets' \in Slots /\ given' \in Slots
         /\ calls' \subseteq Call /\ Followed'
<1>1. PICK stage \in {"replied", "failed"} : Becomes(c, [c EXCEPT !.stage = stage])
  BY DEF Reply, Fails
<1> DEFINE d == [c EXCEPT !.stage = stage]
<1>2. d \in Call /\ d.stage = stage
  <2>1. c \in Call /\ stage \in Stages
    BY DEF Typed, Stages
  <2> QED BY <2>1, Staged
<1>3. calls' = (calls \ {c}) \cup {d}
  BY <1>1 DEF Becomes
<1> HIDE DEF d
<1>4. /\ UNCHANGED <<boxes, secrets, given, torn>>
      /\ Storing(c) /\ c.kinds = {}
  BY DEF Reply, serverVars, Storing
<1>5. \A id : Due(id)' = Due(id)
  BY <1>4 DEF Due, NoSecrets
<1>6. WholeForms' /\ OneWriter'
  BY <1>2, <1>3, <1>4 DEF Followed, WholeForms, OneWriter, Storing
<1>7. HalfWritten'
  BY <1>2, <1>3, <1>4, <1>5 DEF Followed, HalfWritten, Storing
<1>8. Written'
  <2> SUFFICES ASSUME NEW id \in Ids, Untouched(id)', id \notin torn
               PROVE  secrets[id] = Due(id)
    BY <1>4, <1>5 DEF Written
  <2>1. CASE id = c.id
    BY <1>4, <2>1, AllWritten
  <2>2. CASE id # c.id
    <3>1. Untouched(id)
      BY <1>3, <2>2 DEF Untouched
    <3> QED BY <3>1 DEF Followed, Written
  <2> QED BY <2>1, <2>2
<1> QED BY <1>2, <1>3, <1>4, <1>6, <1>7, <1>8 DEF Typed, Followed

LEMMA ServeFollows ==
  ASSUME Typed, Followed, Serve PROVE Typed' /\ Followed'
<1>1. PICK c \in calls :
        \/ (Add(c) \/ Patch(c) \/ Remove(c)) /\ UNCHANGED faults
        \/ Store(c) \/ Delete(c) \/ Reply(c)
  BY DEF Serve
<1>2. /\ DOMAIN boxes' \subseteq Ids /\ secrets' \in Slots /\ given' \in Slots
      /\ calls' \subseteq Call /\ Followed'
  BY <1>1, AddFollows, PatchFollows, RemoveFollows, StoreFollows, DeleteFollows, ReplyFollows
<1>3. UNCHANGED <<forms, list, fetch, carried, drafts>>
  BY DEF Serve, pageVars
<1> QED BY <1>2, <1>3 DEF Typed

LEMMA CrashFollows ==
  ASSUME Typed, Followed, Crash PROVE Typed' /\ Followed'
<1> DEFINE ended(c) == IF c.stage \in {"sent", "storing"} THEN [c EXCEPT !.stage = "failed"] ELSE c
<1>1. calls' = {ended(c) : c \in calls}
  BY DEF Crash
<1>2. \A c \in calls : ended(c) \in Call /\ ended(c).stage \notin {"sent", "storing"}
  <2> TAKE c \in calls
  <2>1. c \in Call
    BY DEF Typed
  <2>2. CASE c.stage \in {"sent", "storing"}
    BY <2>1, <2>2, Staged DEF Stages
  <2>3. CASE c.stage \notin {"sent", "storing"}
    BY <2>1, <2>3
  <2> QED BY <2>2, <2>3
<1> HIDE DEF ended
<1>3. UNCHANGED <<boxes, secrets, given>>
  BY DEF Crash, serverVars
<1>4. \A id : Due(id)' = Due(id)
  BY <1>3 DEF Due, NoSecrets
<1>5. WholeForms' /\ OneWriter' /\ HalfWritten'
  BY <1>1, <1>2 DEF WholeForms, OneWriter, HalfWritten, Storing
<1>6. Written'
  <2> SUFFICES ASSUME NEW id \in Ids, id \notin torn' PROVE secrets[id] = Due(id)
    BY <1>3, <1>4 DEF Written
  <2>1. id \notin torn /\ \A c \in calls : c.id = id /\ Storing(c) => c.kinds = {}
    BY DEF Crash, Storing
  <2>2. CASE Untouched(id)
    BY <2>1, <2>2 DEF Followed, Written
  <2>3. CASE ~Untouched(id)
    <3>1. PICK c \in calls : c.id = id /\ Storing(c)
      BY <2>3 DEF Untouched, Storing
    <3> QED BY <2>1, <3>1, AllWritten
  <2> QED BY <2>2, <2>3
<1>7. Typed'
  BY <1>1, <1>2, <1>3 DEF Crash, Typed, pageVars
<1> QED BY <1>5, <1>6, <1>7 DEF Followed

LEMMA NextFollows ==
  ASSUME Typed, Followed, [Next]_vars PROVE Typed' /\ Followed'
<1>1. CASE UNCHANGED vars
  <2>1. UNCHANGED calls /\ UNCHANGED <<boxes, secrets, given, torn>>
    BY <1>1 DEF vars, serverVars, historyVars
  <2>2. Followed'
    BY <2>1, Bystander DEF Followed, WholeForms
  <2>3. Typed'
    BY <1>1 DEF Typed, vars, serverVars, pageVars, historyVars
  <2> QED BY <2>2, <2>3
<1>2. CASE Next
  BY <1>2, SubmitAddFollows, SubmitPasswordFollows, OpenEditFollows, CloseEditFollows,
     SubmitEditFollows, SubmitRemoveFollows, LeaveStepFollows, ServeFollows, CrashFollows,
     CorruptFollows, SettleFollows, ListReadFollows, ListArrivesFollows, ListFailsFollows,
     MountSetupFollows DEF Next
<1> QED BY <1>1, <1>2

\* The inductive invariant of the passwords: what a call has written is what is
\* due, what it has yet to write is what the config and the last submission ask
\* for, and no other call writes it too.
THEOREM FollowedHolds == Spec => [](Typed /\ Followed)
<1>1. Init => Typed /\ Followed
  BY StartsFollowed
<1>2. (Typed /\ Followed) /\ [Next]_vars => (Typed /\ Followed)'
  BY NextFollows
<1> QED BY <1>1, <1>2, PTL DEF Spec

\* The passwords follow the mailboxes (wizard.ts:161-171, :199-209): one that is
\* configured has those of the last submissions, one that is not has none.
THEOREM SecretsFollow == Spec => []SecretsFollowMailboxes
<1>1. Typed /\ Followed => SecretsFollowMailboxes
  BY DEF Followed, Written, SecretsFollowMailboxes, Due
<1> QED BY <1>1, FollowedHolds, PTL

-----------------------------------------------------------------------------
(* The list.                                                               *)

AllSent == \A c \in calls : c.stage = "sent"

\* Nothing the list depends on has changed, and no call has come back to being sent.
LEMMA Unread ==
  ASSUME Fresh, AllSent' => AllSent,
         UNCHANGED <<boxes, readable, secrets, list, listed, fetch, behind>>
  PROVE  Fresh'
<1>1. Config' = Config
  BY DEF Config, Nothing
<1>2. \A address, id : Entry(address, id)' = Entry(address, id)
  BY DEF Entry
<1>3. [id \in DOMAIN Config |-> Entry(Config[id], id)]'
      = [id \in DOMAIN Config |-> Entry(Config[id], id)]
  BY <1>1, <1>2
<1>4. behind = "nothing" /\ AllSent =>
        /\ fetch.stage = "read" => fetch.got = Config
        /\ fetch.stage = "idle" /\ listed
             => list = [id \in DOMAIN Config |-> Entry(Config[id], id)]
  BY DEF Fresh, AllSent
<1>5. behind' = "nothing" /\ AllSent' =>
        /\ fetch'.stage = "read" => fetch'.got = Config'
        /\ fetch'.stage = "idle" /\ listed'
             => list' = [id \in DOMAIN Config |-> Entry(Config[id], id)]'
  BY <1>1, <1>3, <1>4
<1> QED BY <1>5 DEF Fresh, AllSent

\* A call that goes on is one that is not just sent.
LEMMA ServedFresh ==
  ASSUME Typed, Serve PROVE ~AllSent'
<1>1. PICK c \in calls :
        \/ (Add(c) \/ Patch(c) \/ Remove(c)) /\ UNCHANGED faults
        \/ Store(c) \/ Delete(c) \/ Reply(c)
  BY DEF Serve
<1>2. c \in Call
  BY DEF Typed
<1>3. \A s \in Stages \ {"sent"} : Becomes(c, [c EXCEPT !.stage = s]) => ~AllSent'
  <2> TAKE s \in (Stages \ {"sent"})
  <2> HAVE Becomes(c, [c EXCEPT !.stage = s])
  <2> DEFINE d == [c EXCEPT !.stage = s]
  <2>1. d.stage = s /\ s # "sent"
    BY <1>2, Staged
  <2>2. d \in calls'
    BY DEF Becomes
  <2> QED BY <2>1, <2>2 DEF AllSent
<1>4. \A kind : Becomes(c, [c EXCEPT !.kinds = @ \ {kind}]) /\ c.stage = "storing" => ~AllSent'
  <2> TAKE kind
  <2> HAVE Becomes(c, [c EXCEPT !.kinds = @ \ {kind}]) /\ c.stage = "storing"
  <2> DEFINE d == [c EXCEPT !.kinds = @ \ {kind}]
  <2>1. d.stage = "storing"
    BY <1>2, Served
  <2>2. d \in calls'
    BY DEF Becomes
  <2> QED BY <2>1, <2>2 DEF AllSent
<1>5. (\E config : Accepted(c, config)) => ~AllSent'
  BY <1>3 DEF Accepted, Stages
<1>6. Fails(c) => ~AllSent'
  BY <1>3 DEF Fails, Stages
<1>7. CASE Add(c) \/ Patch(c) \/ Remove(c)
  BY <1>5, <1>6, <1>7 DEF Add, Patch, Remove
<1>8. CASE Store(c)
  BY <1>4, <1>6, <1>8 DEF Store
<1>9. CASE Delete(c)
  BY <1>4, <1>9 DEF Delete
<1>10. CASE Reply(c)
  BY <1>3, <1>6, <1>10 DEF Reply, Stages
<1> QED BY <1>1, <1>7, <1>8, <1>9, <1>10

\* A call nobody listens to has come no further.
LEMMA UnheardFresh ==
  ASSUME Typed, NEW ops, NEW ids, Unheard(ops, ids) PROVE AllSent' => AllSent
<1> DEFINE deaf(c) == [c EXCEPT !.heard = c.heard /\ ~(c.op \in ops /\ c.id \in ids)]
<1>1. calls' = {deaf(c) : c \in calls}
  BY DEF Unheard
<1>2. \A c \in calls : deaf(c).stage = c.stage
  <2> TAKE c \in calls
  <2>1. c \in Call /\ (c.heard /\ ~(c.op \in ops /\ c.id \in ids)) \in BOOLEAN
    BY DEF Typed
  <2> QED BY <2>1, Deaf
<1> HIDE DEF deaf
<1> QED BY <1>1, <1>2 DEF AllSent

\* What an invalidation leaves is either behind or on its way.
LEMMA InvalidatedFresh ==
  ASSUME Invalidate PROVE Fresh'
<1>1. CASE ~listed /\ fetch.stage # "idle"
  BY <1>1 DEF Invalidate, Fresh
<1>2. CASE ~(~listed /\ fetch.stage # "idle")
  BY <1>2 DEF Invalidate, Fresh, Idle
<1> QED BY <1>1, <1>2

LEMMA CrashFresh ==
  ASSUME Typed, Fresh, Crash PROVE Fresh'
<1> DEFINE ended(c) == IF c.stage \in {"sent", "storing"} THEN [c EXCEPT !.stage = "failed"] ELSE c
<1>1. calls' = {ended(c) : c \in calls}
  BY DEF Crash
<1>2. \A c \in calls : ended(c).stage # "sent"
  <2> TAKE c \in calls
  <2>1. c \in Call
    BY DEF Typed
  <2>2. CASE c.stage \in {"sent", "storing"}
    BY <2>1, <2>2, Staged DEF Stages
  <2>3. CASE c.stage \notin {"sent", "storing"}
    BY <2>3
  <2> QED BY <2>2, <2>3
<1> HIDE DEF ended
<1>3. AllSent' => AllSent
  BY <1>1, <1>2 DEF AllSent
<1> QED BY <1>3, Unread DEF Crash, serverVars, pageVars

LEMMA ListArrivesFresh ==
  ASSUME Typed, Fresh, ListArrives PROVE Fresh'
<1>1. UNCHANGED <<boxes, readable, secrets, calls, behind>>
  BY DEF ListArrives, serverVars, historyVars
<1>2. Config' = Config /\ \A address, id : Entry(address, id)' = Entry(address, id)
  BY <1>1 DEF Config, Nothing, Entry
<1>3. list' = [id \in DOMAIN fetch.got |-> Entry(fetch.got[id], id)] /\ fetch' = Idle
      /\ fetch.stage = "read"
  BY DEF ListArrives
<1>4. behind = "nothing" /\ (\A c \in calls : c.stage = "sent")
        => list' = [id \in DOMAIN Config |-> Entry(Config[id], id)]
  BY <1>3 DEF Fresh
<1>5. list' = [id \in DOMAIN Config |-> Entry(Config[id], id)]
        => list' = [id \in DOMAIN Config |-> Entry(Config[id], id)]'
  BY <1>2
<1>6. fetch'.stage # "read"
  BY <1>3 DEF Idle
<1> QED BY <1>1, <1>4, <1>5, <1>6 DEF Fresh

LEMMA ListReadFresh ==
  ASSUME Fresh, ListRead PROVE Fresh'
<1>1. Config' = Config
  BY DEF ListRead, serverVars, Config, Nothing
<1>2. fetch'.stage = "read" /\ fetch'.got = Config
  BY DEF ListRead
<1> QED BY <1>1, <1>2 DEF Fresh

LEMMA NextFresh ==
  ASSUME Typed, Fresh, [Next]_vars PROVE Fresh'
<1> USE DEF serverVars, pageVars, historyVars
<1>1. ASSUME calls \subseteq calls',
             UNCHANGED <<boxes, readable, secrets, list, listed, fetch, behind>>
      PROVE  Fresh'
  BY <1>1, Unread DEF AllSent
<1>2. CASE SubmitAdd
  BY <1>1, <1>2 DEF SubmitAdd, Submit
<1>3. CASE SubmitPassword
  BY <1>1, <1>3 DEF SubmitPassword, Submit
<1>4. CASE SubmitEdit
  BY <1>1, <1>4 DEF SubmitEdit, Submit
<1>5. CASE SubmitRemove
  BY <1>1, <1>5 DEF SubmitRemove, Submit
<1>6. CASE OpenEdit
  BY <1>1, <1>6 DEF OpenEdit
<1>7. CASE CloseEdit
  BY <1>7, Unread, UnheardFresh DEF CloseEdit
<1>8. CASE LeaveStep
  BY <1>8, Unread, UnheardFresh DEF LeaveStep
<1>9. CASE Serve
  BY <1>9, ServedFresh DEF Fresh, AllSent
<1>10. CASE Crash
  BY <1>10, CrashFresh
<1>11. CASE Corrupt
  BY <1>11 DEF Corrupt, Fresh
<1>12. CASE Settle
  BY <1>12, InvalidatedFresh DEF Settle, Succeeds, Fresh
<1>13. CASE ListRead
  BY <1>13, ListReadFresh
<1>14. CASE ListArrives
  BY <1>14, ListArrivesFresh
<1>15. CASE ListFails
  BY <1>15 DEF ListFails, Fresh
<1>16. CASE MountSetup
  BY <1>16, Unread, UnheardFresh, InvalidatedFresh DEF MountSetup
<1>17. CASE UNCHANGED vars
  BY <1>1, <1>17 DEF vars
<1> QED BY <1>2, <1>3, <1>4, <1>5, <1>6, <1>7, <1>8, <1>9, <1>10, <1>11, <1>12, <1>13,
           <1>14, <1>15, <1>16, <1>17 DEF Next

\* When nothing is under way the page shows the mailboxes and the passwords
\* there are: a write is followed by a fetch that began after it, unless one of
\* the exceptions ListIsTrue names has left the list behind.
THEOREM ListIsTrueHolds == Spec => []ListIsTrue
<1>1. Init => Fresh
  BY DEF Init, Fresh
<1>2. Typed /\ Fresh /\ [Next]_vars => Fresh'
  BY NextFresh
<1>3. Fresh => ListIsTrue
  BY DEF Fresh, ListIsTrue
<1>4. Spec => []Typed
  BY FollowedHolds, PTL
<1> QED BY <1>1, <1>2, <1>3, <1>4, PTL DEF Spec
=============================================================================
