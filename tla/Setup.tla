------------------------------- MODULE Setup -------------------------------
(***************************************************************************)
(* The mailboxes of the setup page: the forms of the page                  *)
(* (frontend/src/components/setup), the handlers that serve them           *)
(* (backend/src/api/wizard.ts), the config file                            *)
(* (backend/src/config) and the passwords, which live apart from it in the *)
(* Keychain or in an .env file (backend/src/credentials).  A handler       *)
(* updates the config in one synchronous step, and then awaits each        *)
(* password in turn: calls interleave there.                               *)
(*                                                                         *)
(* A mailbox is told apart by its address, which stands for its endpoints  *)
(* too.  A submission has a number: n stands for the passwords typed into  *)
(* the n-th form sent, and for the id given to the mailbox if it added one *)
(* (randomUUID never repeats).  Projects and repositories, which are only  *)
(* ever appended, are left out.                                            *)
(***************************************************************************)
EXTENDS Naturals, FiniteSets

CONSTANTS
  Addresses,
  Earlier,      \* mailboxes set up on earlier visits, as forms 1..Earlier
  MaxForms,     \* bound: submissions of a behaviour
  Faults,       \* what may go wrong: keychain, reply, list, crash, corrupt
  MaxFaults     \* bound: how often

ASSUME BoundsAssumption ==
  MaxForms \in Nat /\ Earlier \in 0..MaxForms /\ MaxFaults \in Nat

Ids == 1..MaxForms
Kinds == {"imap", "smtp"}

NoSecrets == [kind \in Kinds |-> 0]
Nothing == [id \in {} |-> 0]

VARIABLES
  boxes,      \* config.json: mailbox id -> its address
  readable,   \* config.json parses
  secrets,    \* the credential store: 0, or the form the password was given in
  calls,      \* the requests of the page under way
  forms,      \* submissions so far
  list,       \* the rows shown, from the ['wizard','mailboxes'] query
  listed,     \* the query has data
  fetch,      \* its fetch under way
  carried,    \* WizardData.mailbox: the mailbox added in this wizard, if any
  drafts,     \* the rows with an open edit form
  given,      \* history: the last accepted submission with this password
  torn,       \* history: mailboxes whose last writes crossed, failed or were cut
  behind,     \* history: why the list may be behind since its last fetch began
  faults

serverVars == <<boxes, readable, secrets>>
pageVars == <<list, listed, fetch, carried, drafts>>
historyVars == <<given, torn, behind>>
vars == <<serverVars, calls, forms, pageVars, historyVars, faults>>

Fault(f) == f \in Faults /\ faults < MaxFaults /\ faults' = faults + 1

\* read(): a file that does not parse counts as the empty config.
Config == IF readable THEN boxes ELSE Nothing

\* MailboxConfigResponse: the mailbox, and which of its passwords are stored.
Entry(address, id) == [address |-> address, stored |-> {kind \in Kinds : secrets[id][kind] # 0}]

Idle == [stage |-> "idle", got |-> Nothing]

Init ==
  /\ boxes \in [1..Earlier -> Addresses] /\ Cardinality({boxes[id] : id \in 1..Earlier}) = Earlier
  /\ readable = TRUE
  /\ secrets = [id \in Ids |-> [kind \in Kinds |-> IF id <= Earlier THEN id ELSE 0]]
  /\ calls = {} /\ forms = Earlier
  /\ list = Nothing /\ listed = FALSE /\ fetch = [stage |-> "asked", got |-> Nothing]
  /\ carried = {} /\ drafts = {}
  /\ given = secrets /\ torn = {} /\ behind = "nothing"
  /\ faults = 0

-----------------------------------------------------------------------------
(* The forms.                                                              *)

Submit(op, id, to, kinds) ==
  /\ forms < MaxForms /\ forms' = forms + 1
  /\ calls' = calls \cup {[n |-> forms + 1, op |-> op, id |-> id, to |-> to, kinds |-> kinds,
                           stage |-> "sent", heard |-> TRUE]}

Pending(op) == \E c \in calls : c.op = op /\ c.heard

\* AddMailboxForm.handleSubmit: the same or another password for SMTP, never none.
SubmitAdd ==
  /\ carried = {} /\ ~Pending("add")
  /\ \E address \in Addresses : Submit("add", forms + 1, {address}, Kinds)
  /\ UNCHANGED <<serverVars, pageVars, historyVars, faults>>

\* SavedMailbox.savePassword: a PATCH without endpoints.
SubmitPassword ==
  /\ ~Pending("password")
  /\ \E id \in carried, kinds \in {{"imap"}, Kinds} : Submit("password", id, {}, kinds)
  /\ UNCHANGED <<serverVars, pageVars, historyVars, faults>>

OpenEdit ==
  /\ \E id \in DOMAIN list \ drafts : drafts' = drafts \cup {id}
  /\ UNCHANGED <<serverVars, calls, forms, list, listed, fetch, carried, historyVars, faults>>

Without(f, id) == [x \in DOMAIN f \ {id} |-> f[x]]

\* The forms' components go, and with them the callbacks of their mutations.
Unheard(ops, ids) ==
  calls' = {[c EXCEPT !.heard = c.heard /\ ~(c.op \in ops /\ c.id \in ids)] : c \in calls}

CloseEdit ==
  /\ \E id \in drafts :
       /\ drafts' = drafts \ {id}
       /\ Unheard({"edit"}, {id})
  /\ UNCHANGED <<serverVars, forms, list, listed, fetch, carried, historyVars, faults>>

\* MailboxEditForm.submit: every endpoint as the form has it, a password if one was typed.
SubmitEdit ==
  /\ \E id \in drafts, address \in Addresses, kinds \in SUBSET Kinds :
       /\ ~\E c \in calls : c.op = "edit" /\ c.id = id /\ c.heard
       /\ Submit("edit", id, {address}, kinds)
  /\ UNCHANGED <<serverVars, pageVars, historyVars, faults>>

\* "Confirm remove" of a row.
SubmitRemove ==
  /\ \E id \in DOMAIN list :
       /\ ~\E c \in calls : c.op = "remove" /\ c.id = id /\ c.heard
       /\ Submit("remove", id, {}, Kinds)
  /\ UNCHANGED <<serverVars, pageVars, historyVars, faults>>

\* Back, or another step: the step's component goes, the carried data stays.
LeaveStep ==
  /\ Pending("add") \/ Pending("password")
  /\ Unheard({"add", "password"}, Ids)
  /\ UNCHANGED <<serverVars, forms, pageVars, historyVars, faults>>

-----------------------------------------------------------------------------
(* The handlers.  One synchronous step each up to the first await.         *)

Becomes(c, d) == calls' = (calls \ {c}) \cup {d}
Fails(c) == Becomes(c, [c EXCEPT !.stage = "failed"])

\* Another call on the mailbox is between two of its writes.
Crossing(c) == \E d \in calls \ {c} : d.id = c.id /\ d.stage = "storing"

\* update(): the result replaces the file, in one rename.
Update(config) == boxes' = config /\ readable' = TRUE

\* What an accepted call sets out to do to the passwords.
Accepted(c, config) ==
  /\ Update(config)
  /\ Becomes(c, [c EXCEPT !.stage = "storing"])
  /\ given' = [given EXCEPT ![c.id] =
                 [kind \in Kinds |-> IF kind \notin c.kinds THEN @[kind]
                                     ELSE IF c.op = "remove" THEN 0 ELSE c.n]]
  /\ torn' = LET before == IF readable THEN torn ELSE torn \cup DOMAIN boxes
             IN IF Crossing(c) THEN before \cup {c.id}
                ELSE IF c.kinds = Kinds THEN before \ {c.id} ELSE before

\* The address a call asks for, if it asks for one.
Address(c, old) == IF c.to = {} THEN old ELSE CHOOSE address \in c.to : TRUE

\* addMailbox: a new id, and an address the project does not have yet.
MayAdd(c) ==
  /\ c.id \notin DOMAIN Config
  /\ \A id \in DOMAIN Config : Config[id] \notin c.to

With(f, id, address) == [x \in DOMAIN f \cup {id} |-> IF x = id THEN address ELSE f[x]]

\* POST /api/wizard/mailboxes: the config first, so that a conflict leaves no secret.
Add(c) ==
  /\ c.op = "add" /\ c.stage = "sent"
  /\ IF MayAdd(c)
       THEN Accepted(c, With(Config, c.id, Address(c, "none")))
       ELSE Fails(c) /\ UNCHANGED <<boxes, readable, given, torn>>
  /\ UNCHANGED secrets

\* PATCH /api/wizard/mailboxes/:id: updateMailbox asks only whether the id is known.
Patch(c) ==
  /\ c.op \in {"edit", "password"} /\ c.stage = "sent"
  /\ IF c.id \in DOMAIN Config
       THEN Accepted(c, [Config EXCEPT ![c.id] = Address(c, @)])
       ELSE Fails(c) /\ UNCHANGED <<boxes, readable, given, torn>>
  /\ UNCHANGED secrets

\* DELETE /api/wizard/mailboxes/:id.
Remove(c) ==
  /\ c.op = "remove" /\ c.stage = "sent"
  /\ IF c.id \in DOMAIN Config
       THEN Accepted(c, Without(Config, c.id))
       ELSE Fails(c) /\ UNCHANGED <<boxes, readable, given, torn>>
  /\ UNCHANGED secrets

StoredAsImap(c) ==          \* mutant: the second slot is written under the kind of the first
  [secrets[c.id] EXCEPT !["imap"] = c.n]

\* credentialStore.set is an upsert; the IMAP slot is awaited before the SMTP slot.
Stored(c) ==
  LET kind == IF "imap" \in c.kinds THEN "imap" ELSE "smtp"
  IN [secrets[c.id] EXCEPT ![kind] = c.n]

Store(c) ==
  /\ c.op # "remove" /\ c.stage = "storing" /\ c.kinds # {}
  /\ \/ /\ secrets' = [secrets EXCEPT ![c.id] = Stored(c)]
        /\ Becomes(c, [c EXCEPT !.kinds = @ \ {IF "imap" \in @ THEN "imap" ELSE "smtp"}])
        /\ UNCHANGED <<torn, faults>>
     \/ /\ Fault("keychain") /\ Fails(c) /\ torn' = torn \cup {c.id}
        /\ UNCHANGED secrets
  /\ UNCHANGED <<boxes, readable, given>>

DeletesImap(c, kind) ==     \* mutant: only the IMAP slot is deleted
  kind = "imap"

\* credentialStore.delete is a no-op for an absent slot.
Deletes(c, kind) == kind \in c.kinds

\* Both slots at once; what fails is logged, and the removal still succeeds.
Delete(c) ==
  /\ c.op = "remove" /\ c.stage = "storing"
  /\ \E kind \in c.kinds :
       /\ \/ /\ secrets' = [secrets EXCEPT ![c.id][kind] = IF Deletes(c, kind) THEN 0 ELSE @]
             /\ UNCHANGED <<torn, faults>>
          \/ Fault("keychain") /\ torn' = torn \cup {c.id} /\ UNCHANGED secrets
       /\ Becomes(c, [c EXCEPT !.kinds = @ \ {kind}])
  /\ UNCHANGED <<boxes, readable, given>>

\* The reply says which passwords are stored; asking may fail, after all was done.
Reply(c) ==
  /\ c.stage = "storing" /\ c.kinds = {}
  /\ \/ Becomes(c, [c EXCEPT !.stage = "replied"]) /\ UNCHANGED faults
     \/ c.op # "remove" /\ Fault("keychain") /\ Fails(c)
     \/ Fault("reply") /\ Fails(c)
  /\ UNCHANGED <<serverVars, given, torn>>

Serve ==
  /\ \E c \in calls :
       \/ (Add(c) \/ Patch(c) \/ Remove(c)) /\ UNCHANGED faults
       \/ Store(c) \/ Delete(c) \/ Reply(c)
  /\ UNCHANGED <<forms, pageVars, behind>>

\* The process ends: what its calls had not written yet is not written.
Crash ==
  /\ Fault("crash")
  /\ torn' = torn \cup {c.id : c \in {d \in calls : d.stage = "storing" /\ d.kinds # {}}}
  /\ calls' = {IF c.stage \in {"sent", "storing"} THEN [c EXCEPT !.stage = "failed"] ELSE c : c \in calls}
  /\ UNCHANGED <<serverVars, forms, pageVars, given, behind>>

\* The file no longer parses: a hand edit, or a field another version does not know.
Corrupt ==
  /\ Fault("corrupt") /\ readable /\ readable' = FALSE
  /\ behind' = "config"
  /\ UNCHANGED <<boxes, secrets, calls, forms, pageVars, given, torn>>

-----------------------------------------------------------------------------
(* What the page learns.                                                   *)

NotInvalidated ==           \* mutant: useDeleteMailbox and its like leave the list alone
  UNCHANGED <<fetch, behind>>

\* invalidateQueries: a fetch under way is replaced, but joined while there is no data.
Invalidate ==
  IF ~listed /\ fetch.stage # "idle"
    THEN behind' = "joined" /\ UNCHANGED fetch
    ELSE behind' = "nothing" /\ fetch' = [Idle EXCEPT !.stage = "asked"]

\* onSuccess of the hook, then of the call if its component is still there.
Succeeds(c) ==
  /\ Invalidate
  /\ carried' = IF c.heard /\ c.op \in {"add", "password"}
                  THEN {c.id} ELSE carried
  /\ drafts' = IF c.heard /\ c.op = "edit" THEN drafts \ {c.id} ELSE drafts

\* A call that fails only shows its error.
Settle ==
  /\ \E c \in calls :
       /\ calls' = calls \ {c}
       /\ \/ c.stage = "replied" /\ Succeeds(c)
          \/ c.stage = "failed" /\ behind' = "failed" /\ UNCHANGED <<fetch, carried, drafts>>
  /\ UNCHANGED <<serverVars, forms, list, listed, given, torn, faults>>

\* GET /api/wizard/mailboxes reads the config, and then asks for every password.
ListRead ==
  /\ fetch.stage = "asked" /\ fetch' = [stage |-> "read", got |-> Config]
  /\ UNCHANGED <<serverVars, calls, forms, list, listed, carried, drafts, historyVars, faults>>

\* A row that is gone takes its edit form with it.
ListArrives ==
  /\ fetch.stage = "read" /\ fetch' = Idle
  /\ list' = [id \in DOMAIN fetch.got |-> Entry(fetch.got[id], id)] /\ listed' = TRUE
  /\ drafts' = drafts \cap DOMAIN fetch.got
  /\ UNCHANGED <<serverVars, calls, forms, carried, historyVars, faults>>

\* A password that cannot be read fails the whole list, and so does its one retry: an
\* error takes the place of the rows.
ListFails ==
  /\ fetch.stage # "idle" /\ Fault("list")
  /\ fetch' = Idle /\ behind' = "failed"
  /\ list' = Nothing /\ drafts' = {} /\ Unheard({"edit", "remove"}, Ids)
  /\ UNCHANGED <<serverVars, forms, listed, carried, given, torn>>

\* The user leaves the setup page and comes back; stale data is fetched again.
MountSetup ==
  /\ carried' = {} /\ drafts' = {}
  /\ Unheard({"add", "password", "edit", "remove"}, Ids)
  /\ \/ UNCHANGED <<fetch, behind>>
     \/ fetch.stage = "idle" /\ Invalidate
  /\ UNCHANGED <<serverVars, forms, list, listed, given, torn, faults>>

-----------------------------------------------------------------------------
Next ==
  \/ SubmitAdd \/ SubmitPassword \/ OpenEdit \/ CloseEdit \/ SubmitEdit \/ SubmitRemove
  \/ LeaveStep \/ Serve \/ Crash \/ Corrupt
  \/ Settle \/ ListRead \/ ListArrives \/ ListFails \/ MountSetup

Spec == Init /\ [][Next]_vars

-----------------------------------------------------------------------------
Untouched(id) == ~\E c \in calls : c.id = id /\ c.stage = "storing"

\* wizard.ts:161-171, :199-209: a configured mailbox has the passwords of the last
\* submissions that gave them, and one that is not has none: removing it removes both,
\* and an address added again starts afresh.  Except where a call that gives a password
\* crossed another on the same mailbox, a write failed or was cut, or the file was lost.
SecretsFollowMailboxes ==
  \A id \in Ids :
    readable /\ Untouched(id) /\ id \notin torn
      => secrets[id] = IF id \in DOMAIN boxes THEN given[id] ELSE NoSecrets

\* When nothing is under way the list shows the mailboxes and the passwords there are,
\* unless since its fetch began a call or a fetch failed, the file was lost, or an
\* invalidation joined the first fetch.
ListIsTrue ==
  listed /\ fetch.stage = "idle" /\ calls = {} /\ behind = "nothing"
    => list = [id \in DOMAIN Config |-> Entry(Config[id], id)]

\* The mailbox the wizard carries on with is configured.  Does not hold: the list
\* above it may have removed it.
CarriedIsConfigured ==
  calls = {} /\ readable => carried \subseteq DOMAIN Config

\* Types; at most one carried mailbox, and an edit form only in a row.
TypeOK ==
  /\ DOMAIN boxes \subseteq Ids /\ \A id \in DOMAIN boxes : boxes[id] \in Addresses
  /\ readable \in BOOLEAN /\ listed \in BOOLEAN
  /\ secrets \in [Ids -> [Kinds -> 0..MaxForms]] /\ given \in [Ids -> [Kinds -> 0..MaxForms]]
  /\ forms \in 0..MaxForms /\ faults \in 0..MaxFaults
  /\ Cardinality(carried) <= 1 /\ carried \subseteq Ids /\ drafts \subseteq DOMAIN list
  /\ fetch.stage \in {"idle", "asked", "read"}
  /\ torn \subseteq Ids
  /\ behind \in {"nothing", "failed", "joined", "config"}
  /\ \A c \in calls :
       /\ c.op \in {"add", "edit", "password", "remove"}
       /\ c.stage \in {"sent", "storing", "replied", "failed"}
=============================================================================
