------------------------------ MODULE Threading ------------------------------
(* How mail becomes threads: the JWZ algorithm over the headers of one       *)
(* folder (threading/jwz.ts), the root it gives every cached row             *)
(* (source/cache-source.ts), the thread of the metadata service a new row is *)
(* filed under, and the rows and the addressee a reply in that thread takes  *)
(* (api/thread-detail-view.ts, api/app.ts).                                  *)
(*                                                                           *)
(* A message is its position in the folder (its UID) and a header.  Message  *)
(* ids are numbers in the order the messages were written, so they stand for *)
(* the dates and the senders too.                                            *)
EXTENDS Integers, FiniteSetsExt, SequencesExt

CONSTANTS
  N,         \* number of Message-IDs
  NoId,      \* a header without a Message-ID
  MaxMail,   \* bound: messages delivered to a folder of honest headers
  MaxWild,   \* bound: messages delivered to a folder of arbitrary headers
  MaxHops,   \* bound: ids in an arbitrary header's references
  BacklogSize   \* messages handed on by the first poll

Ids == 1..N

ASSUME IdsAssumption == /\ N \in Nat \ {0}
                        /\ NoId \notin Int
                        /\ MaxMail \in Nat /\ MaxWild \in Nat /\ MaxHops \in Nat
                        /\ BacklogSize \in Nat

VARIABLES
  answers,   \* the message each message answers, NoId for the first of a
             \* conversation; Wild when the headers are arbitrary
  mail,      \* INBOX on the server: headers in UID order
  polled,    \* there has been a poll
  root,      \* thread_root_id of the cached rows
  thread,    \* the service's threads by root_message_id: the row upserted last
  filed      \* the thread each row was filed under when it was new

threadingVars == <<answers, mail, polled, root, thread, filed>>

Wild == <<>>
Unfiled == 0

Rows == DOMAIN root

-----------------------------------------------------------------------------
(* Headers *)

\* parseMessageIds of References, then of In-Reply-To when it is not already
\* the last hop.
Chains == UNION {[1..k -> Ids] : k \in 0..MaxHops}
Header == [id : Ids \cup {NoId}, chain : Chains, moved : BOOLEAN]

Conversations ==
  {c \in [Ids -> Ids \cup {NoId}] : \A i \in Ids : c[i] = NoId \/ c[i] < i}

\* buildReplyHeaders: the parent's chain followed by the parent.
FullChain(c) ==
  LET chain[i \in Ids] == IF c[i] = NoId THEN <<>> ELSE Append(chain[c[i]], c[i])
  IN  chain

\* What mail programs write in a reply: the whole chain, its two ends (long
\* chains are trimmed in the middle), or In-Reply-To alone.
HonestChains(c, i) ==
  LET full == FullChain(c)[i]
      n == Len(full)
  IN  IF n < 2 THEN {full} ELSE {full, <<full[1], full[n]>>, <<full[n]>>}

ThreadingInit ==
  /\ answers \in Conversations \cup {Wild}
  /\ mail = <<>>
  /\ polled = FALSE
  /\ root = <<>>
  /\ thread = <<>>
  /\ filed = <<>>

\* A message is delivered, in any order: late, twice, or without the one it
\* answers, which may lie in Sent and never come to INBOX.  One that is moved
\* in from another folder keeps its date, older than those delivered here.
\* Copies of a message have the same headers.
MailArrives ==
  /\ \/ /\ answers # Wild
        /\ Len(mail) < MaxMail
        /\ \E i \in Ids, old \in BOOLEAN : \E chain \in HonestChains(answers, i) :
             /\ \A n \in DOMAIN mail : mail[n].id = i => mail[n].chain = chain
             /\ mail' = Append(mail, [id |-> i, chain |-> chain, moved |-> old])
     \/ /\ answers = Wild
        /\ Len(mail) < MaxWild
        /\ \E h \in Header : ~h.moved /\ mail' = Append(mail, h)
  /\ UNCHANGED <<answers, polled, root, thread, filed>>

-----------------------------------------------------------------------------
(* JWZ: containers, each a message or an id that was only referred to        *)

\* The containers: one per id, one for each row without an id of its own.
Nothing == 0
Containers(n) == Ids \cup {-k : k \in 1..n}

\* isAncestorOrSelf: a container and what it hangs from, up to the top.
Above(up, x) ==
  LET above[y \in DOMAIN up] == IF up[y] = Nothing THEN {y} ELSE {y} \cup above[up[y]]
  IN  above[x]

\* Neither a link to itself nor a loop.
MayHang(up, x, under) == under # Nothing /\ x \notin Above(up, under)

\* The next hop of a reference chain hangs under the one before, unless it
\* already hangs somewhere.  A reference to the message itself is passed over.
Hop(w, self, id) ==
  IF id = self THEN w
  ELSE [up   |-> IF w.up[id] = Nothing /\ MayHang(w.up, id, w.prev)
                 THEN [w.up EXCEPT ![id] = w.prev] ELSE w.up,
        prev |-> id]

Wire(up, self, chain) ==
  LET hop[i \in 0..Len(chain)] ==
        IF i = 0 THEN [up |-> up, prev |-> Nothing] ELSE Hop(hop[i - 1], self, chain[i])
  IN  hop[Len(chain)]

\* Pass 1, row by row.  A row whose id is missing or taken gets a container of
\* its own, which nothing can refer to.
SelfOf(t, h, n) == IF h.id # NoId /\ t.of[h.id] = Nothing THEN h.id ELSE -n

Place(t, h, n) ==
  LET self == SelfOf(t, h, n)
      w == Wire(t.up, self, h.chain)
  IN  [of |-> [t.of EXCEPT ![self] = n],
       up |-> IF MayHang(w.up, self, w.prev) THEN [w.up EXCEPT ![self] = w.prev]
              ELSE w.up]

BuildThreads(rows) ==
  LET empty == [x \in Containers(Len(rows)) |-> Nothing]
      placed[n \in 0..Len(rows)] ==
        IF n = 0 THEN [of |-> empty, up |-> empty] ELSE Place(placed[n - 1], rows[n], n)
  IN  placed[Len(rows)]

ContainerOf(t, n) == CHOOSE x \in DOMAIN t.of : t.of[x] = n
Top(t, x) == CHOOSE y \in Above(t.up, x) : t.up[y] = Nothing

\* The messages that hang from a top with nothing but empty containers between.
Risen(t, top) ==
  {x \in DOMAIN t.of : /\ t.of[x] # Nothing /\ x # top /\ top \in Above(t.up, x)
                       /\ \A y \in Above(t.up, x) \ {x, top} : t.of[y] = Nothing}

\* With a bug: the top is spliced out for a single answer though it is a message.
SplicedTop(t, x) ==
  LET top == Top(t, x)
  IN  IF Cardinality(Risen(t, top)) = 1 THEN CHOOSE y \in Risen(t, top) : TRUE ELSE top

\* pruneEmpties: empty containers are spliced out, but for one at the top that
\* groups several messages.
TreeRoot(t, x) ==
  LET top == Top(t, x)
  IN  IF t.of[top] # Nothing \/ Cardinality(Risen(t, top)) > 1 THEN top
      ELSE CHOOSE y \in Risen(t, top) : TRUE

\* resolveThreadRoots: the id at the root of the tree; a container without an
\* id stands alone, and its row is known by its own id or its UID.
RootOf(t, rows, n) ==
  LET r == TreeRoot(t, ContainerOf(t, n))
  IN  IF r > 0 THEN r ELSE IF rows[n].id # NoId THEN rows[n].id ELSE -n

\* With a bug: the rows threaded before keep their root.
ResolveNewRoots(rows) ==
  LET t == BuildThreads(rows)
  IN  [n \in DOMAIN rows |-> IF n \in Rows THEN root[n] ELSE RootOf(t, rows, n)]

\* The root of every row, from scratch.
ResolveThreadRoots(rows) ==
  LET t == BuildThreads(rows) IN [n \in DOMAIN rows |-> RootOf(t, rows, n)]

-----------------------------------------------------------------------------
(* The poll of the daemon                                                    *)

\* The first poll of a folder hands on its backlog, a later one what is new.
HandedOn ==
  {n \in DOMAIN mail : IF polled THEN n > Len(root) ELSE n > Len(mail) - BacklogSize}

\* With a bug: a thread that exists keeps its sender.
UpsertedOnce(roots, new) ==
  [k \in DOMAIN thread \cup {roots[n] : n \in new} |->
     IF k \in DOMAIN thread THEN thread[k] ELSE Max({n \in new : roots[n] = k})]

\* upsertThread, row by row: each overwrites subject, sender and date.
Upserted(roots, new) ==
  [k \in DOMAIN thread \cup {roots[n] : n \in new} |->
     IF \E n \in new : roots[n] = k THEN Max({n \in new : roots[n] = k}) ELSE thread[k]]

\* The folder is synced, threaded from scratch and its roots written back; the
\* new rows are filed under their roots.
PollAndFile ==
  LET roots == ResolveThreadRoots(mail) IN
  /\ polled' = TRUE
  /\ root' = roots
  /\ thread' = Upserted(roots, HandedOn)
  /\ filed' = [n \in DOMAIN mail |->
                 IF n \in HandedOn THEN roots[n] ELSE IF n \in Rows THEN filed[n] ELSE Unfiled]
  /\ UNCHANGED <<answers, mail>>

ThreadingNext == MailArrives \/ PollAndFile

ThreadingSpec == ThreadingInit /\ [][ThreadingNext]_threadingVars

-----------------------------------------------------------------------------
(* The thread a person opens                                                 *)

\* byDateAsc: the order of delivery, after what was moved in.
Before(m, n) ==
  \/ mail[m].moved /\ ~mail[n].moved
  \/ mail[m].moved = mail[n].moved /\ m < n

SameMail(m, n) == m = n \/ (mail[m].id = mail[n].id /\ mail[m].id # NoId)

\* collectThreadRows: by root or by own id, the first of each Message-ID.
ThreadRows(k) ==
  LET match == {n \in Rows : root[n] = k \/ mail[n].id = k}
  IN  {n \in match : \A m \in match : SameMail(m, n) => m >= n}

\* buildReplyParent: a reply answers the newest of these rows ...
Parent(k) ==
  CHOOSE n \in ThreadRows(k) : \A m \in ThreadRows(k) : m = n \/ Before(m, n)

\* ... and goes to the sender of the thread.
Addressee(k) == thread[k]

-----------------------------------------------------------------------------
ThreadingTypeOK ==
  /\ answers \in Conversations \cup {Wild}
  /\ \A n \in DOMAIN mail :
       mail[n] \in Header \/ (answers # Wild /\ mail[n].chain \in HonestChains(answers, mail[n].id))
  /\ polled \in BOOLEAN
  /\ Len(root) <= Len(mail)
  /\ DOMAIN filed = Rows
  /\ \A n \in Rows : root[n] \in Ids \cup {-n}
  /\ \A n \in Rows : filed[n] = Unfiled \/ filed[n] \in DOMAIN thread
  /\ \A k \in DOMAIN thread : thread[k] \in Rows

\* Whatever the headers say - no id, an id twice, references to oneself, in
\* circles or to mail that never was - every message has one place in the
\* forest, and going up from it comes to an end at one root.
EachMailOnce ==
  LET t == BuildThreads(mail)
  IN  \A n \in DOMAIN mail :
        /\ Cardinality({x \in DOMAIN t.of : t.of[x] = n}) = 1
        /\ Cardinality({y \in Above(t.up, ContainerOf(t, n)) : t.up[y] = Nothing}) = 1

\* The reference definition: rows are of one thread when they are the same
\* message, name each other or name a message in common, through any number of
\* rows in between.
Names(h) == {h.id} \cup ToSet(h.chain)

ClosedUnderNames(S) ==
  \A r \in S, m \in Rows : Names(mail[m]) \cap Names(mail[r]) # {} => m \in S

Together(n) ==
  {m \in Rows : \A S \in SUBSET Rows : n \in S /\ ClosedUnderNames(S) => m \in S}

\* Every reply names the message that began its conversation.
Complete == \A n \in Rows : mail[n].chain = <<>> \/ answers[mail[n].chain[1]] = NoId

\* Rows of one root are of one conversation, whatever the headers say, in
\* whatever order the messages came and whichever of them are missing.  When
\* reply headers are what mail programs write and complete, rows of one
\* conversation have one root.  (A row with In-Reply-To alone may stay apart from
\* rows that name it: its place under a message that is missing is not given up
\* for a link from a shorter chain.)
ThreadsAreConversations ==
  \A n \in Rows :
    LET one == {m \in Rows : root[m] = root[n]}
    IN  /\ one \subseteq Together(n)
        /\ answers # Wild /\ Complete => one = Together(n)

\* A message threaded under the one that began its conversation stays there,
\* once that one is in the cache and as long as headers are complete: later mail
\* moves roots up to it, never away.  (Before, a root may even move down, from
\* an original that was never fetched and groups its answers to the answer that
\* arrives late.)
RootsSettle ==
  [][\A n \in Rows :
       (/\ answers # Wild
        /\ root[n] \in Ids
        /\ answers[root[n]] = NoId
        /\ \E m \in Rows : mail[m].id = root[n]
        /\ Complete')
       => root'[n] = root[n]]_threadingVars

\* The messages of the thread came once, in the order of their dates; those
\* that were filed and have its root were filed under it, and the other way round.
Regular(k) ==
  \A n \in Rows :
    /\ root[n] = k => ~mail[n].moved /\ \A m \in Rows : SameMail(m, n) => m = n
    /\ filed[n] # Unfiled => (filed[n] = k <=> root[n] = k)

\* A reply goes to the author of the message it answers.  Without Regular it
\* need not: the sender of a thread is that of the row upserted last, the
\* message answered is the newest of the rows that have its root now.
ReplyAnswersItsAddressee ==
  \A k \in DOMAIN thread : Regular(k) => Parent(k) = Addressee(k)

\* What cache-source.ts says of a reply whose original was never fetched: it
\* merges once the original or a sibling syncs.  Does not hold: the rows get one
\* root, but those filed before keep the thread they were filed under.
LoneReplyMerges ==
  \A m, n \in Rows :
    (root[m] = root[n] /\ Unfiled \notin {filed[m], filed[n]}) => filed[m] = filed[n]

=============================================================================
