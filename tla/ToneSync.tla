------------------------------- MODULE ToneSync -------------------------------
(***************************************************************************)
(* One tone file on several machines and on the metadata server: the local *)
(* store (backend/src/tone/store.ts), the sync of a machine (tone/sync.ts  *)
(* and lww.ts) and the server's arbitration (server/src/repo/sqlite.ts).   *)
(*                                                                         *)
(* On disk a tone file is two things that are written one after the other: *)
(* the Markdown and its entry in the index.  The content is a sequence of  *)
(* paragraphs; the hash of a content is a number, injective and ordered in *)
(* an arbitrary way, as SHA-256 is.  A sync pass takes its steps between   *)
(* the awaits of syncToneFiles.  Only tests call syncToneFiles so far.     *)
(***************************************************************************)
EXTENDS Integers, Sequences, SequencesExt

CONSTANT Machines

VARIABLES
  file,    \* the Markdown on each machine's disk
  index,   \* its entry in each machine's index
  server,  \* the row of tone_files on the server
  pass,    \* the sync pass of each machine
  put      \* history: every version put to the server

syncVars == <<file, index, server, pass, put>>

Hash(content) == FoldLeft(LAMBDA h, paragraph : 8 * h + paragraph + 1, 0, content)

NoEntry == [hash |-> 0, at |-> 0]
NoFile == [content |-> <<>>, hash |-> 0, at |-> 0]
Idle == [stage |-> "idle"]

SyncInit ==
  /\ file = [m \in Machines |-> <<>>]
  /\ index = [m \in Machines |-> NoEntry]
  /\ server = NoFile
  /\ pass = [m \in Machines |-> Idle]
  /\ put = {}

-----------------------------------------------------------------------------
(* The local store.                                                        *)

\* A file without an entry is not there.
Read(m) == IF index[m] = NoEntry THEN <<>> ELSE file[m]

Local(m) == [content |-> file[m], hash |-> index[m].hash, at |-> index[m].at]

EntryOf(version) == [hash |-> version.hash, at |-> version.at]

\* Both writes of one file: a local edit, or a version that is adopted.
Store(m, version) ==
  /\ file' = [file EXCEPT ![m] = version.content]
  /\ index' = [index EXCEPT ![m] = EntryOf(version)]

\* mutant: the version is a token, not a hash
Tokened(content, at) == [content |-> content, hash |-> at, at |-> at]

Edited(content, at) == [content |-> content, hash |-> Hash(content), at |-> at]

-----------------------------------------------------------------------------
(* Last write wins: toneWriteWins on the server, decideLww on a machine.   *)

Beats(a, b) == a.at > b.at \/ (a.at = b.at /\ a.hash > b.hash)

FirstWins(incoming) == server = NoFile \* mutant: a file is never replaced

Wins(incoming) == server = NoFile \/ Beats(incoming, server)

DecideLww(local, remote) ==
  CASE local = NoEntry -> "pull"
    [] local # NoEntry /\ Beats(remote, local) -> "pull"
    [] local # NoEntry /\ Beats(local, remote) -> "push"
    [] OTHER -> "noop"

-----------------------------------------------------------------------------
(* A sync pass.                                                            *)

\* store.list(): the snapshot of the file that is going to be put.
SyncStarts(m) ==
  /\ pass[m] = Idle
  /\ pass' = [pass EXCEPT ![m] =
       IF index[m] = NoEntry THEN [stage |-> "list", verdict |-> "none"]
       ELSE [stage |-> "put", sent |-> Local(m)]]
  /\ UNCHANGED <<file, index, server, put>>

PutServedBlindly(m) == \* mutant: the last version to arrive wins
  /\ pass[m].stage = "put"
  /\ server' = pass[m].sent
  /\ put' = put \union {pass[m].sent}
  /\ pass' = [pass EXCEPT ![m] = [stage |-> "adopt", sent |-> @.sent, accepted |-> TRUE,
                                  got |-> server']]
  /\ UNCHANGED <<file, index>>

\* PUT /tone: the server keeps the greater version and answers with it.
PutServed(m) ==
  /\ pass[m].stage = "put"
  /\ server' = IF Wins(pass[m].sent) THEN pass[m].sent ELSE server
  /\ put' = put \union {pass[m].sent}
  /\ pass' = [pass EXCEPT ![m] = [stage |-> "adopt", sent |-> @.sent,
                                  accepted |-> Wins(@.sent), got |-> server']]
  /\ UNCHANGED <<file, index>>

Verdict(p) ==
  CASE p.accepted -> "pushed"
    [] ~p.accepted /\ EntryOf(p.got) = EntryOf(p.sent) -> "none"
    [] OTHER -> "pulled"

AdoptNothing(m) == \* mutant: the answer of the server is only looked at
  /\ pass[m].stage = "adopt"
  /\ pass' = [pass EXCEPT ![m] = [stage |-> "list", verdict |-> Verdict(@)]]
  /\ UNCHANGED <<file, index, server, put>>

\* The answer is adopted, whatever the verdict.
Adopt(m) ==
  /\ pass[m].stage = "adopt"
  /\ Store(m, pass[m].got)
  /\ pass' = [pass EXCEPT ![m] = [stage |-> "list", verdict |-> Verdict(@)]]
  /\ UNCHANGED <<server, put>>

\* GET /tone.
ListServed(m) ==
  /\ pass[m].stage = "list"
  /\ pass' = [pass EXCEPT ![m] = [stage |-> "pull", verdict |-> @.verdict, got |-> server]]
  /\ UNCHANGED <<file, index, server, put>>

\* A file the first half has not reconciled is pulled if it is newer or absent here.
Pull(m) ==
  LET p == pass[m]
      pulls == p.got # NoFile /\ p.verdict = "none" /\ DecideLww(index[m], p.got) = "pull"
  IN /\ p.stage = "pull"
     /\ IF pulls THEN Store(m, p.got) ELSE UNCHANGED <<file, index>>
     /\ pass' = [pass EXCEPT ![m] = Idle]
     /\ UNCHANGED <<server, put>>

\* A call of the pass fails, before or after the server has served it.
SyncFails(m) ==
  /\ pass[m].stage \in {"put", "adopt", "list", "pull"}
  /\ pass' = [pass EXCEPT ![m] = Idle]
  /\ UNCHANGED <<file, index, server, put>>

Syncing(m) == pass[m] # Idle

SyncStep(m) ==
  SyncStarts(m) \/ PutServed(m) \/ Adopt(m) \/ ListServed(m) \/ Pull(m)
=============================================================================
