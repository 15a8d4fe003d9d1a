---------------------------- MODULE Learning_proofs ----------------------------
(***************************************************************************)
(* Theorems about Learning and ToneSync, for any number of machines,       *)
(* calls, lessons, passes and faults, and for clocks that differ by any    *)
(* amount: what the server holds of a tone file, what a sync pass does to  *)
(* a machine's file, and what learning and reverting make of it.           *)
(*                                                                         *)
(* They use of the hash of a content that it is a number (NumberedHash):   *)
(* Hash is a fold, and what a fold computes takes an induction over        *)
(* sequences, which the prover does not have.                              *)
(***************************************************************************)
EXTENDS Learning, TLAPS

NumberedHash == \A content \in Content : Hash(content) \in Nat

-----------------------------------------------------------------------------
(* Versions, passes and calls as data.                                     *)

LEMMA EditedIs ==
  ASSUME NumberedHash, NEW content \in Content, NEW at \in Nat
  PROVE  /\ Edited(content, at) \in Version /\ Edited(content, at).content = content
         /\ Edited(content, at).at = at
BY DEF NumberedHash, Edited, Version

\* What a write of both files leaves.
LEMMA StoreIs ==
  ASSUME file \in [Machines -> Content], index \in [Machines -> [hash : Nat, at : Nat]],
         NEW m \in Machines, NEW v \in Version, Store(m, v)
  PROVE  /\ file' \in [Machines -> Content] /\ index' \in [Machines -> [hash : Nat, at : Nat]]
         /\ file'[m] = v.content /\ index'[m] = EntryOf(v) /\ Local(m)' = v
         /\ \A o \in Machines : o # m => /\ file'[o] = file[o] /\ index'[o] = index[o]
                                         /\ Local(o)' = Local(o)
<1>1. /\ v.content \in Content /\ EntryOf(v) \in [hash : Nat, at : Nat]
      /\ v = [content |-> v.content, hash |-> v.hash, at |-> v.at]
      /\ EntryOf(v).hash = v.hash /\ EntryOf(v).at = v.at
  BY DEF Version, EntryOf
<1>2. /\ file' = [file EXCEPT ![m] = v.content] /\ index' = [index EXCEPT ![m] = EntryOf(v)]
  BY DEF Store
<1>3. /\ file' \in [Machines -> Content] /\ index' \in [Machines -> [hash : Nat, at : Nat]]
      /\ file'[m] = v.content /\ index'[m] = EntryOf(v)
      /\ \A o \in Machines : o # m => file'[o] = file[o] /\ index'[o] = index[o]
  BY <1>1, <1>2
<1> QED
  BY <1>1, <1>3 DEF Local

\* What a pass carries follows from its stage.
LEMMA PassKinds ==
  ASSUME NEW p \in PassState
  PROVE  /\ p.stage \in {"idle", "put", "adopt", "list", "pull"}
         /\ p = Idle <=> p.stage = "idle"
         /\ p.stage = "put" => p.sent \in Version
         /\ p.stage = "adopt" => p.sent \in Version /\ p.accepted \in BOOLEAN /\ p.got \in Version
         /\ p.stage \in {"list", "pull"} => p.verdict \in {"none", "pushed", "pulled"}
         /\ p.stage = "pull" => p.got \in Version
BY DEF PassState, Idle

\* What a call carries follows from its kind and stage.
LEMMA CallKinds ==
  ASSUME NEW c \in CallState
  PROVE  /\ c.kind \in {"free", "learn", "revert"} /\ (c = Free <=> c.kind = "free")
         /\ c # Free => c.at \in Origin /\ c.at.machine \in Machines /\ c.at.time \in Nat
         /\ c.kind = "learn" => c.stage \in {"model", "record", "write"}
         /\ c.kind = "learn" /\ c.stage \in {"record", "write"} => c.before \in Content
         /\ c.kind = "learn" /\ c.stage = "write" => c.id \in Nat
         /\ c.kind = "revert" => c.stage \in {"flag", "mark"} /\ c.id \in Nat
BY DEF CallState, Free, Origin

LEMMA LocalIs ==
  ASSUME file \in [Machines -> Content], index \in [Machines -> [hash : Nat, at : Nat]],
         NEW m \in Machines
  PROVE  /\ Local(m) \in Version /\ EntryOf(Local(m)) = index[m]
         /\ Read(m) \in Content
BY DEF Local, Version, EntryOf, Read, Content

\* The order of versions, by time and then by hash.
LEMMA Order ==
  /\ \A v \in Version : ~Beats(v, v)
  /\ \A v, w \in Version : Beats(v, w) => ~Beats(w, v)
  /\ \A u, v, w \in Version : ~Beats(u, v) /\ Beats(w, v) => ~Beats(u, w)
BY DEF Beats, Version

-----------------------------------------------------------------------------
(* Types.                                                                  *)

LogRecord == [id : Nat, before : Content, reverted : BOOLEAN]

\* The types of the files and the passes; of the calls, the log and the counters.
SyncTyped ==
  /\ file \in [Machines -> Content]
  /\ index \in [Machines -> [hash : Nat, at : Nat]]
  /\ server \in Version /\ pass \in [Machines -> PassState] /\ put \subseteq Version

LearnTyped ==
  /\ entries \in Seq({"applied", "reverted"})
  /\ log \in [Machines -> Seq(LogRecord)]
  /\ calls \in [Slots -> CallState]
  /\ \A k \in Slots : calls[k] # Free => calls[k].at.time > 0
  /\ now \in Nat /\ now > 0 /\ faults \in Nat
  /\ undone \subseteq Nat

Typed == SyncTyped /\ LearnTyped

\* What the steps of a call do to the calls.
CallsTyped ==
  calls \in [Slots -> CallState] /\ \A k \in Slots : calls[k] # Free => calls[k].at.time > 0

LEMMA FreeIsACall == Free \in CallState
BY DEF CallState, Free

LEMMA PostTyped ==
  ASSUME CallsTyped, NEW call \in CallState, call.at.time > 0, Post(call)
  PROVE  CallsTyped'
<1>1. PICK k \in Slots : calls' = [calls EXCEPT ![k] = call]
  BY DEF Post
<1> QED
  BY <1>1 DEF CallsTyped

LEMMA GoesTyped ==
  ASSUME CallsTyped, NEW k \in Slots, NEW call \in CallState, call.at.time > 0, Goes(k, call)
  PROVE  CallsTyped'
BY DEF CallsTyped, Goes

LEMMA EndsTyped ==
  ASSUME CallsTyped, NEW k \in Slots, Ends(k)
  PROVE  CallsTyped'
BY FreeIsACall DEF CallsTyped, Ends

LEMMA TypedInit == Init => Typed
<1> SUFFICES ASSUME Init PROVE Typed
  OBVIOUS
<1>1. SyncTyped
  BY DEF Init, SyncInit, SyncTyped, Content, NoEntry, NoFile, Version, PassState
<1>2. LearnTyped
  BY DEF Init, LearnTyped, CallState
<1> QED
  BY <1>1, <1>2 DEF Typed

LEMMA ClockIs ==
  ASSUME now \in Nat, now > 0, NEW m \in Machines
  PROVE  Clock(m) \in Nat /\ Clock(m) > 0
BY LearningAssumption DEF Clock

\* A paragraph or a record more.
LEMMA AppendIs ==
  ASSUME NEW S, NEW s \in Seq(S), NEW e \in S
  PROVE  /\ Append(s, e) \in Seq(S) /\ Len(s) + 1 \in Nat
         /\ Len(Append(s, e)) = Len(s) + 1 /\ DOMAIN Append(s, e) = 1..(Len(s) + 1)
         /\ DOMAIN Append(s, e) = DOMAIN s \union {Len(s) + 1}
         /\ Append(s, e)[Len(s) + 1] = e
         /\ DOMAIN s = 1..Len(s)
         /\ \A i \in DOMAIN s :
              i \in Nat /\ i < Len(s) + 1 /\ i # Len(s) + 1 /\ Append(s, e)[i] = s[i]
<1>1. /\ Append(s, e) \in Seq(S) /\ Len(s) \in Nat
      /\ Len(Append(s, e)) = Len(s) + 1 /\ DOMAIN Append(s, e) = 1..(Len(s) + 1)
      /\ DOMAIN s = 1..Len(s)
  OBVIOUS
<1>2. 1..(Len(s) + 1) = 1..Len(s) \union {Len(s) + 1}
  BY <1>1
<1>3. Append(s, e)[Len(s) + 1] = e
  OBVIOUS
<1>4. \A i \in DOMAIN s : Append(s, e)[i] = s[i]
  BY <1>1
<1> QED
  BY <1>1, <1>2, <1>3, <1>4

\* The parts of the calls of the flows.
LEMMA CallsMade ==
  /\ \A at \in Origin :
       /\ [kind |-> "learn", stage |-> "model", at |-> at] \in CallState
       /\ \A before \in Content :
            /\ [kind |-> "learn", stage |-> "record", at |-> at, before |-> before] \in CallState
            /\ \A id \in Nat : [kind |-> "learn", stage |-> "write", at |-> at,
                                before |-> before, id |-> id] \in CallState
       /\ \A id \in Nat : \A stage \in {"flag", "mark"} :
            [kind |-> "revert", stage |-> stage, id |-> id, at |-> at] \in CallState
<1> SUFFICES ASSUME NEW at \in Origin
             PROVE  /\ [kind |-> "learn", stage |-> "model", at |-> at] \in CallState
                    /\ \A before \in Content :
                         /\ [kind |-> "learn", stage |-> "record", at |-> at, before |-> before]
                              \in CallState
                         /\ \A id \in Nat : [kind |-> "learn", stage |-> "write", at |-> at,
                                             before |-> before, id |-> id] \in CallState
                    /\ \A id \in Nat : \A stage \in {"flag", "mark"} :
                         [kind |-> "revert", stage |-> stage, id |-> id, at |-> at] \in CallState
  OBVIOUS
<1>1. [kind |-> "learn", stage |-> "model", at |-> at] \in CallState
  BY DEF CallState
<1>2. ASSUME NEW before \in Content
      PROVE  [kind |-> "learn", stage |-> "record", at |-> at, before |-> before] \in CallState
  BY DEF CallState
<1>3. ASSUME NEW before \in Content, NEW id \in Nat
      PROVE  [kind |-> "learn", stage |-> "write", at |-> at, before |-> before, id |-> id]
               \in CallState
  BY DEF CallState
<1>4. ASSUME NEW id \in Nat, NEW stage \in {"flag", "mark"}
      PROVE  [kind |-> "revert", stage |-> stage, id |-> id, at |-> at] \in CallState
  BY DEF CallState
<1> QED
  BY <1>1, <1>2, <1>3, <1>4

LEMMA SyncStartsTyped ==
  ASSUME SyncTyped, NEW m \in Machines, SyncStarts(m)
  PROVE  SyncTyped'
<1>1. Local(m) \in Version
  BY LocalIs DEF SyncTyped
<1>2. /\ [stage |-> "list", verdict |-> "none"] \in PassState
      /\ [stage |-> "put", sent |-> Local(m)] \in PassState
  BY <1>1 DEF PassState
<1> QED
  BY <1>2 DEF SyncStarts, SyncTyped

LEMMA PutServedTyped ==
  ASSUME SyncTyped, NEW m \in Machines, PutServed(m)
  PROVE  SyncTyped'
<1>1. pass[m].sent \in Version /\ pass[m] \in PassState
  BY PassKinds DEF SyncTyped, PutServed
<1>2. server' \in Version /\ put' \subseteq Version
  BY <1>1 DEF PutServed, SyncTyped
<1>3. Wins(pass[m].sent) \in BOOLEAN
  BY DEF Wins, Beats
<1>4. [stage |-> "adopt", sent |-> pass[m].sent, accepted |-> Wins(pass[m].sent),
       got |-> server'] \in PassState
  BY <1>1, <1>2, <1>3 DEF PassState
<1>5. pass' = [pass EXCEPT ![m] = [stage |-> "adopt", sent |-> pass[m].sent,
                                   accepted |-> Wins(pass[m].sent), got |-> server']]
  BY DEF PutServed, SyncTyped
<1>6. pass' \in [Machines -> PassState]
  BY <1>4, <1>5 DEF SyncTyped
<1> QED
  BY <1>2, <1>6 DEF PutServed, SyncTyped

LEMMA AdoptTyped ==
  ASSUME SyncTyped, NEW m \in Machines, Adopt(m)
  PROVE  SyncTyped'
<1>1. pass[m].got \in Version
  BY PassKinds DEF SyncTyped, Adopt
<1>2. Store(m, pass[m].got)
  BY DEF Adopt
<1>3. file' \in [Machines -> Content] /\ index' \in [Machines -> [hash : Nat, at : Nat]]
  BY <1>1, <1>2, StoreIs DEF SyncTyped
<1>4. Verdict(pass[m]) \in {"none", "pushed", "pulled"}
  BY DEF Verdict
<1>5. [stage |-> "list", verdict |-> Verdict(pass[m])] \in PassState
  BY <1>4 DEF PassState
<1>6. pass' \in [Machines -> PassState]
  BY <1>5 DEF Adopt, SyncTyped
<1> QED
  BY <1>3, <1>6 DEF Adopt, SyncTyped

LEMMA ListServedTyped ==
  ASSUME SyncTyped, NEW m \in Machines, ListServed(m)
  PROVE  SyncTyped'
<1>1. pass[m].verdict \in {"none", "pushed", "pulled"}
  BY PassKinds DEF SyncTyped, ListServed
<1>2. [stage |-> "pull", verdict |-> pass[m].verdict, got |-> server] \in PassState
  BY <1>1 DEF SyncTyped, PassState
<1> QED
  BY <1>2 DEF ListServed, SyncTyped

LEMMA PullTyped ==
  ASSUME SyncTyped, NEW m \in Machines, Pull(m)
  PROVE  SyncTyped'
<1>1. pass[m].got \in Version
  BY PassKinds DEF SyncTyped, Pull
<1>2. Store(m, pass[m].got) \/ UNCHANGED <<file, index>>
  BY DEF Pull
<1>3. file' \in [Machines -> Content] /\ index' \in [Machines -> [hash : Nat, at : Nat]]
  BY <1>1, <1>2, StoreIs DEF SyncTyped
<1>4. pass' \in [Machines -> PassState]
  BY DEF Pull, SyncTyped, PassState
<1> QED
  BY <1>3, <1>4 DEF Pull, SyncTyped

LEMMA SyncFailsTyped ==
  ASSUME SyncTyped, NEW m \in Machines, SyncFails(m)
  PROVE  SyncTyped'
BY DEF SyncFails, SyncTyped, PassState

\* A write of both files by a call.
LEMMA StoreTyped ==
  ASSUME SyncTyped, NEW m \in Machines, NEW v \in Version, Store(m, v),
         UNCHANGED <<server, pass, put>>
  PROVE  SyncTyped'
BY StoreIs DEF SyncTyped

LEMMA LearnStartsTyped ==
  ASSUME Typed, NEW m \in Machines, LearnStarts(m)
  PROVE  Typed'
<1> DEFINE call == [kind |-> "learn", stage |-> "model",
                    at |-> [machine |-> m, time |-> LearnTime(m)]]
<1>1. LearnTime(m) \in Nat /\ LearnTime(m) > 0
  BY ClockIs DEF Typed, LearnTyped, LearnTime
<1>2. call \in CallState /\ call.at.time > 0
  BY <1>1, CallsMade DEF Origin
<1>3. CallsTyped /\ Post(call)
  BY DEF Typed, LearnTyped, CallsTyped, LearnStarts
<1>4. CallsTyped'
  BY <1>2, <1>3, PostTyped
<1> QED
  BY <1>4 DEF LearnStarts, Typed, SyncTyped, LearnTyped, CallsTyped, syncVars

LEMMA LessonComesTyped ==
  ASSUME Typed, NEW k \in Slots, LessonComes(k)
  PROVE  Typed'
<1>1. /\ calls[k] \in CallState /\ calls[k] # Free /\ CallsTyped
      /\ calls[k].at.time > 0
  BY DEF Typed, LearnTyped, CallsTyped, LessonComes, At, Free
<1>2. calls[k].at \in Origin /\ calls[k].at.machine \in Machines
  BY <1>1, CallKinds
<1>3. Read(calls[k].at.machine) \in Content
  BY <1>2, LocalIs DEF Typed, SyncTyped
<1> DEFINE call == [kind |-> "learn", stage |-> "record", at |-> calls[k].at,
                    before |-> Read(calls[k].at.machine)]
<1>4. call \in CallState /\ call.at.time > 0
  BY <1>1, <1>2, <1>3, CallsMade
<1>5. Goes(k, call)
  BY DEF LessonComes
<1>6. CallsTyped'
  BY <1>1, <1>4, <1>5, GoesTyped
<1> QED
  BY <1>6 DEF LessonComes, Typed, SyncTyped, LearnTyped, CallsTyped, syncVars

LEMMA EntryCreatedTyped ==
  ASSUME Typed, NEW k \in Slots, EntryCreated(k)
  PROVE  Typed'
<1>1. /\ calls[k] \in CallState /\ calls[k] # Free /\ CallsTyped
      /\ calls[k].at.time > 0 /\ calls[k].kind = "learn" /\ calls[k].stage = "record"
  BY DEF Typed, LearnTyped, CallsTyped, EntryCreated, At, Free
<1>2. calls[k].at \in Origin /\ calls[k].before \in Content
  BY <1>1, CallKinds
<1>3. Len(entries) + 1 \in Nat /\ entries' \in Seq({"applied", "reverted"})
  BY DEF Typed, LearnTyped, EntryCreated
<1> DEFINE call == [kind |-> "learn", stage |-> "write", at |-> calls[k].at,
                    before |-> calls[k].before, id |-> Len(entries) + 1]
<1>4. call \in CallState /\ call.at.time > 0
  BY <1>1, <1>2, <1>3, CallsMade
<1>5. Goes(k, call)
  BY DEF EntryCreated
<1>6. CallsTyped'
  BY <1>1, <1>4, <1>5, GoesTyped
<1> QED
  BY <1>3, <1>6 DEF EntryCreated, Typed, SyncTyped, LearnTyped, CallsTyped, syncVars

LEMMA WrittenIs ==
  ASSUME NumberedHash, Typed, NEW k \in Slots, At(k, "learn", "write")
  PROVE  /\ calls[k] \in CallState /\ calls[k] # Free /\ CallsTyped
         /\ calls[k].at.time > 0 /\ calls[k].at.machine \in Machines
         /\ calls[k].before \in Content /\ calls[k].id \in Nat
         /\ Append(calls[k].before, calls[k].id) \in Content
         /\ Edited(calls[k].before, calls[k].at.time) \in Version
         /\ Edited(Append(calls[k].before, calls[k].id), calls[k].at.time) \in Version
         /\ Record(calls[k]) \in LogRecord
         /\ Append(log[calls[k].at.machine], Record(calls[k])) \in Seq(LogRecord)
<1>1. /\ calls[k] \in CallState /\ calls[k] # Free /\ CallsTyped
      /\ calls[k].at.time > 0 /\ calls[k].kind = "learn" /\ calls[k].stage = "write"
  BY DEF Typed, LearnTyped, CallsTyped, At, Free
<1>2. /\ calls[k].at.machine \in Machines /\ calls[k].at.time \in Nat
      /\ calls[k].before \in Content /\ calls[k].id \in Nat
  BY <1>1, CallKinds
<1>3. Append(calls[k].before, calls[k].id) \in Content
  BY <1>2, AppendIs DEF Content
<1>4. /\ Edited(calls[k].before, calls[k].at.time) \in Version
      /\ Edited(Append(calls[k].before, calls[k].id), calls[k].at.time) \in Version
  BY <1>2, <1>3, EditedIs
<1>5. Record(calls[k]) \in LogRecord
  BY <1>2 DEF Record, LogRecord
<1>6. Append(log[calls[k].at.machine], Record(calls[k])) \in Seq(LogRecord)
  BY <1>2, <1>5 DEF Typed, LearnTyped
<1> QED
  BY <1>1, <1>2, <1>3, <1>4, <1>5, <1>6

LEMMA WrittenTyped ==
  ASSUME NumberedHash, Typed, NEW k \in Slots, Written(k)
  PROVE  Typed'
<1> DEFINE c == calls[k]
           m == c.at.machine
           v == Edited(Append(c.before, c.id), c.at.time)
<1>1. /\ At(k, "learn", "write") /\ Store(m, v) /\ Ends(k)
      /\ log' = [log EXCEPT ![m] = Append(log[m], Record(c))]
      /\ UNCHANGED <<server, pass, put, entries, now, undone, faults>>
  BY DEF Written, Typed, LearnTyped
<1>2. /\ CallsTyped /\ m \in Machines /\ v \in Version
      /\ Append(log[m], Record(c)) \in Seq(LogRecord)
  BY <1>1, WrittenIs
<1>3. SyncTyped'
  BY <1>1, <1>2, StoreTyped DEF Typed
<1>4. CallsTyped'
  BY <1>1, <1>2, EndsTyped
<1>5. log' \in [Machines -> Seq(LogRecord)]
  BY <1>1, <1>2 DEF Typed, LearnTyped
<1> QED
  BY <1>1, <1>3, <1>4, <1>5 DEF Typed, LearnTyped, CallsTyped

LEMMA RolledBackTyped ==
  ASSUME NumberedHash, Typed, NEW k \in Slots, RolledBack(k)
  PROVE  Typed'
<1> DEFINE m == calls[k].at.machine
           v == Edited(calls[k].before, calls[k].at.time)
<1>1. /\ At(k, "learn", "write") /\ Store(m, v) /\ Ends(k) /\ faults' = faults + 1
      /\ UNCHANGED <<server, pass, put, entries, log, now, undone>>
  BY DEF RolledBack, Fault
<1>2. CallsTyped /\ m \in Machines /\ v \in Version
  BY <1>1, WrittenIs
<1>3. SyncTyped'
  BY <1>1, <1>2, StoreTyped DEF Typed
<1>4. CallsTyped'
  BY <1>1, <1>2, EndsTyped
<1> QED
  BY <1>1, <1>3, <1>4 DEF Typed, LearnTyped, CallsTyped

\* What a revert restores.
LEMMA MayRevertIs ==
  ASSUME Typed, NEW m \in Machines, NEW id, MayRevert(m, id)
  PROVE  /\ PlaceOf(m, id) \in DOMAIN log[m] /\ log[m][PlaceOf(m, id)].id = id
         /\ Restored(m, id) \in Content
<1>1. \E n \in DOMAIN log[m] : log[m][n].id = id
  BY DEF MayRevert, Unreverted
<1>2. PlaceOf(m, id) \in DOMAIN log[m] /\ log[m][PlaceOf(m, id)].id = id
  BY <1>1 DEF PlaceOf
<1>3. log[m] \in Seq(LogRecord)
  BY DEF Typed, LearnTyped
<1>4. log[m][PlaceOf(m, id)] \in LogRecord
  BY <1>2, <1>3
<1> QED
  BY <1>2, <1>4 DEF Restored, LogRecord

LEMMA RevertTyped ==
  ASSUME NumberedHash, Typed, NEW m \in Machines, NEW id \in DOMAIN entries, Revert(m, id)
  PROVE  Typed'
<1> DEFINE call == [kind |-> "revert", stage |-> "flag", id |-> id,
                    at |-> [machine |-> m, time |-> Clock(m)]]
           v == Edited(Restored(m, id), Clock(m))
<1>1. /\ MayRevert(m, id) /\ Store(m, v) /\ Post(call) /\ undone' = undone \union {id}
      /\ UNCHANGED <<server, pass, put, entries, log, now, faults>>
  BY DEF Revert
<1>2. Clock(m) \in Nat /\ Clock(m) > 0 /\ id \in Nat
  BY ClockIs DEF Typed, LearnTyped
<1>3. call \in CallState /\ call.at.time > 0
  BY <1>2, CallsMade DEF Origin
<1>4. v \in Version
  BY <1>1, <1>2, MayRevertIs, EditedIs
<1>5. SyncTyped'
  BY <1>1, <1>4, StoreTyped DEF Typed
<1>6. CallsTyped
  BY DEF Typed, LearnTyped, CallsTyped
<1>7. CallsTyped'
  BY <1>1, <1>3, <1>6, PostTyped
<1> QED
  BY <1>1, <1>2, <1>5, <1>7 DEF Typed, LearnTyped, CallsTyped

LEMMA FlaggedTyped ==
  ASSUME Typed, NEW k \in Slots, Flagged(k)
  PROVE  Typed'
<1>1. /\ calls[k] \in CallState /\ calls[k] # Free /\ CallsTyped
      /\ calls[k].at.time > 0 /\ calls[k].kind = "revert" /\ calls[k].stage = "flag"
  BY DEF Typed, LearnTyped, CallsTyped, Flagged, At, Free
<1> DEFINE call == [calls[k] EXCEPT !.stage = "mark"]
<1>2. call \in CallState /\ call.at = calls[k].at
  BY <1>1 DEF CallState, Free
<1>3. CallsTyped'
  BY <1>1, <1>2, GoesTyped DEF Flagged
<1>4. entries' \in Seq({"applied", "reverted"})
  <2>1. entries \in [1..Len(entries) -> {"applied", "reverted"}] /\ Len(entries) \in Nat
    BY DEF Typed, LearnTyped
  <2>2. entries' \in [1..Len(entries) -> {"applied", "reverted"}]
    BY <2>1 DEF Flagged
  <2> QED
    BY <2>1, <2>2
<1> QED
  BY <1>3, <1>4 DEF Flagged, Typed, SyncTyped, LearnTyped, CallsTyped, syncVars

\* The log of the machine after the mark: the same records, some reverted.
LEMMA MarkedIs ==
  ASSUME Typed, NEW k \in Slots, Marked(k)
  PROVE  LET m == calls[k].at.machine IN
         /\ m \in Machines /\ log' \in [Machines -> Seq(LogRecord)]
         /\ \A o \in Machines : DOMAIN log'[o] = DOMAIN log[o]
         /\ \A o \in Machines \ {m} : log'[o] = log[o]
         /\ \A n \in DOMAIN log[m] :
              /\ log'[m][n].id = log[m][n].id /\ log'[m][n].before = log[m][n].before
              /\ log'[m][n].reverted <=> log[m][n].reverted \/ log[m][n].id = calls[k].id
<1> DEFINE m == calls[k].at.machine
           r(n) == [log[m][n] EXCEPT !.reverted = log[m][n].reverted \/ log[m][n].id = calls[k].id]
           s == [n \in DOMAIN log[m] |-> r(n)]
<1>1. /\ calls[k] \in CallState /\ calls[k] # Free
  <2>1. At(k, "revert", "mark")
    BY DEF Marked
  <2> QED
    BY <2>1 DEF Typed, LearnTyped, At, Free
<1>2. m \in Machines
  BY <1>1, CallKinds
<1>3. log' = [log EXCEPT ![m] = s]
  BY DEF Marked, Typed, LearnTyped
<1>4. log[m] \in Seq(LogRecord)
  BY <1>2 DEF Typed, LearnTyped
<1>5. \A n \in DOMAIN log[m] :
        /\ r(n) \in LogRecord /\ r(n).id = log[m][n].id /\ r(n).before = log[m][n].before
        /\ r(n).reverted <=> log[m][n].reverted \/ log[m][n].id = calls[k].id
  <2> SUFFICES ASSUME NEW n \in DOMAIN log[m]
               PROVE  /\ r(n) \in LogRecord
                      /\ r(n).id = log[m][n].id /\ r(n).before = log[m][n].before
                      /\ r(n).reverted <=> log[m][n].reverted \/ log[m][n].id = calls[k].id
    OBVIOUS
  <2>1. log[m][n] \in LogRecord
    BY <1>4
  <2>2. (log[m][n].reverted \/ log[m][n].id = calls[k].id) \in BOOLEAN
    OBVIOUS
  <2> QED
    BY <2>1, <2>2 DEF LogRecord
<1>6. s \in Seq(LogRecord) /\ DOMAIN s = DOMAIN log[m]
  <2>1. DOMAIN log[m] = 1..Len(log[m]) /\ Len(log[m]) \in Nat
    BY <1>4
  <2>2. s \in [1..Len(log[m]) -> LogRecord]
    BY <1>5, <2>1
  <2>3. ASSUME NEW f, NEW n \in Nat, f \in [1..n -> LogRecord]
        PROVE  f \in Seq(LogRecord) /\ DOMAIN f = 1..n
    BY <2>3
  <2> HIDE DEF s, m
  <2> QED
    BY <2>1, <2>2, <2>3
<1>7. \A n \in DOMAIN log[m] : s[n] = r(n)
  OBVIOUS
<1>8. log' \in [Machines -> Seq(LogRecord)] /\ log'[m] = s
  BY <1>2, <1>3, <1>6 DEF Typed, LearnTyped
<1>9. \A o \in Machines \ {m} : log'[o] = log[o]
  BY <1>2, <1>3 DEF Typed, LearnTyped
<1> QED
  BY <1>2, <1>5, <1>6, <1>7, <1>8, <1>9, ZenonT(60)

LEMMA MarkedTyped ==
  ASSUME Typed, NEW k \in Slots, Marked(k)
  PROVE  Typed'
<1>1. CallsTyped'
  BY EndsTyped DEF Marked, Typed, LearnTyped, CallsTyped
<1>2. log' \in [Machines -> Seq(LogRecord)]
  BY MarkedIs
<1> QED
  BY <1>1, <1>2 DEF Marked, Typed, SyncTyped, LearnTyped, CallsTyped, syncVars

LEMMA CallFailsTyped ==
  ASSUME Typed, NEW k \in Slots, CallFails(k)
  PROVE  Typed'
<1>1. CallsTyped'
  BY EndsTyped DEF CallFails, Typed, LearnTyped, CallsTyped
<1> QED
  BY <1>1 DEF CallFails, Fault, Typed, SyncTyped, LearnTyped, CallsTyped, syncVars

LEMMA CrashTyped ==
  ASSUME NumberedHash, Typed, NEW m \in Machines, Crash(m)
  PROVE  Typed'
<1>1. calls' = [k \in Slots |->
        IF calls[k] # Free /\ calls[k].at.machine = m THEN Free ELSE calls[k]]
  BY DEF Crash
<1>2. CallsTyped'
  BY <1>1, FreeIsACall DEF Typed, LearnTyped, CallsTyped
<1>3. file' \in [Machines -> Content] /\ index' \in [Machines -> [hash : Nat, at : Nat]]
  <2>1. CASE UNCHANGED <<file, index>>
    BY <2>1 DEF Typed, SyncTyped
  <2>2. ASSUME NEW k \in Slots, At(k, "learn", "write"), calls[k].at.machine = m,
               LET new == Edited(Append(calls[k].before, calls[k].id), calls[k].at.time)
               IN Store(m, new) \/ (file' = [file EXCEPT ![m] = new.content] /\ UNCHANGED index)
        PROVE  file' \in [Machines -> Content] /\ index' \in [Machines -> [hash : Nat, at : Nat]]
    <3> DEFINE new == Edited(Append(calls[k].before, calls[k].id), calls[k].at.time)
    <3>1. new \in Version /\ new.content \in Content
      BY <2>2, WrittenIs DEF Version
    <3>2. CASE Store(m, new)
      BY <3>1, <3>2, StoreIs DEF Typed, SyncTyped
    <3>3. CASE file' = [file EXCEPT ![m] = new.content] /\ UNCHANGED index
      BY <3>1, <3>3 DEF Typed, SyncTyped
    <3> QED
      BY <2>2, <3>2, <3>3
  <2> QED
    BY <2>1, <2>2 DEF Crash
<1>4. pass' \in [Machines -> PassState]
  BY DEF Crash, Typed, SyncTyped, PassState
<1>5. UNCHANGED <<server, put, entries, log, now, undone>> /\ faults' = faults + 1
  BY DEF Crash, Fault
<1> QED
  BY <1>2, <1>3, <1>4, <1>5 DEF Typed, SyncTyped, LearnTyped, CallsTyped

LEMMA HandEditTyped ==
  ASSUME Typed, NEW m \in Machines, HandEdit(m)
  PROVE  Typed'
<1>1. file' = [file EXCEPT ![m] = Append(file[m], ByHand)]
  BY DEF HandEdit, Typed, SyncTyped
<1>2. Append(file[m], ByHand) \in Content
  BY AppendIs DEF Typed, SyncTyped, ByHand, Content
<1>3. file' \in [Machines -> Content]
  BY <1>1, <1>2 DEF Typed, SyncTyped
<1> QED
  BY <1>3 DEF HandEdit, Fault, Typed, SyncTyped, LearnTyped

\* The steps of a pass, and what they have in common.
PassStep(m) == PassStarts(m) \/ PassGoesOn(m) \/ PassFails(m)

LEMMA PassStepTyped ==
  ASSUME Typed, NEW m \in Machines, PassStep(m)
  PROVE  Typed' /\ UNCHANGED <<entries, log, calls, now, undone>>
<1>1. SyncTyped'
  BY SyncStartsTyped, PutServedTyped, AdoptTyped, ListServedTyped, PullTyped, SyncFailsTyped
     DEF PassStep, PassStarts, PassGoesOn, PassFails, Typed
<1>2. /\ UNCHANGED <<entries, log, calls, now, undone>>
      /\ faults' \in {faults, faults + 1}
  BY DEF PassStep, PassStarts, PassGoesOn, PassFails, Fault
<1> QED
  BY <1>1, <1>2 DEF Typed, LearnTyped

\* The steps of the specification.
LEMMA Steps ==
  ASSUME [Next]_vars
  PROVE  \/ \E m \in Machines :
              \/ LearnStarts(m) \/ \E id \in DOMAIN entries : Revert(m, id)
              \/ PassStep(m) \/ Crash(m) \/ HandEdit(m)
         \/ \E k \in Slots :
              \/ LessonComes(k) \/ EntryCreated(k) \/ Written(k) \/ RolledBack(k)
              \/ Flagged(k) \/ Marked(k) \/ CallFails(k)
         \/ Tick \/ UNCHANGED vars
BY DEF Next, PassStep

LEMMA TypedNext ==
  ASSUME NumberedHash, Typed, [Next]_vars
  PROVE  Typed'
<1>1. ASSUME NEW m \in Machines, LearnStarts(m) PROVE Typed'
  BY <1>1, LearnStartsTyped
<1>2. ASSUME NEW m \in Machines, NEW id \in DOMAIN entries, Revert(m, id) PROVE Typed'
  BY <1>2, RevertTyped
<1>3. ASSUME NEW m \in Machines, PassStep(m) PROVE Typed'
  BY <1>3, PassStepTyped
<1>4. ASSUME NEW m \in Machines, Crash(m) PROVE Typed'
  BY <1>4, CrashTyped
<1>5. ASSUME NEW m \in Machines, HandEdit(m) PROVE Typed'
  BY <1>5, HandEditTyped
<1>6. ASSUME NEW k \in Slots, LessonComes(k) PROVE Typed'
  BY <1>6, LessonComesTyped
<1>7. ASSUME NEW k \in Slots, EntryCreated(k) PROVE Typed'
  BY <1>7, EntryCreatedTyped
<1>8. ASSUME NEW k \in Slots, Written(k) PROVE Typed'
  BY <1>8, WrittenTyped
<1>9. ASSUME NEW k \in Slots, RolledBack(k) PROVE Typed'
  BY <1>9, RolledBackTyped
<1>10. ASSUME NEW k \in Slots, Flagged(k) PROVE Typed'
  BY <1>10, FlaggedTyped
<1>11. ASSUME NEW k \in Slots, Marked(k) PROVE Typed'
  BY <1>11, MarkedTyped
<1>12. ASSUME NEW k \in Slots, CallFails(k) PROVE Typed'
  BY <1>12, CallFailsTyped
<1>13. CASE Tick
  BY <1>13 DEF Tick, Typed, SyncTyped, LearnTyped, syncVars
<1>14. CASE UNCHANGED vars
  BY <1>14 DEF vars, syncVars, learnVars, Typed, SyncTyped, LearnTyped
<1> QED
  BY <1>1, <1>2, <1>3, <1>4, <1>5, <1>6, <1>7, <1>8, <1>9, <1>10, <1>11, <1>12, <1>13,
     <1>14, Steps

-----------------------------------------------------------------------------
(* Entries, records and calls name each other.                             *)

\* A lesson that is going to be written has an entry of its own, which no other call
\* is going to write, no log has and no revert has taken out.
OwnEntry(k) ==
  /\ calls[k].id \in DOMAIN entries /\ calls[k].id \notin undone
  /\ \A l \in Slots : At(l, "learn", "write") /\ calls[l].id = calls[k].id => k = l
  /\ \A m \in Machines : \A n \in DOMAIN log[m] : log[m][n].id # calls[k].id

Reverting == \A k \in Slots : calls[k].kind = "revert" => calls[k].id \in DOMAIN entries
Writing == \A k \in Slots : At(k, "learn", "write") => OwnEntry(k)

\* The records of all the logs are of different entries.
Distinct ==
  \A m, o \in Machines : \A i \in DOMAIN log[m] : \A j \in DOMAIN log[o] :
    log[m][i].id = log[o][j].id => m = o /\ i = j

Recorded ==
  /\ \A m \in Machines : \A n \in DOMAIN log[m] : log[m][n].id \in DOMAIN entries
  /\ undone \subseteq DOMAIN entries

Ids == Reverting /\ Writing /\ Distinct /\ Recorded

LEMMA IdsInit == Init => Ids
BY DEF Init, Ids, Reverting, Writing, Distinct, Recorded, At, Free

\* A step that neither starts a revert nor takes a call to its write.
LEMMA IdsKept ==
  ASSUME Ids, UNCHANGED <<entries, log, undone>>,
         \A k \in Slots :
           \/ calls'[k] = calls[k]
           \/ calls'[k].kind = "free" \/ (calls'[k].kind = "learn" /\ calls'[k].stage # "write")
  PROVE  Ids'
<1>1. Reverting'
  BY DEF Ids, Reverting
<1>2. \A k \in Slots : At(k, "learn", "write")' => At(k, "learn", "write") /\ calls'[k] = calls[k]
  BY DEF At
<1>3. Writing'
  BY <1>2 DEF Ids, Writing, OwnEntry
<1>4. Distinct' /\ Recorded'
  BY DEF Ids, Distinct, Recorded
<1> QED
  BY <1>1, <1>3, <1>4 DEF Ids

LEMMA PostIs ==
  ASSUME Typed, NEW call, Post(call)
  PROVE  \E k \in Slots : /\ calls[k] = Free /\ calls'[k] = call
                          /\ \A l \in Slots : l # k => calls'[l] = calls[l]
BY DEF Post, Typed, LearnTyped

LEMMA GoesIs ==
  ASSUME Typed, NEW k \in Slots, NEW call, Goes(k, call)
  PROVE  /\ calls'[k] = call /\ \A l \in Slots : l # k => calls'[l] = calls[l]
BY DEF Goes, Typed, LearnTyped

LEMMA EndsIs ==
  ASSUME Typed, NEW k \in Slots, Ends(k)
  PROVE  /\ calls'[k] = Free /\ \A l \in Slots : l # k => calls'[l] = calls[l]
BY DEF Ends, Typed, LearnTyped

LEMMA EntryCreatedIds ==
  ASSUME Typed, Ids, NEW k \in Slots, EntryCreated(k)
  PROVE  Ids'
<1> DEFINE new == Len(entries) + 1
<1>1. /\ DOMAIN entries' = DOMAIN entries \union {new} /\ new \notin DOMAIN entries
  BY DEF EntryCreated, Typed, LearnTyped
<1>2. /\ calls'[k].kind = "learn" /\ calls'[k].stage = "write" /\ calls'[k].id = new
      /\ \A l \in Slots : l # k => calls'[l] = calls[l]
  BY GoesIs DEF EntryCreated
<1>3. UNCHANGED <<log, undone>>
  BY DEF EntryCreated
<1>4. Reverting'
  BY <1>1, <1>2 DEF Ids, Reverting
<1>5. Distinct' /\ Recorded'
  BY <1>1, <1>3 DEF Ids, Distinct, Recorded
<1>6. \A l \in Slots : l # k =>
        (At(l, "learn", "write")' <=> At(l, "learn", "write")) /\ calls'[l].id = calls[l].id
  BY <1>2 DEF At
<1>7. OwnEntry(k)'
  BY <1>1, <1>2, <1>3, <1>6 DEF Ids, Recorded, Writing, OwnEntry
<1>8. \A l \in Slots : l # k /\ At(l, "learn", "write")' => OwnEntry(l)'
  BY <1>1, <1>2, <1>3, <1>6 DEF Ids, Writing, OwnEntry
<1> QED
  BY <1>4, <1>5, <1>7, <1>8 DEF Ids, Writing

\* The log of a machine after a lesson was written: one record more.
LEMMA WrittenLog ==
  ASSUME NumberedHash, Typed, NEW k \in Slots, Written(k)
  PROVE  LET m == calls[k].at.machine
             last == Len(log[m]) + 1
         IN /\ m \in Machines /\ last \in Nat
            /\ DOMAIN log[m] = 1..Len(log[m]) /\ DOMAIN log'[m] = DOMAIN log[m] \union {last}
            /\ \A n \in DOMAIN log[m] : n < last /\ n # last /\ log'[m][n] = log[m][n]
            /\ log'[m][last] = Record(calls[k])
            /\ \A o \in Machines \ {m} : log'[o] = log[o]
<1> DEFINE m == calls[k].at.machine
<1>1. /\ At(k, "learn", "write") /\ log' = [log EXCEPT ![m] = Append(log[m], Record(calls[k]))]
  BY DEF Written, Typed, LearnTyped
<1>2. /\ m \in Machines /\ Record(calls[k]) \in LogRecord
  BY <1>1, WrittenIs
<1>3. log[m] \in Seq(LogRecord)
  BY <1>2 DEF Typed, LearnTyped
<1>4. log'[m] = Append(log[m], Record(calls[k])) /\ \A o \in Machines \ {m} : log'[o] = log[o]
  BY <1>1, <1>2 DEF Typed, LearnTyped
<1> DEFINE s == log[m]
           e == Record(calls[k])
<1>5. s \in Seq(LogRecord) /\ e \in LogRecord
  BY <1>2, <1>3
<1> HIDE DEF s, e
<1>6. /\ Len(s) + 1 \in Nat /\ DOMAIN s = 1..Len(s)
      /\ DOMAIN Append(s, e) = DOMAIN s \union {Len(s) + 1}
      /\ Append(s, e)[Len(s) + 1] = e
      /\ \A n \in DOMAIN s : n < Len(s) + 1 /\ n # Len(s) + 1 /\ Append(s, e)[n] = s[n]
  BY <1>5, AppendIs
<1> QED
  BY <1>2, <1>4, <1>6 DEF s, e

LEMMA WrittenIds ==
  ASSUME NumberedHash, Typed, Ids, NEW k \in Slots, Written(k)
  PROVE  Ids'
<1> DEFINE m == calls[k].at.machine
           last == Len(log[m]) + 1
<1>1. /\ At(k, "learn", "write") /\ UNCHANGED <<entries, undone>> /\ Ends(k)
  BY DEF Written
<1>2. OwnEntry(k)
  BY <1>1 DEF Ids, Writing
<1>3. /\ calls'[k] = Free /\ \A l \in Slots : l # k => calls'[l] = calls[l]
  BY <1>1, EndsIs
<1>4. /\ m \in Machines /\ DOMAIN log'[m] = DOMAIN log[m] \union {last}
      /\ \A n \in DOMAIN log[m] : n # last /\ log'[m][n] = log[m][n]
      /\ log'[m][last].id = calls[k].id
      /\ \A o \in Machines \ {m} : log'[o] = log[o]
  <2>1. Record(calls[k]).id = calls[k].id
    BY DEF Record
  <2> QED
    BY <2>1, WrittenLog
<1> HIDE DEF m, last
<1>5. \A o \in Machines : \A n \in DOMAIN log'[o] :
        \/ o = m /\ n = last /\ log'[o][n].id = calls[k].id
        \/ n \in DOMAIN log[o] /\ log'[o][n] = log[o][n] /\ ~(o = m /\ n = last)
  BY <1>4
<1>6. Reverting'
  BY <1>1, <1>3 DEF Ids, Reverting, Free
<1>7. Recorded'
  BY <1>1, <1>2, <1>5 DEF Ids, Recorded, OwnEntry
<1>8. Distinct'
  BY <1>2, <1>5 DEF Ids, Distinct, OwnEntry
<1>9. \A l \in Slots : At(l, "learn", "write")' =>
        l # k /\ At(l, "learn", "write") /\ calls'[l] = calls[l]
  BY <1>3 DEF At, Free
<1>10. ASSUME NEW l \in Slots, At(l, "learn", "write")' PROVE OwnEntry(l)'
  <2>1. /\ l # k /\ OwnEntry(l) /\ calls'[l].id = calls[l].id /\ calls[l].id # calls[k].id
    BY <1>1, <1>9, <1>10 DEF Ids, Writing, OwnEntry
  <2>2. \A o \in Machines : \A n \in DOMAIN log'[o] : log'[o][n].id # calls[l].id
    BY <1>5, <2>1 DEF OwnEntry
  <2> QED
    BY <1>1, <1>9, <2>1, <2>2 DEF OwnEntry
<1> QED
  BY <1>6, <1>7, <1>8, <1>10 DEF Ids, Writing

LEMMA RevertIds ==
  ASSUME Typed, Ids, NEW m \in Machines, NEW id \in DOMAIN entries, Revert(m, id)
  PROVE  Ids'
<1>1. /\ MayRevert(m, id) /\ undone' = undone \union {id} /\ UNCHANGED <<entries, log>>
      /\ Post([kind |-> "revert", stage |-> "flag", id |-> id,
               at |-> [machine |-> m, time |-> Clock(m)]])
  BY DEF Revert
<1>2. PICK k \in Slots : /\ calls'[k].kind = "revert" /\ calls'[k].id = id
                         /\ \A l \in Slots : l # k => calls'[l] = calls[l]
  BY <1>1, PostIs
<1>3. PlaceOf(m, id) \in DOMAIN log[m] /\ log[m][PlaceOf(m, id)].id = id
  BY <1>1, MayRevertIs
<1>4. Reverting'
  BY <1>1, <1>2 DEF Ids, Reverting
<1>5. Distinct' /\ Recorded'
  BY <1>1 DEF Ids, Distinct, Recorded
<1>6. \A l \in Slots : At(l, "learn", "write")' =>
        At(l, "learn", "write") /\ calls'[l] = calls[l]
  BY <1>2 DEF At
<1>7. \A l \in Slots : At(l, "learn", "write") => calls[l].id # id
  BY <1>3 DEF Ids, Writing, OwnEntry
<1>8. Writing'
  BY <1>1, <1>6, <1>7 DEF Ids, Writing, OwnEntry
<1> QED
  BY <1>4, <1>5, <1>8 DEF Ids

LEMMA FlaggedIds ==
  ASSUME Typed, Ids, NEW k \in Slots, Flagged(k)
  PROVE  Ids'
<1>1. /\ At(k, "revert", "flag") /\ UNCHANGED <<log, undone>>
      /\ Goes(k, [calls[k] EXCEPT !.stage = "mark"])
      /\ DOMAIN entries' = DOMAIN entries
  BY DEF Flagged, Typed, LearnTyped
<1>2. calls[k] \in CallState /\ calls[k] # Free /\ calls[k].kind = "revert"
  BY <1>1 DEF Typed, LearnTyped, At, Free
<1>3. /\ [calls[k] EXCEPT !.stage = "mark"].kind = "revert"
      /\ [calls[k] EXCEPT !.stage = "mark"].id = calls[k].id
  BY <1>2 DEF CallState, Free
<1>4. /\ calls'[k].kind = "revert" /\ calls'[k].id = calls[k].id
      /\ \A l \in Slots : l # k => calls'[l] = calls[l]
  BY <1>1, <1>3, GoesIs
<1>5. Reverting'
  BY <1>1, <1>2, <1>4 DEF Ids, Reverting
<1>6. \A l \in Slots : At(l, "learn", "write")' =>
        At(l, "learn", "write") /\ calls'[l] = calls[l]
  BY <1>4 DEF At
<1>7. Writing'
  BY <1>1, <1>6 DEF Ids, Writing, OwnEntry
<1> QED
  BY <1>1, <1>5, <1>7 DEF Ids, Distinct, Recorded

LEMMA MarkedIds ==
  ASSUME Typed, Ids, NEW k \in Slots, Marked(k)
  PROVE  Ids'
<1>1. Ends(k) /\ UNCHANGED <<entries, undone>>
  BY DEF Marked
<1>2. /\ calls'[k] = Free /\ \A l \in Slots : l # k => calls'[l] = calls[l]
  BY <1>1, EndsIs
<1>3. \A o \in Machines : /\ DOMAIN log'[o] = DOMAIN log[o]
                          /\ \A n \in DOMAIN log[o] : log'[o][n].id = log[o][n].id
  BY MarkedIs
<1>4. Reverting'
  BY <1>1, <1>2 DEF Ids, Reverting, Free
<1>5. \A l \in Slots : At(l, "learn", "write")' =>
        At(l, "learn", "write") /\ calls'[l] = calls[l]
  BY <1>2 DEF At, Free
<1>6. Writing'
  BY <1>1, <1>3, <1>5 DEF Ids, Writing, OwnEntry
<1>7. Distinct' /\ Recorded'
  BY <1>1, <1>3 DEF Ids, Distinct, Recorded
<1> QED
  BY <1>4, <1>6, <1>7 DEF Ids

LEMMA IdsNext ==
  ASSUME NumberedHash, Typed, Ids, [Next]_vars
  PROVE  Ids'
<1>1. ASSUME NEW m \in Machines, LearnStarts(m) PROVE Ids'
  <2>1. Post([kind |-> "learn", stage |-> "model",
              at |-> [machine |-> m, time |-> LearnTime(m)]])
    BY <1>1 DEF LearnStarts
  <2>2. \A k \in Slots : \/ calls'[k] = calls[k]
                         \/ calls'[k].kind = "learn" /\ calls'[k].stage # "write"
    BY <2>1, PostIs
  <2> QED
    BY <1>1, <2>2, IdsKept DEF LearnStarts
<1>2. ASSUME NEW m \in Machines, NEW id \in DOMAIN entries, Revert(m, id) PROVE Ids'
  BY <1>2, RevertIds
<1>3. ASSUME NEW m \in Machines, PassStep(m) PROVE Ids'
  BY <1>3, PassStepTyped, IdsKept
<1>4. ASSUME NEW m \in Machines, Crash(m) PROVE Ids'
  <2>1. \A k \in Slots : calls'[k] = calls[k] \/ calls'[k].kind = "free"
    BY <1>4 DEF Crash, Free
  <2> QED
    BY <1>4, <2>1, IdsKept DEF Crash
<1>5. ASSUME NEW m \in Machines, HandEdit(m) PROVE Ids'
  BY <1>5, IdsKept DEF HandEdit
<1>6. ASSUME NEW k \in Slots, LessonComes(k) PROVE Ids'
  <2>1. Goes(k, [kind |-> "learn", stage |-> "record", at |-> calls[k].at,
                 before |-> Read(calls[k].at.machine)])
    BY <1>6 DEF LessonComes
  <2>2. \A l \in Slots : \/ calls'[l] = calls[l]
                         \/ calls'[l].kind = "learn" /\ calls'[l].stage # "write"
    BY <2>1, GoesIs
  <2> QED
    BY <1>6, <2>2, IdsKept DEF LessonComes
<1>7. ASSUME NEW k \in Slots, EntryCreated(k) PROVE Ids'
  BY <1>7, EntryCreatedIds
<1>8. ASSUME NEW k \in Slots, Written(k) PROVE Ids'
  BY <1>8, WrittenIds
<1>9. ASSUME NEW k \in Slots, RolledBack(k) \/ CallFails(k) PROVE Ids'
  <2>1. Ends(k) /\ UNCHANGED <<entries, log, undone>>
    BY <1>9 DEF RolledBack, CallFails
  <2>2. \A l \in Slots : calls'[l] = calls[l] \/ calls'[l].kind = "free"
    BY <2>1, EndsIs DEF Free
  <2> QED
    BY <2>1, <2>2, IdsKept
<1>10. ASSUME NEW k \in Slots, Flagged(k) PROVE Ids'
  BY <1>10, FlaggedIds
<1>11. ASSUME NEW k \in Slots, Marked(k) PROVE Ids'
  BY <1>11, MarkedIds
<1>12. CASE Tick
  BY <1>12, IdsKept DEF Tick
<1>13. CASE UNCHANGED vars
  BY <1>13, IdsKept DEF vars, learnVars
<1> QED
  BY <1>1, <1>2, <1>3, <1>4, <1>5, <1>6, <1>7, <1>8, <1>9, <1>10, <1>11, <1>12, <1>13, Steps

LEMMA TypesAreOK ==
  ASSUME Typed, Ids
  PROVE  TypeOK
BY DEF Typed, SyncTyped, LearnTyped, Ids, Reverting, Distinct, TypeOK, LogRecord

\* The variables have their types, what is flagged or marked is an entry, and the records
\* of a log are of different entries: of any number of machines, calls and passes
\* (learn.ts, log.ts, tone/store.ts, tone/sync.ts).
THEOREM TypeCorrect ==
  ASSUME NumberedHash
  PROVE  Spec => []TypeOK
<1>1. Init => Typed /\ Ids
  BY TypedInit, IdsInit
<1>2. Typed /\ Ids /\ [Next]_vars => (Typed /\ Ids)'
  BY TypedNext, IdsNext
<1>3. Typed /\ Ids => TypeOK
  BY TypesAreOK
<1> QED
  BY <1>1, <1>2, <1>3, PTL DEF Spec

-----------------------------------------------------------------------------
(* The server's row.                                                       *)

\* The versions that can be put: those a machine has an entry of.
Real(v) == EntryOf(v) # NoEntry

LEMMA NoFileIsNotReal == ~Real(NoFile)
BY DEF Real, NoFile, EntryOf, NoEntry

\* An edit is real: its time is not zero.
LEMMA EditedIsReal ==
  ASSUME NEW content, NEW at \in Nat, at > 0
  PROVE  Real(Edited(content, at))
BY DEF Edited, Real, EntryOf, NoEntry

\* The server's row is a version that was put, and none that was put beats it.
Arbiter ==
  /\ put = {} <=> server = NoFile
  /\ put # {} => server \in put /\ \A u \in put : ~Beats(u, server)
  /\ \A v \in put : Real(v)

\* A pass sends an entry of its machine, and is answered with a row.
Passing ==
  \A m \in Machines :
    /\ pass[m].stage = "put" => Real(pass[m].sent)
    /\ pass[m].stage = "adopt" => Real(pass[m].sent) /\ pass[m].got \in put
    /\ pass[m].stage = "pull" => pass[m].got \in put \union {NoFile}

Served == Arbiter /\ Passing

LEMMA ServedInit == Init => Served
BY DEF Init, SyncInit, Served, Arbiter, Passing, Idle

\* A step that is not of a pass leaves the row alone, and the passes go on or have died.
RowKept ==
  /\ UNCHANGED <<server, put>>
  /\ \A m \in Machines : pass'[m] = pass[m] \/ pass'[m] = Idle

LEMMA RowSteps ==
  ASSUME Typed, [Next]_vars
  PROVE  RowKept \/ \E m \in Machines : PassStep(m)
<1>1. ASSUME NEW m \in Machines,
             LearnStarts(m) \/ (\E id \in DOMAIN entries : Revert(m, id)) \/ HandEdit(m)
      PROVE  RowKept
  BY <1>1 DEF LearnStarts, Revert, HandEdit, syncVars, RowKept
<1>2. ASSUME NEW m \in Machines, Crash(m) PROVE RowKept
  BY <1>2 DEF Crash, RowKept, Typed, SyncTyped
<1>3. ASSUME NEW k \in Slots,
             \/ LessonComes(k) \/ EntryCreated(k) \/ Written(k) \/ RolledBack(k)
             \/ Flagged(k) \/ Marked(k) \/ CallFails(k)
      PROVE  RowKept
  BY <1>3 DEF LessonComes, EntryCreated, Written, RolledBack, Flagged, Marked, CallFails,
              syncVars, RowKept
<1>4. ASSUME Tick \/ UNCHANGED vars PROVE RowKept
  BY <1>4 DEF Tick, vars, syncVars, RowKept
<1> QED
  BY <1>1, <1>2, <1>3, <1>4, Steps

LEMMA RowKeptServed ==
  ASSUME Served, RowKept
  PROVE  Served'
<1>1. Arbiter'
  BY DEF RowKept, Served, Arbiter
<1>2. \A m \in Machines : pass'[m].stage \in {"put", "adopt", "pull"} => pass'[m] = pass[m]
  BY DEF RowKept, Idle
<1>3. Passing'
  BY <1>2 DEF RowKept, Served, Passing
<1> QED
  BY <1>1, <1>3 DEF Served

\* The row and the versions that were put, at a put: what the register promises.
LEMMA PutServedRow ==
  ASSUME Typed, Served, NEW m \in Machines, PutServed(m)
  PROVE  LET v == pass[m].sent IN
         /\ v \in Version /\ Real(v) /\ put' = put \union {v}
         /\ server' \in put' /\ \A u \in put' : ~Beats(u, server')
         /\ server = NoFile => server' = v
         /\ server # NoFile /\ ~Beats(v, server) => server' = server
         /\ ~Beats(v, server')
         /\ pass'[m].stage = "adopt" /\ pass'[m].sent = v /\ pass'[m].got = server'
<1> DEFINE v == pass[m].sent
<1>1. pass[m].stage = "put" /\ v \in Version /\ Real(v)
  BY PassKinds DEF Typed, SyncTyped, Served, Passing, PutServed
<1>2. /\ put' = put \union {v} /\ server' = IF Wins(v) THEN v ELSE server
      /\ pass' = [pass EXCEPT ![m] = [stage |-> "adopt", sent |-> v, accepted |-> Wins(v),
                                      got |-> server']]
  BY DEF PutServed, Typed, SyncTyped
<1>3. put \subseteq Version /\ server \in Version
  BY DEF Typed, SyncTyped
<1>4. put # {} => server # NoFile /\ server \in put /\ \A u \in put : ~Beats(u, server)
  BY DEF Served, Arbiter
<1>5. put = {} <=> server = NoFile
  BY DEF Served, Arbiter
<1> DEFINE Arbitrated ==
             /\ server' \in put' /\ \A u \in put' : ~Beats(u, server')
             /\ server = NoFile => server' = v
             /\ server # NoFile /\ ~Beats(v, server) => server' = server
             /\ ~Beats(v, server')
<1>6. ~Beats(v, v)
  BY <1>1, Order
<1>7. Arbitrated
  <2>1. CASE server = NoFile
    <3>1. server' = v /\ put' = {v}
      BY <1>2, <1>5, <2>1 DEF Wins
    <3> QED
      BY <1>6, <2>1, <3>1
  <2>2. CASE server # NoFile /\ Beats(v, server)
    <3>1. server' = v
      BY <1>2, <2>2 DEF Wins
    <3>2. \A u \in put : ~Beats(u, v)
      BY <1>1, <1>3, <1>4, <2>2, Order
    <3> QED
      BY <1>2, <1>6, <2>2, <3>1, <3>2
  <2>3. CASE server # NoFile /\ ~Beats(v, server)
    <3>1. server' = server
      BY <1>2, <2>3 DEF Wins
    <3> QED
      BY <1>2, <1>4, <1>5, <2>3, <3>1
  <2> QED
    BY <2>1, <2>2, <2>3
<1>8. pass'[m].stage = "adopt" /\ pass'[m].sent = v /\ pass'[m].got = server'
  BY <1>2 DEF Typed, SyncTyped
<1> QED
  BY <1>1, <1>2, <1>7, <1>8

\* The passes of the other machines stand still while one takes a step.
LEMMA OthersStand ==
  ASSUME Typed, NEW m \in Machines, PassStep(m)
  PROVE  \A o \in Machines : o # m => pass'[o] = pass[o]
BY DEF PassStep, PassStarts, PassGoesOn, PassFails, SyncStarts, PutServed, Adopt, ListServed,
       Pull, SyncFails, Typed, SyncTyped

\* The step of a pass other than the put: the row and the history stay.
LEMMA PassMoves ==
  ASSUME Typed, NEW m \in Machines, PassStep(m), ~PutServed(m)
  PROVE  /\ UNCHANGED <<server, put>>
         /\ \/ pass'[m] = Idle \/ pass'[m].stage = "list"
            \/ /\ pass[m] = Idle /\ index[m] # NoEntry
               /\ pass'[m] = [stage |-> "put", sent |-> Local(m)]
            \/ /\ pass[m].stage = "list"
               /\ pass'[m] = [stage |-> "pull", verdict |-> pass[m].verdict, got |-> server]
<1>1. UNCHANGED <<server, put>>
  BY DEF PassStep, PassStarts, PassGoesOn, PassFails, SyncStarts, Adopt, ListServed, Pull,
         SyncFails
<1>2. CASE SyncStarts(m)
  BY <1>2 DEF SyncStarts, Typed, SyncTyped
<1>3. CASE Adopt(m)
  BY <1>3 DEF Adopt, Typed, SyncTyped
<1>4. CASE ListServed(m)
  BY <1>4 DEF ListServed, Typed, SyncTyped
<1>5. CASE Pull(m) \/ SyncFails(m)
  BY <1>5 DEF Pull, SyncFails, Typed, SyncTyped
<1> QED
  BY <1>1, <1>2, <1>3, <1>4, <1>5 DEF PassStep, PassStarts, PassGoesOn, PassFails

LEMMA PassStepServed ==
  ASSUME Typed, Served, NEW m \in Machines, PassStep(m)
  PROVE  Served'
<1>1. CASE PutServed(m)
  <2>1. /\ put' = put \union {pass[m].sent} /\ server' \in put' /\ Real(pass[m].sent)
        /\ \A u \in put' : ~Beats(u, server')
        /\ pass'[m].stage = "adopt" /\ pass'[m].sent = pass[m].sent /\ pass'[m].got = server'
    BY <1>1, PutServedRow
  <2>2. \A v \in put' : Real(v)
    BY <2>1 DEF Served, Arbiter
  <2>3. Arbiter'
    BY <2>1, <2>2, NoFileIsNotReal DEF Arbiter
  <2>4. Passing'
    BY <2>1, OthersStand DEF Served, Passing
  <2> QED
    BY <2>3, <2>4 DEF Served
<1>2. CASE ~PutServed(m)
  <2>1. UNCHANGED <<server, put>>
    BY <1>2, PassMoves
  <2>5. Arbiter'
    BY <2>1 DEF Served, Arbiter
  <2>2. /\ EntryOf(Local(m)) = index[m]
        /\ server \in put \union {NoFile}
    BY LocalIs DEF Typed, SyncTyped, Served, Arbiter
  <2>3. /\ pass'[m].stage = "put" => Real(pass'[m].sent)
        /\ pass'[m].stage # "adopt"
        /\ pass'[m].stage = "pull" => pass'[m].got \in put \union {NoFile}
    <3>1. CASE pass'[m] = Idle \/ pass'[m].stage = "list"
      BY <3>1 DEF Idle
    <3>2. CASE index[m] # NoEntry /\ pass'[m] = [stage |-> "put", sent |-> Local(m)]
      BY <2>2, <3>2 DEF Real
    <3>3. CASE pass'[m] = [stage |-> "pull", verdict |-> pass[m].verdict, got |-> server]
      BY <2>2, <3>3
    <3> QED
      BY <1>2, <3>1, <3>2, <3>3, PassMoves
  <2>4. Passing'
    BY <2>1, <2>3, OthersStand DEF Served, Passing
  <2> QED
    BY <2>4, <2>5 DEF Served
<1> QED
  BY <1>1, <1>2

LEMMA ServedNext ==
  ASSUME Typed, Served, [Next]_vars
  PROVE  Served'
BY RowSteps, RowKeptServed, PassStepServed

\* The put of a version is the put of the register.
LEMMA PutServedIsPut ==
  ASSUME Typed, Served, NEW m \in Machines, PutServed(m)
  PROVE  Register!Next
<1> DEFINE v == pass[m].sent
           value == IF server = NoFile THEN {} ELSE {server}
           next == IF server' = NoFile THEN {} ELSE {server'}
<1>1. /\ v \in Version /\ Real(v) /\ put' = put \union {v}
      /\ server' \in put' /\ \A u \in put' : ~Beats(u, server')
      /\ server # NoFile /\ ~Beats(v, server) => server' = server
  BY PutServedRow
<1>2. server' # NoFile
  BY <1>1, NoFileIsNotReal DEF Served, Arbiter
<1>3. next = {server'} /\ server' \in {w \in put' : \A u \in put' : ~Beats(u, w)}
  BY <1>1, <1>2
<1>4. value # {} /\ value \subseteq {w \in put' : \A u \in put' : ~Beats(u, w)} => next = value
  BY <1>1, <1>3
<1>5. Register!Put(v)
  BY <1>1, <1>3, <1>4 DEF Register!Put, Register!Greatest
<1>6. v \in put'
  BY <1>1
<1> QED
  BY <1>5, <1>6 DEF Register!Next

\* The server's row implements the last-write-wins register: in whatever order the
\* machines put their versions, and whatever fails, it holds a greatest one of them,
\* and it is replaced by nothing but a greater one (sqlite.ts, toneWriteWins).
THEOREM RowIsARegister ==
  ASSUME NumberedHash
  PROVE  Spec => LastWriteWinsSpec
<1>1. Init => Register!Init
  BY DEF Init, SyncInit, Register!Init
<1>2. Typed /\ Served /\ [Next]_vars
        => [Register!Next]_<<put, IF server = NoFile THEN {} ELSE {server}>>
  <2>1. ASSUME Typed, Served, NEW m \in Machines, PassStep(m)
        PROVE  Register!Next \/ UNCHANGED <<put, server>>
    BY <2>1, PutServedIsPut, PassMoves
  <2>2. ASSUME RowKept PROVE UNCHANGED <<put, server>>
    BY <2>2 DEF RowKept
  <2> QED
    BY <2>1, <2>2, RowSteps
<1>3. Init => Typed /\ Served
  BY TypedInit, ServedInit
<1>4. Typed /\ Served /\ [Next]_vars => (Typed /\ Served)'
  BY TypedNext, ServedNext
<1> QED
  BY <1>1, <1>2, <1>3, <1>4, PTL DEF Spec, LastWriteWinsSpec, Register!Spec

-----------------------------------------------------------------------------
(* What a pass does to the file of its machine.                            *)

\* A call has met a pass of its machine, or the file was edited by hand or by a crash.
Meddled == crossed \intersect {"sync", "hand", "crash"} # {}

LEMMA CrossedGrows ==
  ASSUME [Next]_vars
  PROVE  crossed \subseteq crossed'
<1>1. ASSUME NEW m \in Machines,
             \/ LearnStarts(m) \/ \E id \in DOMAIN entries : Revert(m, id)
             \/ PassStep(m) \/ Crash(m) \/ HandEdit(m)
      PROVE  crossed \subseteq crossed'
  BY <1>1 DEF LearnStarts, Revert, PassStep, PassStarts, PassGoesOn, PassFails, Crash, HandEdit,
              Post, Fault
<1>2. ASSUME NEW k \in Slots,
             \/ LessonComes(k) \/ EntryCreated(k) \/ Written(k) \/ RolledBack(k)
             \/ Flagged(k) \/ Marked(k) \/ CallFails(k)
      PROVE  crossed \subseteq crossed'
  BY <1>2 DEF LessonComes, EntryCreated, Written, RolledBack, Flagged, Marked, CallFails, Fault
<1>3. CASE Tick \/ UNCHANGED vars
  BY <1>3 DEF Tick, vars, learnVars
<1> QED
  BY <1>1, <1>2, <1>3, Steps

\* What the steps of a call do to the machines that are busy.
LEMMA PostBusy ==
  ASSUME Typed, NEW call, Post(call)
  PROVE  /\ \A o \in Machines : Busy(o)' => Busy(o) \/ o = call.at.machine
         /\ Busy(call.at.machine) => "calls" \in crossed'
         /\ Syncing(call.at.machine) => "sync" \in crossed'
<1>1. \A o \in Machines : Busy(o)' => Busy(o) \/ o = call.at.machine
  BY PostIs DEF Busy
<1> QED
  BY <1>1 DEF Post

LEMMA GoesBusy ==
  ASSUME Typed, NEW k \in Slots, NEW call, calls[k] # Free, call.at = calls[k].at, Goes(k, call)
  PROVE  \A o \in Machines : Busy(o)' => Busy(o)
BY GoesIs DEF Busy

LEMMA EndsBusy ==
  ASSUME Typed, NEW k \in Slots, Ends(k)
  PROVE  \A o \in Machines : Busy(o)' => Busy(o)
BY EndsIs DEF Busy

\* A step of a call, or of the clock, among passes that nothing meddles with.
Quiet ==
  /\ UNCHANGED <<server, put, pass>>
  /\ \A m \in Machines :
       /\ Syncing(m) => ~Busy(m)' /\ Local(m)' = Local(m)
       /\ Local(m)' # Local(m) => index'[m] # NoEntry

\* No machine is busy while it syncs.
Apart == \A m \in Machines : Syncing(m) => ~Busy(m)

\* A call's write, as the others see it.
LEMMA StoreQuiet ==
  ASSUME Typed, NEW m \in Machines, NEW v \in Version, Real(v), Store(m, v), ~Syncing(m),
         UNCHANGED <<server, put, pass>>,
         \A o \in Machines : Syncing(o) => ~Busy(o)'
  PROVE  Quiet
<1>1. /\ Local(m)' = v /\ index'[m] = EntryOf(v)
      /\ \A o \in Machines : o # m => Local(o)' = Local(o)
  BY StoreIs DEF Typed, SyncTyped
<1> QED
  BY <1>1 DEF Quiet, Real

LEMMA KeepsQuiet ==
  ASSUME UNCHANGED <<file, index, server, put, pass>>,
         \A o \in Machines : Syncing(o) => ~Busy(o)'
  PROVE  Quiet
BY DEF Quiet, Local

LEMMA QuietSteps ==
  ASSUME NumberedHash, Typed, Apart, [Next]_vars
  PROVE  Meddled' \/ Quiet \/ \E m \in Machines : PassStep(m)
<1>1. ASSUME NEW m \in Machines, LearnStarts(m) PROVE Meddled' \/ Quiet
  <2> DEFINE call == [kind |-> "learn", stage |-> "model",
                      at |-> [machine |-> m, time |-> LearnTime(m)]]
  <2>1. Post(call) /\ UNCHANGED <<file, index, server, put, pass>>
    BY <1>1 DEF LearnStarts, syncVars
  <2>2. call.at.machine = m
    OBVIOUS
  <2> HIDE DEF call
  <2>3. \/ Meddled'
        \/ ~Syncing(m) /\ \A o \in Machines : Busy(o)' => Busy(o) \/ o = m
    BY <2>1, <2>2, PostBusy DEF Meddled
  <2> QED
    BY <2>1, <2>3, KeepsQuiet DEF Apart
<1>2. ASSUME NEW m \in Machines, NEW id \in DOMAIN entries, Revert(m, id)
      PROVE  Meddled' \/ Quiet
  <2> DEFINE call == [kind |-> "revert", stage |-> "flag", id |-> id,
                      at |-> [machine |-> m, time |-> Clock(m)]]
             v == Edited(Restored(m, id), Clock(m))
  <2>1. /\ MayRevert(m, id) /\ Store(m, v) /\ Post(call) /\ UNCHANGED <<server, put, pass>>
    BY <1>2 DEF Revert
  <2>2. call.at.machine = m
    OBVIOUS
  <2>3. Clock(m) \in Nat /\ Clock(m) > 0
    BY ClockIs DEF Typed, LearnTyped
  <2>4. v \in Version /\ Real(v)
    BY <2>1, <2>3, MayRevertIs, EditedIs, EditedIsReal
  <2> HIDE DEF call, v
  <2>5. \/ Meddled'
        \/ ~Syncing(m) /\ \A o \in Machines : Busy(o)' => Busy(o) \/ o = m
    BY <2>1, <2>2, PostBusy DEF Meddled
  <2> QED
    BY <2>1, <2>4, <2>5, StoreQuiet DEF Apart
<1>3. ASSUME NEW m \in Machines, Crash(m) \/ HandEdit(m) PROVE Meddled'
  BY <1>3 DEF Crash, HandEdit, Fault, Meddled
<1>4. ASSUME NEW k \in Slots, Written(k) PROVE Quiet
  <2> DEFINE c == calls[k]
             m == c.at.machine
             v == Edited(Append(c.before, c.id), c.at.time)
  <2>1. At(k, "learn", "write") /\ Store(m, v) /\ Ends(k) /\ UNCHANGED <<server, put, pass>>
    BY <1>4 DEF Written
  <2>2. /\ c # Free /\ m \in Machines /\ v \in Version /\ c.at.time > 0 /\ c \in CallState
    BY <2>1, WrittenIs
  <2>3. Real(v)
    BY <2>2, CallKinds, EditedIsReal
  <2>4. ~Syncing(m) /\ \A o \in Machines : Syncing(o) => ~Busy(o)'
    BY <2>1, <2>2, EndsBusy DEF Apart, Busy
  <2> HIDE DEF v, m
  <2> QED
    BY <2>1, <2>2, <2>3, <2>4, StoreQuiet
<1>5. ASSUME NEW k \in Slots, RolledBack(k) PROVE Quiet
  <2> DEFINE c == calls[k]
             m == c.at.machine
             v == Edited(c.before, c.at.time)
  <2>1. At(k, "learn", "write") /\ Store(m, v) /\ Ends(k) /\ UNCHANGED <<server, put, pass>>
    BY <1>5 DEF RolledBack
  <2>2. /\ c # Free /\ m \in Machines /\ v \in Version /\ c.at.time > 0 /\ c \in CallState
    BY <2>1, WrittenIs
  <2>3. Real(v)
    BY <2>2, CallKinds, EditedIsReal
  <2>4. ~Syncing(m) /\ \A o \in Machines : Syncing(o) => ~Busy(o)'
    BY <2>1, <2>2, EndsBusy DEF Apart, Busy
  <2> HIDE DEF v, m
  <2> QED
    BY <2>1, <2>2, <2>3, <2>4, StoreQuiet
<1>6. ASSUME NEW k \in Slots, LessonComes(k) \/ EntryCreated(k) \/ Flagged(k) PROVE Quiet
  <2>1. PICK call : Goes(k, call) /\ call.at = calls[k].at
    <3>1. CASE LessonComes(k)
      BY <3>1 DEF LessonComes
    <3>2. CASE EntryCreated(k)
      BY <3>2 DEF EntryCreated
    <3>3. CASE Flagged(k)
      <4>1. calls[k] \in CallState /\ calls[k].kind = "revert" /\ calls[k] # Free
        BY <3>3 DEF Flagged, At, Typed, LearnTyped, Free
      <4>2. [calls[k] EXCEPT !.stage = "mark"].at = calls[k].at
        BY <4>1 DEF CallState, Free
      <4> QED
        BY <3>3, <4>2 DEF Flagged
    <3> QED
      BY <1>6, <3>1, <3>2, <3>3
  <2>2. calls[k] # Free /\ UNCHANGED <<file, index, server, put, pass>>
    BY <1>6 DEF LessonComes, EntryCreated, Flagged, At, Free, syncVars
  <2> QED
    BY <2>1, <2>2, GoesBusy, KeepsQuiet DEF Apart
<1>7. ASSUME NEW k \in Slots, Marked(k) \/ CallFails(k) PROVE Quiet
  <2>1. Ends(k) /\ UNCHANGED <<file, index, server, put, pass>>
    BY <1>7 DEF Marked, CallFails, syncVars
  <2> QED
    BY <2>1, EndsBusy, KeepsQuiet DEF Apart
<1>8. CASE Tick \/ UNCHANGED vars
  <2>1. UNCHANGED <<file, index, server, put, pass, calls>>
    BY <1>8 DEF Tick, vars, syncVars, learnVars
  <2> QED
    BY <2>1, KeepsQuiet DEF Apart, Busy
<1> QED
  BY <1>1, <1>2, <1>3, <1>4, <1>5, <1>6, <1>7, <1>8, Steps

\* Unless something meddled: what a machine has put is what it has, and the answer to it
\* is not beaten by that.
Undisturbed ==
  ~Meddled =>
    /\ Apart
    /\ \A m \in Machines :
         /\ pass[m].stage \in {"put", "adopt"} => pass[m].sent = Local(m)
         /\ pass[m].stage = "adopt" => ~Beats(pass[m].sent, pass[m].got)

LEMMA UndisturbedInit == Init => Undisturbed
BY DEF Init, SyncInit, Undisturbed, Apart, Syncing, Idle

\* The file of its machine after a step of a pass.
LEMMA PassStores ==
  ASSUME Typed, Served, NEW m \in Machines, PassStep(m)
  PROVE  /\ \A o \in Machines : o # m => Local(o)' = Local(o)
         /\ \/ UNCHANGED <<file, index>>
            \/ pass[m].stage = "adopt" /\ Local(m)' = pass[m].got /\ index'[m] # NoEntry
            \/ /\ pass[m].stage = "pull" /\ Local(m)' = pass[m].got /\ index'[m] # NoEntry
               /\ DecideLww(index[m], pass[m].got) = "pull"
<1>1. CASE Adopt(m)
  <2>1. pass[m].got \in Version /\ Real(pass[m].got) /\ Store(m, pass[m].got)
        /\ pass[m].stage = "adopt"
    BY <1>1, PassKinds DEF Adopt, Typed, SyncTyped, Served, Passing, Arbiter
  <2> QED
    BY <2>1, StoreIs DEF Typed, SyncTyped, Real
<1>2. CASE Pull(m)
  <2>1. pass[m].stage = "pull" /\ pass[m].got \in Version
    BY <1>2, PassKinds DEF Pull, Typed, SyncTyped
  <2>2. CASE pass[m].got # NoFile /\ Store(m, pass[m].got)
             /\ DecideLww(index[m], pass[m].got) = "pull"
    <3>1. Real(pass[m].got)
      BY <2>1, <2>2 DEF Served, Passing, Arbiter
    <3> QED
      BY <2>1, <2>2, <3>1, StoreIs DEF Typed, SyncTyped, Real
  <2>3. CASE UNCHANGED <<file, index>>
    BY <2>3 DEF Local
  <2> QED
    BY <1>2, <2>2, <2>3 DEF Pull
<1>3. CASE SyncStarts(m) \/ PutServed(m) \/ ListServed(m) \/ SyncFails(m)
  BY <1>3 DEF SyncStarts, PutServed, ListServed, SyncFails, Local
<1> QED
  BY <1>1, <1>2, <1>3 DEF PassStep, PassStarts, PassGoesOn, PassFails

\* A pass starts on a machine that is busy: they have met.
LEMMA PassMeets ==
  ASSUME Typed, NEW m \in Machines, PassStep(m), ~Syncing(m)
  PROVE  /\ Busy(m) => Meddled'
         /\ (\E o \in Machines : Syncing(o)) => "passes" \in crossed'
<1>1. PassStarts(m)
  BY DEF PassStep, PassGoesOn, PassFails, PutServed, Adopt, ListServed, Pull, SyncFails,
         Syncing, Idle
<1> QED
  BY <1>1 DEF PassStarts, Meddled

LEMMA UndisturbedNext ==
  ASSUME NumberedHash, Typed, Typed', Served, Undisturbed, [Next]_vars
  PROVE  Undisturbed'
<1> SUFFICES ASSUME ~Meddled'
             PROVE  /\ Apart'
                    /\ \A m \in Machines :
                         /\ pass'[m].stage \in {"put", "adopt"} => pass'[m].sent = Local(m)'
                         /\ pass'[m].stage = "adopt" => ~Beats(pass'[m].sent, pass'[m].got)
  BY DEF Undisturbed
<1>1. /\ Apart
      /\ \A m \in Machines :
           /\ pass[m].stage \in {"put", "adopt"} => pass[m].sent = Local(m)
           /\ pass[m].stage = "adopt" => ~Beats(pass[m].sent, pass[m].got)
  BY CrossedGrows DEF Undisturbed, Meddled
<1>2. CASE Quiet
  <2>1. \A m \in Machines : pass'[m] = pass[m]
    BY <1>2 DEF Quiet
  <2>2. \A m \in Machines : pass[m].stage \in {"put", "adopt"} => Syncing(m)
    BY DEF Syncing, Idle
  <2>3. Apart'
    BY <1>2, <2>1 DEF Quiet, Apart, Syncing
  <2> QED
    BY <1>1, <1>2, <2>1, <2>2, <2>3 DEF Quiet
<1>3. ASSUME NEW m \in Machines, PassStep(m)
      PROVE  /\ Apart'
             /\ \A o \in Machines :
                  /\ pass'[o].stage \in {"put", "adopt"} => pass'[o].sent = Local(o)'
                  /\ pass'[o].stage = "adopt" => ~Beats(pass'[o].sent, pass'[o].got)
  <2>1. UNCHANGED calls
    BY <1>3, PassStepTyped
  <2>2. ~Busy(m)
    BY <1>1, <1>3, PassMeets DEF Apart
  <2>3. \A o \in Machines : o # m => pass'[o] = pass[o] /\ Local(o)' = Local(o)
    BY <1>3, OthersStand, PassStores
  <2>4. Apart'
    BY <1>1, <2>1, <2>2, <2>3 DEF Apart, Busy, Syncing
  <2>5. /\ pass'[m].stage \in {"put", "adopt"} => pass'[m].sent = Local(m)'
        /\ pass'[m].stage = "adopt" => ~Beats(pass'[m].sent, pass'[m].got)
    <3>1. CASE PutServed(m)
      <4>1. /\ pass'[m].sent = pass[m].sent /\ pass'[m].got = server'
            /\ ~Beats(pass[m].sent, server')
        BY <3>1, <1>3, PutServedRow
      <4>2. pass[m].stage = "put" /\ Local(m)' = Local(m)
        BY <3>1 DEF PutServed, Local
      <4> QED
        BY <1>1, <4>1, <4>2
    <3>2. CASE ~PutServed(m)
      <4>1. \/ pass'[m].stage \notin {"put", "adopt"}
            \/ pass[m] = Idle /\ pass'[m] = [stage |-> "put", sent |-> Local(m)]
        <5>1. \/ pass'[m] = Idle \/ pass'[m].stage = "list"
              \/ pass[m] = Idle /\ pass'[m] = [stage |-> "put", sent |-> Local(m)]
              \/ pass'[m] = [stage |-> "pull", verdict |-> pass[m].verdict, got |-> server]
          BY <1>3, <3>2, PassMoves
        <5>2. /\ Idle.stage = "idle"
              /\ [stage |-> "pull", verdict |-> pass[m].verdict, got |-> server].stage = "pull"
          BY DEF Idle
        <5> QED
          BY <5>1, <5>2
      <4>2. CASE pass[m] = Idle /\ pass'[m] = [stage |-> "put", sent |-> Local(m)]
        <5>1. Local(m)' = Local(m)
          BY <1>3, <4>2, PassStores DEF Idle, Local
        <5> QED
          BY <4>2, <5>1
      <4> QED
        BY <4>1, <4>2
    <3> QED
      BY <3>1, <3>2
  <2> QED
    BY <1>1, <2>3, <2>4, <2>5
<1> QED
  BY <1>1, <1>2, <1>3, QuietSteps

LEMMA NoEntryBeatsNothing ==
  ASSUME Typed, NEW m \in Machines, NEW v \in Version, index[m] = NoEntry
  PROVE  ~Beats(Local(m), v)
BY DEF Local, NoEntry, Beats, Version

\* What the sync does to a machine's file, in one step.
LEMMA KeepsEdits ==
  ASSUME NumberedHash, Typed, Served, Undisturbed, [Next]_vars,
         NEW m \in Machines, pass'[m] # pass[m], Stored(m)' # Stored(m), ~Meddled
  PROVE  ~Beats(Local(m), Local(m)')
<1>1. /\ Apart
      /\ pass[m].stage = "adopt" =>
           pass[m].sent = Local(m) /\ ~Beats(pass[m].sent, pass[m].got)
  BY DEF Undisturbed
<1>2. ASSUME NEW o \in Machines, PassStep(o)
      PROVE  ~Beats(Local(m), Local(m)')
  <2>1. o = m
    BY <1>2, OthersStand
  <2>2. \/ pass[m].stage = "adopt" /\ Local(m)' = pass[m].got
        \/ /\ pass[m].stage = "pull" /\ Local(m)' = pass[m].got
           /\ DecideLww(index[m], pass[m].got) = "pull"
    BY <1>2, <2>1, PassStores DEF Stored
  <2>3. CASE pass[m].stage = "adopt" /\ Local(m)' = pass[m].got
    BY <1>1, <2>3
  <2>4. CASE /\ pass[m].stage = "pull" /\ Local(m)' = pass[m].got
             /\ DecideLww(index[m], pass[m].got) = "pull"
    <3>1. pass[m].got \in Version /\ Local(m) \in Version
      BY <2>4, PassKinds, LocalIs DEF Typed, SyncTyped
    <3>2. index[m] = NoEntry \/ Beats(pass[m].got, index[m])
      BY <2>4 DEF DecideLww
    <3>3. CASE index[m] = NoEntry
      BY <2>4, <3>1, <3>3, NoEntryBeatsNothing
    <3>4. CASE Beats(pass[m].got, index[m])
      <4>1. Beats(pass[m].got, Local(m))
        BY <3>4 DEF Beats, Local
      <4> QED
        BY <2>4, <3>1, <4>1, Order
    <3> QED
      BY <3>2, <3>3, <3>4
  <2> QED
    BY <2>2, <2>3, <2>4
<1>3. CASE \A o \in Machines : ~PassStep(o)
  <2>1. PICK o \in Machines : Crash(o)
    <3>1. ASSUME NEW o \in Machines,
                 LearnStarts(o) \/ (\E id \in DOMAIN entries : Revert(o, id)) \/ HandEdit(o)
          PROVE  UNCHANGED pass
      BY <3>1 DEF LearnStarts, Revert, HandEdit, syncVars
    <3>2. ASSUME NEW k \in Slots,
                 \/ LessonComes(k) \/ EntryCreated(k) \/ Written(k) \/ RolledBack(k)
                 \/ Flagged(k) \/ Marked(k) \/ CallFails(k)
          PROVE  UNCHANGED pass
      BY <3>2 DEF LessonComes, EntryCreated, Written, RolledBack, Flagged, Marked, CallFails,
                  syncVars
    <3>3. ASSUME Tick \/ UNCHANGED vars PROVE UNCHANGED pass
      BY <3>3 DEF Tick, vars, syncVars
    <3> QED
      BY <1>3, <3>1, <3>2, <3>3, Steps
  <2>2. o = m /\ Syncing(m)
    BY <2>1 DEF Crash, Typed, SyncTyped, Syncing
  <2>3. ~Busy(m)
    BY <1>1, <2>2 DEF Apart
  <2>4. UNCHANGED <<file, index>>
    <3>1. \A k \in Slots : ~(At(k, "learn", "write") /\ calls[k].at.machine = m)
      BY <2>3 DEF Busy, At, Free
    <3> QED
      BY <2>1, <2>2, <3>1 DEF Crash
  <2> QED
    BY <2>4 DEF Stored
<1> QED
  BY <1>2, <1>3

\* A sync pass replaces what the user has by nothing that loses to it, on any number of
\* machines with any clocks, unless a call has met the pass, a crash came between two
\* writes or the user wrote the Markdown in an editor (tone/sync.ts, lww.ts).
THEOREM SyncKeepsEditsHolds ==
  ASSUME NumberedHash
  PROVE  Spec => SyncKeepsEdits
<1>1. Init => Typed /\ Served /\ Undisturbed
  BY TypedInit, ServedInit, UndisturbedInit
<1>2. Typed /\ Served /\ Undisturbed /\ [Next]_vars => (Typed /\ Served /\ Undisturbed)'
  BY TypedNext, ServedNext, UndisturbedNext
<1>3. Typed /\ Served /\ Undisturbed /\ [Next]_vars =>
        [\A m \in Machines :
           pass'[m] # pass[m] /\ Stored(m)' # Stored(m)
             /\ crossed \intersect {"sync", "hand", "crash"} = {}
           => ~Beats(Local(m), Local(m)')]_vars
  BY KeepsEdits DEF Meddled
<1> QED
  BY <1>1, <1>2, <1>3, PTL DEF Spec, SyncKeepsEdits

\* Unless something meddled or two passes have met: only one machine syncs, the answers it
\* has are the server's row, and after the first half it has that row, or no entry at all.
Alone ==
  (~Meddled /\ "passes" \notin crossed) =>
    /\ \A m, o \in Machines : Syncing(m) /\ Syncing(o) => m = o
    /\ \A m \in Machines :
         /\ index[m] = NoEntry => file[m] = <<>>
         /\ pass[m].stage \in {"adopt", "pull"} => pass[m].got = server
         /\ pass[m].stage \in {"list", "pull"} =>
              Local(m) = server \/ (pass[m].verdict = "none" /\ index[m] = NoEntry)

LEMMA AloneInit == Init => Alone
BY DEF Init, SyncInit, Alone, Syncing, Idle

\* How a pass comes to its second half, and to its last step.
LEMMA PassLists ==
  ASSUME Typed, Served, NEW m \in Machines, PassStep(m)
  PROVE  /\ pass'[m].stage = "list" =>
              \/ pass[m].stage = "adopt" /\ Local(m)' = pass[m].got
              \/ UNCHANGED <<file, index>> /\ index[m] = NoEntry /\ pass'[m].verdict = "none"
         /\ pass'[m].stage = "pull" =>
              /\ UNCHANGED <<file, index>> /\ pass[m].stage = "list"
              /\ pass'[m].verdict = pass[m].verdict /\ pass'[m].got = server
         /\ pass'[m].stage = "adopt" => pass'[m].got = server'
         /\ pass'[m].stage \in {"list", "pull"} => UNCHANGED server
<1>1. CASE SyncStarts(m)
  BY <1>1 DEF SyncStarts, Typed, SyncTyped
<1>2. CASE PutServed(m)
  BY <1>2 DEF PutServed, Typed, SyncTyped
<1>3. CASE Adopt(m)
  <2>1. pass[m].stage = "adopt" /\ pass'[m].stage = "list" /\ UNCHANGED server
    BY <1>3 DEF Adopt, Typed, SyncTyped
  <2>2. pass[m].got \in Version /\ Store(m, pass[m].got)
    BY <1>3, PassKinds DEF Adopt, Typed, SyncTyped
  <2>3. Local(m)' = pass[m].got
    BY <2>2, StoreIs DEF Typed, SyncTyped
  <2> QED
    BY <2>1, <2>3
<1>4. CASE ListServed(m)
  BY <1>4 DEF ListServed, Typed, SyncTyped
<1>5. CASE Pull(m) \/ SyncFails(m)
  <2>1. pass'[m] = Idle
    BY <1>5 DEF Pull, SyncFails, Typed, SyncTyped
  <2> QED
    BY <2>1 DEF Idle
<1> QED
  BY <1>1, <1>2, <1>3, <1>4, <1>5 DEF PassStep, PassStarts, PassGoesOn, PassFails

\* The entry of a machine is part of what it has.
LEMMA SameLocal ==
  ASSUME Typed, Typed', NEW m \in Machines, Local(m)' = Local(m)
  PROVE  file'[m] = file[m] /\ index'[m] = index[m]
<1>1. index[m] \in [hash : Nat, at : Nat] /\ index'[m] \in [hash : Nat, at : Nat]
  BY DEF Typed, SyncTyped
<1>2. /\ Local(m).content = file[m] /\ Local(m)'.content = file'[m]
      /\ Local(m).hash = index[m].hash /\ Local(m)'.hash = index'[m].hash
      /\ Local(m).at = index[m].at /\ Local(m)'.at = index'[m].at
  BY DEF Local
<1> QED
  BY <1>1, <1>2

LEMMA AloneNext ==
  ASSUME NumberedHash, Typed, Typed', Served, Undisturbed, Alone, [Next]_vars
  PROVE  Alone'
<1> DEFINE Halfway(m) ==
             /\ index[m] = NoEntry => file[m] = <<>>
             /\ pass[m].stage \in {"adopt", "pull"} => pass[m].got = server
             /\ pass[m].stage \in {"list", "pull"} =>
                  Local(m) = server \/ (pass[m].verdict = "none" /\ index[m] = NoEntry)
<1> SUFFICES ASSUME ~Meddled', "passes" \notin crossed'
             PROVE  /\ \A m, o \in Machines : Syncing(m)' /\ Syncing(o)' => m = o
                    /\ \A m \in Machines : Halfway(m)'
  BY DEF Alone
<1>1. /\ \A m, o \in Machines : Syncing(m) /\ Syncing(o) => m = o
      /\ \A m \in Machines : Halfway(m)
      /\ Apart
  BY CrossedGrows DEF Alone, Meddled, Undisturbed
<1>2. CASE Quiet
  <2>1. UNCHANGED <<server, pass>>
    BY <1>2 DEF Quiet
  <2>2. ASSUME NEW m \in Machines PROVE Halfway(m)'
    <3>1. Halfway(m)
      BY <1>1
    <3>2. CASE Local(m)' = Local(m)
      <4>1. file'[m] = file[m] /\ index'[m] = index[m]
        BY <3>2, SameLocal
      <4> QED
        BY <2>1, <3>1, <3>2, <4>1
    <3>3. CASE Local(m)' # Local(m)
      <4>1. index'[m] # NoEntry /\ ~Syncing(m)
        BY <1>2, <3>3 DEF Quiet
      <4>2. pass'[m].stage = "idle"
        BY <2>1, <4>1 DEF Syncing, Idle
      <4> QED
        BY <4>1, <4>2
    <3> QED
      BY <3>2, <3>3
  <2> QED
    BY <1>1, <2>1, <2>2 DEF Syncing
<1>3. ASSUME NEW m \in Machines, PassStep(m)
      PROVE  /\ \A o, p \in Machines : Syncing(o)' /\ Syncing(p)' => o = p
             /\ \A o \in Machines : Halfway(o)'
  <2>1. \A o \in Machines : o # m => pass'[o] = pass[o] /\ Local(o)' = Local(o)
    BY <1>3, OthersStand, PassStores
  <2>2. \A o \in Machines : o # m => ~Syncing(o)
    BY <1>1, <1>3, PassMeets
  <2>3. \A o \in Machines : o # m => ~Syncing(o)'
    BY <2>1, <2>2 DEF Syncing
  <2>4. ASSUME NEW o \in Machines, o # m PROVE Halfway(o)'
    <3>1. file'[o] = file[o] /\ index'[o] = index[o]
      BY <2>1, <2>4, SameLocal
    <3>2. pass'[o].stage = "idle"
      BY <2>3, <2>4 DEF Syncing, Idle
    <3> QED
      BY <1>1, <2>4, <3>1, <3>2
  <2>5. Halfway(m)
    BY <1>1
  <2>6. index'[m] = NoEntry => file'[m] = <<>>
    BY <1>3, <2>5, PassStores
  <2>7. pass'[m].stage \in {"adopt", "pull"} => pass'[m].got = server'
    BY <1>3, PassLists
  <2>8. pass'[m].stage = "list" =>
          Local(m)' = server' \/ (pass'[m].verdict = "none" /\ index'[m] = NoEntry)
    BY <1>3, <2>5, PassLists
  <2>9. pass'[m].stage = "pull" =>
          Local(m)' = server' \/ (pass'[m].verdict = "none" /\ index'[m] = NoEntry)
    <3> SUFFICES ASSUME pass'[m].stage = "pull"
                 PROVE  Local(m)' = server' \/ (pass'[m].verdict = "none" /\ index'[m] = NoEntry)
      OBVIOUS
    <3>1. /\ UNCHANGED <<file, index>> /\ pass[m].stage = "list" /\ UNCHANGED server
          /\ pass'[m].verdict = pass[m].verdict
      BY <1>3, PassLists
    <3>2. Local(m)' = Local(m)
      BY <3>1 DEF Local
    <3> QED
      BY <2>5, <3>1, <3>2
  <2>10. Halfway(m)'
    BY <2>6, <2>7, <2>8, <2>9
  <2> QED
    BY <2>3, <2>4, <2>10
<1> QED
  BY <1>2, <1>3, QuietSteps, <1>1

\* The last step of a pass.
LEMMA Converges ==
  ASSUME Typed, Served, Alone, [Next]_vars, NEW m \in Machines,
         pass[m].stage = "pull", pass'[m] = Idle, faults' = faults,
         ~Meddled, "passes" \notin crossed
  PROVE  Local(m)' = server
<1>1. /\ index[m] = NoEntry => file[m] = <<>>
      /\ pass[m].got = server
      /\ Local(m) = server \/ (pass[m].verdict = "none" /\ index[m] = NoEntry)
  BY DEF Alone
<1>2. faults \in Nat /\ faults + 1 # faults
  BY DEF Typed, LearnTyped
<1>3. Pull(m)
  <2>1. pass'[m] # pass[m]
    BY DEF Idle
  <2>2. ASSUME NEW o \in Machines, Crash(o) PROVE FALSE
    BY <1>2, <2>2 DEF Crash, Fault
  <2>3. ASSUME NEW o \in Machines,
               LearnStarts(o) \/ (\E id \in DOMAIN entries : Revert(o, id)) \/ HandEdit(o)
        PROVE  FALSE
    BY <2>1, <2>3 DEF LearnStarts, Revert, HandEdit, syncVars
  <2>4. ASSUME NEW k \in Slots,
               \/ LessonComes(k) \/ EntryCreated(k) \/ Written(k) \/ RolledBack(k)
               \/ Flagged(k) \/ Marked(k) \/ CallFails(k)
        PROVE  FALSE
    BY <2>1, <2>4 DEF LessonComes, EntryCreated, Written, RolledBack, Flagged, Marked, CallFails,
                syncVars
  <2>5. ASSUME Tick \/ UNCHANGED vars PROVE FALSE
    BY <2>1, <2>5 DEF Tick, vars, syncVars
  <2>6. PICK o \in Machines : PassStep(o)
    BY <2>2, <2>3, <2>4, <2>5, Steps
  <2>7. o = m
    BY <2>1, <2>6, OthersStand
  <2>8. ~PassFails(m)
    BY <1>2 DEF PassFails, Fault
  <2> QED
    BY <2>6, <2>7, <2>8 DEF PassStep, PassStarts, PassGoesOn, SyncStarts, PutServed, Adopt,
                            ListServed, Idle
<1>4. server \in Version
  BY DEF Typed, SyncTyped
<1>5. CASE Store(m, server)
  BY <1>4, <1>5, StoreIs DEF Typed, SyncTyped
<1>6. CASE UNCHANGED <<file, index>>
             /\ ~(server # NoFile /\ pass[m].verdict = "none"
                    /\ DecideLww(index[m], server) = "pull")
  <2>1. Local(m)' = Local(m)
    BY <1>6 DEF Local
  <2>2. CASE pass[m].verdict = "none" /\ index[m] = NoEntry
    <3>1. DecideLww(index[m], server) = "pull"
      BY <2>2 DEF DecideLww
    <3>2. server = NoFile
      BY <1>6, <2>2, <3>1
    <3> QED
      BY <1>1, <2>1, <2>2, <3>2 DEF Local, NoEntry, NoFile
  <2> QED
    BY <1>1, <2>1, <2>2
<1> QED
  BY <1>1, <1>3, <1>5, <1>6 DEF Pull

\* A pass that ends without a failure leaves the machine with the row that the server has,
\* unless a call or another machine's pass has met it, a crash came between two writes or
\* the user wrote the Markdown in an editor (tone/sync.ts).
THEOREM PassConvergesHolds ==
  ASSUME NumberedHash
  PROVE  Spec => PassConverges
<1>1. Init => Typed /\ Served /\ Undisturbed /\ Alone
  BY TypedInit, ServedInit, UndisturbedInit, AloneInit
<1>2. Typed /\ Served /\ Undisturbed /\ Alone /\ [Next]_vars
        => (Typed /\ Served /\ Undisturbed /\ Alone)'
  BY TypedNext, ServedNext, UndisturbedNext, AloneNext
<1>3. Typed /\ Served /\ Undisturbed /\ Alone /\ [Next]_vars =>
        [\A m \in Machines :
           pass[m].stage = "pull" /\ pass'[m] = Idle /\ faults' = faults
             /\ crossed \intersect {"sync", "passes", "hand", "crash"} = {}
           => Local(m)' = server]_vars
  BY Converges DEF Meddled
<1> QED
  BY <1>1, <1>2, <1>3, PTL DEF Spec, PassConverges

-----------------------------------------------------------------------------
(* The file and the log.                                                   *)

\* Nothing has interfered with a call of a machine.
Tidy == crossed \subseteq {"call", "log", "passes"}

OneCall ==
  \A k, l \in Slots :
    calls[k] # Free /\ calls[l] # Free /\ calls[k].at.machine = calls[l].at.machine => k = l

\* A lesson is going to be appended to what the file still is; a lesson that is flagged or
\* marked has been taken out.
Carries(k) ==
  /\ calls[k].kind = "learn" /\ calls[k].stage \in {"record", "write"} =>
       calls[k].before = Read(calls[k].at.machine)
  /\ calls[k].kind = "revert" => calls[k].id \in undone

Carried == \A k \in Slots : Carries(k)

Listed(m) == Lists(Read(m), log[m], Standing(log[m]))

\* The lessons before the n-th of a log that no revert has taken out.
Before(records, n) == {k \in Standing(records) : k < n}

\* What a record would restore is the lessons before it that stand; a record that is
\* marked has been taken out.
Restorable(m) ==
  \A n \in DOMAIN log[m] :
    IF log[m][n].reverted THEN log[m][n].id \in undone
    ELSE Lists(log[m][n].before, log[m], Before(log[m], n))

Logged ==
  Tidy => /\ OneCall /\ Carried
          /\ \A m \in Machines : Listed(m) /\ Restorable(m)

\* A content lists the same places of any log with the same ids there.
LEMMA ListsSame ==
  ASSUME NEW content, NEW r, NEW s, NEW places,
         \A n \in places : r[n].id = s[n].id, Lists(content, r, places)
  PROVE  Lists(content, s, places)
BY ZenonT(60) DEF Lists

\* A lesson more in the content and in the log.
LEMMA ListsMore ==
  ASSUME NEW content \in Content, NEW r, NEW s, NEW places \in SUBSET Nat, NEW id \in Nat,
         NEW last \in Nat, Lists(content, r, places),
         \A n \in places : n < last /\ r[n].id = s[n].id /\ r[n].id # id,
         s[last].id = id
  PROVE  Lists(Append(content, id), s, places \union {last})
<1> DEFINE more == Append(content, id)
           end == Len(content) + 1
<1>1. /\ end \in Nat /\ DOMAIN more = DOMAIN content \union {end} /\ more[end] = id
      /\ \A i \in DOMAIN content : i \in Nat /\ i < end /\ more[i] = content[i]
  BY AppendIs DEF Content
<1> HIDE DEF more, end
<1>2. /\ \A i \in DOMAIN content : \E n \in places : r[n].id = content[i]
      /\ \A n \in places : \E i \in DOMAIN content : content[i] = r[n].id
      /\ \A i, j \in DOMAIN content : \A k, n \in places :
           i < j /\ content[i] = r[k].id /\ content[j] = r[n].id => k < n
  BY DEF Lists
<1>3. \A i \in DOMAIN content : content[i] # id
  BY <1>2
<1>4. \A i \in DOMAIN more : \E n \in places \union {last} : s[n].id = more[i]
  BY <1>1, <1>2
<1>5. \A n \in places \union {last} : \E i \in DOMAIN more : more[i] = s[n].id
  BY <1>1, <1>2
<1>6. ASSUME NEW i \in DOMAIN more, NEW j \in DOMAIN more,
             NEW k \in places \union {last}, NEW n \in places \union {last},
             i < j, more[i] = s[k].id, more[j] = s[n].id
      PROVE  k < n
  <2>1. i \in DOMAIN content /\ more[i] = content[i]
    BY <1>1, <1>6
  <2>2. k \in places /\ content[i] = r[k].id
    BY <1>3, <1>6, <2>1
  <2>3. CASE j \in DOMAIN content
    <3>1. n \in places /\ content[j] = r[n].id
      BY <1>1, <1>3, <1>6, <2>3
    <3> QED
      BY <1>2, <1>6, <2>1, <2>2, <2>3, <3>1
  <2>4. CASE j = end
    <3>1. n = last
      BY <1>1, <1>6, <2>4
    <3> QED
      BY <2>2, <3>1
  <2> QED
    BY <1>1, <2>3, <2>4
<1>7. Lists(more, s, places \union {last})
  BY <1>4, <1>5, <1>6 DEF Lists
<1> QED
  BY <1>7 DEF more

LEMMA LoggedInit == Init => Logged
<1> SUFFICES ASSUME Init PROVE OneCall /\ Carried /\ \A m \in Machines : Listed(m) /\ Restorable(m)
  BY DEF Logged
<1>1. OneCall /\ Carried
  BY DEF Init, OneCall, Carried, Carries, Free
<1>2. \A m \in Machines : Read(m) = <<>> /\ log[m] = <<>>
  BY DEF Init, SyncInit, Read
<1>3. DOMAIN (<<>>) = {}
  OBVIOUS
<1>4. \A m \in Machines : Listed(m)
  BY <1>2, <1>3 DEF Listed, Lists, Standing
<1>5. \A m \in Machines : Restorable(m)
  BY <1>2, <1>3 DEF Restorable
<1> QED
  BY <1>1, <1>4, <1>5

LEMMA ReadKept ==
  ASSUME UNCHANGED <<file, index>>
  PROVE  \A m \in Machines : Read(m)' = Read(m)
BY DEF Read

\* What a write of a real version leaves to read.
LEMMA StoreRead ==
  ASSUME Typed, NEW m \in Machines, NEW v \in Version, Real(v), Store(m, v)
  PROVE  Read(m)' = v.content /\ \A o \in Machines : o # m => Read(o)' = Read(o)
BY StoreIs DEF Typed, SyncTyped, Real, Read

\* The logs and the files stand.
LEMMA ListedKept ==
  ASSUME NEW m \in Machines, Listed(m), Restorable(m), UNCHANGED undone, log'[m] = log[m],
         Read(m)' = Read(m)
  PROVE  Listed(m)' /\ Restorable(m)'
BY DEF Listed, Restorable, Lists, Standing, Before

\* The calls that stay.
LEMMA CarriesKept ==
  ASSUME Typed, NEW k \in Slots, Carries(k), calls'[k] = calls[k], undone \subseteq undone',
         NEW m,
         \A o \in Machines : o # m => Read(o)' = Read(o),
         calls[k] # Free => calls[k].at.machine # m
  PROVE  Carries(k)'
<1>1. calls[k].kind = "learn" => calls[k] # Free /\ calls[k].at.machine \in Machines
  BY CallKinds DEF Typed, LearnTyped, Free
<1>2. calls[k].kind = "learn" =>
        Read(calls[k].at.machine)' = Read(calls[k].at.machine)
  BY <1>1 DEF Read
<1> QED
  BY <1>2 DEF Carries

\* A call that ends; the only one of its machine, whose file it may have written.
LEMMA EndsCalls ==
  ASSUME Typed, OneCall, Carried, NEW k \in Slots, calls[k] # Free, Ends(k), UNCHANGED undone,
         \A o \in Machines : o # calls[k].at.machine => Read(o)' = Read(o)
  PROVE  OneCall' /\ Carried'
<1>1. calls'[k] = Free /\ \A l \in Slots : l # k => calls'[l] = calls[l]
  BY EndsIs
<1>2. OneCall'
  BY <1>1 DEF OneCall
<1>3. ASSUME NEW l \in Slots PROVE Carries(l)'
  <2>1. CASE l = k
    BY <1>1, <2>1 DEF Carries, Free
  <2>2. CASE l # k
    <3>1. calls[l] # Free => calls[l].at.machine # calls[k].at.machine
      BY <2>2 DEF OneCall
    <3> QED
      BY <1>1, <2>2, <3>1, CarriesKept DEF Carried
  <2> QED
    BY <2>1, <2>2
<1> QED
  BY <1>2, <1>3 DEF Carried

\* A call that goes on, with what it carries.
LEMMA GoesCalls ==
  ASSUME Typed, OneCall, Carried, NEW k \in Slots, calls[k] # Free, NEW call, Goes(k, call),
         call.at = calls[k].at, UNCHANGED <<file, index, undone>>,
         call.kind = "learn" => call.before = Read(call.at.machine),
         call.kind = "revert" => call.id \in undone
  PROVE  OneCall' /\ Carried'
<1>1. calls'[k] = call /\ \A l \in Slots : l # k => calls'[l] = calls[l]
  BY GoesIs
<1>2. OneCall'
  BY <1>1 DEF OneCall
<1>3. ASSUME NEW l \in Slots PROVE Carries(l)'
  <2>1. CASE l = k
    BY <1>1, <2>1 DEF Carries, Read
  <2>2. CASE l # k
    BY <1>1, <2>2 DEF Carries, Carried, Read
  <2> QED
    BY <2>1, <2>2
<1> QED
  BY <1>2, <1>3 DEF Carried

\* A call that starts on a machine that has none, and may write its file.
LEMMA PostCalls ==
  ASSUME Typed, OneCall, Carried, NEW call, Post(call), Tidy', undone \subseteq undone',
         \A o \in Machines : o # call.at.machine => Read(o)' = Read(o),
         call.kind = "learn" => call.stage = "model",
         call.kind = "revert" => call.id \in undone'
  PROVE  OneCall' /\ Carried'
<1>1. ~Busy(call.at.machine)
  BY PostBusy DEF Tidy
<1>2. PICK k \in Slots : /\ calls[k] = Free /\ calls'[k] = call
                         /\ \A l \in Slots : l # k => calls'[l] = calls[l]
  BY PostIs
<1>3. \A l \in Slots : calls[l] # Free => calls[l].at.machine # call.at.machine
  BY <1>1 DEF Busy
<1>4. OneCall'
  BY <1>2, <1>3 DEF OneCall
<1>5. ASSUME NEW l \in Slots PROVE Carries(l)'
  <2>1. CASE l = k
    BY <1>2, <2>1 DEF Carries
  <2>2. CASE l # k
    BY <1>2, <1>3, <2>2, CarriesKept DEF Carried
  <2> QED
    BY <2>1, <2>2
<1> QED
  BY <1>4, <1>5 DEF Carried

\* What the steps keep, when nothing has interfered.
Good == OneCall /\ Carried /\ \A m \in Machines : Listed(m) /\ Restorable(m)

LEMMA WrittenLogged ==
  ASSUME NumberedHash, Typed, Ids, Good, NEW k \in Slots, Written(k)
  PROVE  Good'
<1> DEFINE c == calls[k]
           v == Edited(Append(c.before, c.id), c.at.time)
<1>m. PICK m \in Machines : m = c.at.machine
  BY WrittenIs DEF Written
<1>last. PICK last : last = Len(log[m]) + 1
  OBVIOUS
<1>1. At(k, "learn", "write") /\ Store(m, v) /\ Ends(k) /\ UNCHANGED undone
  BY <1>m DEF Written
<1>2. /\ c # Free /\ m = c.at.machine /\ v \in Version /\ c.at.time > 0 /\ c \in CallState
      /\ c.before \in Content /\ c.id \in Nat
  BY <1>1, <1>m, WrittenIs
<1>3. c.at.time \in Nat /\ c.before = Read(m) /\ OwnEntry(k)
  BY <1>1, <1>2, CallKinds DEF Good, Carried, Carries, At, Ids, Writing
<1>4. Real(v) /\ v.content = Append(c.before, c.id)
  BY <1>2, <1>3, EditedIsReal DEF Edited
<1> HIDE DEF v
<1>5. Read(m)' = Append(Read(m), c.id) /\ \A o \in Machines : o # m => Read(o)' = Read(o)
  BY <1>1, <1>2, <1>3, <1>4, StoreRead
<1>6. OneCall' /\ Carried'
  BY <1>1, <1>2, <1>5, EndsCalls DEF Good
<1>7. /\ last \in Nat /\ DOMAIN log[m] = 1..Len(log[m])
      /\ DOMAIN log'[m] = DOMAIN log[m] \union {last}
      /\ \A n \in DOMAIN log[m] : n < last /\ n # last /\ log'[m][n] = log[m][n]
      /\ log'[m][last] = Record(c)
      /\ \A o \in Machines \ {m} : log'[o] = log[o]
  BY <1>m, <1>last, WrittenLog
<1>8. /\ Record(c).id = c.id /\ Record(c).before = Read(m) /\ ~Record(c).reverted
  BY <1>3 DEF Record
<1>9. /\ c.id \notin undone /\ \A n \in DOMAIN log[m] : log[m][n].id # c.id
  BY <1>2, <1>3 DEF OwnEntry
<1>10. DOMAIN log[m] \subseteq Nat
  BY <1>7
<1> HIDE DEF c
<1>11. /\ Standing(log[m])' = Standing(log[m]) \union {last}
       /\ Standing(log[m]) \subseteq DOMAIN log[m]
  BY <1>1, <1>7, <1>8, <1>9 DEF Standing
<1>12. Lists(Read(m), log[m], Standing(log[m]))
  BY <1>2 DEF Good, Listed
<1>13. Read(m) \in Content
  BY <1>2, LocalIs DEF Typed, SyncTyped
<1>14. \A n \in Standing(log[m]) : n < last /\ log[m][n].id = log'[m][n].id /\ log[m][n].id # c.id
  BY <1>7, <1>9, <1>11
<1>15. Lists(Append(Read(m), c.id), log'[m], Standing(log[m]) \union {last})
  BY <1>2, <1>7, <1>8, <1>10, <1>11, <1>12, <1>13, <1>14, ListsMore
<1>16. Listed(m)'
  BY <1>5, <1>11, <1>15 DEF Listed
<1>17. Before(log[m], last)' = Standing(log[m])
  BY <1>7, <1>11 DEF Before
<1>18. ASSUME NEW n \in DOMAIN log[m]
       PROVE  IF log'[m][n].reverted THEN log'[m][n].id \in undone'
              ELSE Lists(log'[m][n].before, log'[m], Before(log[m], n)')
  <2>1. n < last /\ log'[m][n] = log[m][n]
    BY <1>7
  <2>2. Before(log[m], n)' = Before(log[m], n)
    BY <1>7, <1>10, <1>11, <2>1 DEF Before
  <2>3. \A i \in Before(log[m], n) : log[m][i].id = log'[m][i].id
    BY <1>14 DEF Before
  <2>4. IF log[m][n].reverted THEN log[m][n].id \in undone
        ELSE Lists(log[m][n].before, log[m], Before(log[m], n))
    BY <1>2 DEF Good, Restorable
  <2>5. CASE log[m][n].reverted
    BY <1>1, <2>1, <2>4, <2>5
  <2>6. CASE ~log[m][n].reverted
    <3>1. Lists(log[m][n].before, log'[m], Before(log[m], n))
      BY <2>3, <2>4, <2>6, ListsSame
    <3> QED
      BY <2>1, <2>2, <2>6, <3>1
  <2> QED
    BY <2>5, <2>6
<1>19. Lists(log'[m][last].before, log'[m], Before(log[m], last)')
  <2>1. Lists(Read(m), log'[m], Standing(log[m]))
    BY <1>12, <1>14, ListsSame
  <2> QED
    BY <1>7, <1>8, <1>17, <2>1
<1>20. Restorable(m)'
  BY <1>7, <1>8, <1>18, <1>19 DEF Restorable
<1>21. ASSUME NEW o \in Machines, o # m PROVE Listed(o)' /\ Restorable(o)'
  BY <1>1, <1>5, <1>7, <1>21, ListedKept DEF Good
<1> QED
  BY <1>6, <1>16, <1>20, <1>21 DEF Good

LEMMA RolledBackLogged ==
  ASSUME NumberedHash, Typed, Good, NEW k \in Slots, RolledBack(k)
  PROVE  Good'
<1> DEFINE c == calls[k]
           m == c.at.machine
           v == Edited(c.before, c.at.time)
<1>1. At(k, "learn", "write") /\ Store(m, v) /\ Ends(k) /\ UNCHANGED <<log, undone>>
  BY DEF RolledBack
<1>2. /\ c # Free /\ m \in Machines /\ v \in Version /\ c.at.time > 0 /\ c \in CallState
  BY <1>1, WrittenIs
<1>3. c.at.time \in Nat /\ c.before = Read(m)
  BY <1>1, <1>2, CallKinds DEF Good, Carried, Carries, At
<1>4. Real(v) /\ v.content = Read(m)
  BY <1>2, <1>3, EditedIsReal DEF Edited
<1> HIDE DEF v
<1>5. \A o \in Machines : Read(o)' = Read(o)
  BY <1>1, <1>2, <1>4, StoreRead
<1>6. OneCall' /\ Carried'
  BY <1>1, <1>2, <1>5, EndsCalls DEF Good
<1>7. \A o \in Machines : Listed(o)' /\ Restorable(o)'
  BY <1>1, <1>5, ListedKept DEF Good
<1> QED
  BY <1>6, <1>7 DEF Good

LEMMA RevertLogged ==
  ASSUME NumberedHash, Typed, Ids, Good, Tidy',
         NEW m \in Machines, NEW id \in DOMAIN entries, Revert(m, id)
  PROVE  Good'
<1> DEFINE call == [kind |-> "revert", stage |-> "flag", id |-> id,
                    at |-> [machine |-> m, time |-> Clock(m)]]
           v == Edited(Restored(m, id), Clock(m))
           p == PlaceOf(m, id)
<1>1. /\ MayRevert(m, id) /\ Store(m, v) /\ Post(call) /\ undone' = undone \union {id}
      /\ UNCHANGED log
  BY DEF Revert
<1>2. Clock(m) \in Nat /\ Clock(m) > 0
  BY ClockIs DEF Typed, LearnTyped
<1>3. p \in DOMAIN log[m] /\ log[m][p].id = id /\ Restored(m, id) \in Content
  BY <1>1, MayRevertIs
<1>4. v \in Version /\ Real(v) /\ v.content = log[m][p].before
  BY <1>2, <1>3, EditedIs, EditedIsReal DEF Restored
<1>5. /\ call.at.machine = m /\ call.kind = "revert" /\ call.id = id
  OBVIOUS
<1> HIDE DEF call, v, p
<1>6. Read(m)' = log[m][p].before /\ \A o \in Machines : o # m => Read(o)' = Read(o)
  BY <1>1, <1>4, StoreRead
<1>7. OneCall' /\ Carried'
  BY <1>1, <1>5, <1>6, PostCalls DEF Good
<1>8. /\ \A i \in DOMAIN log[m] : log[m][i].id = id => i = p
      /\ \A o \in Machines : o # m => \A i \in DOMAIN log[o] : log[o][i].id # id
  BY <1>3 DEF Ids, Distinct
<1>9. ~log[m][p].reverted /\ \A n \in DOMAIN log[m] : ~log[m][n].reverted => n <= p
  BY <1>1, <1>8 DEF MayRevert, Unreverted
<1>10. \A n \in DOMAIN log[m] : n \in Nat
  <2>1. log[m] \in Seq(LogRecord)
    BY DEF Typed, LearnTyped
  <2> QED
    BY <2>1
<1>11. \A n \in DOMAIN log[m] :
         IF log[m][n].reverted THEN log[m][n].id \in undone
         ELSE Lists(log[m][n].before, log[m], Before(log[m], n))
  BY DEF Good, Restorable
<1>12. Standing(log[m])' = Before(log[m], p)
  <2>1. ASSUME NEW n \in DOMAIN log[m], log[m][n].id \notin undone', log'[m] = log[m]
        PROVE  n < p /\ log[m][n].id \notin undone
    <3>1. log[m][n].id \notin undone /\ n # p
      BY <1>1, <1>3, <2>1
    <3>2. n <= p
      BY <1>9, <1>11, <3>1
    <3> QED
      BY <1>3, <1>10, <3>1, <3>2
  <2>2. ASSUME NEW n \in DOMAIN log[m], log[m][n].id \notin undone, n < p
        PROVE  log[m][n].id \notin undone'
    <3>1. n # p
      BY <1>3, <1>10, <2>2
    <3> QED
      BY <1>1, <1>8, <2>2, <3>1
  <2> QED
    BY <1>1, <2>1, <2>2 DEF Standing, Before
<1>13. Listed(m)'
  <2>1. Lists(log[m][p].before, log[m], Before(log[m], p))
    BY <1>3, <1>9, <1>11
  <2> QED
    BY <1>1, <1>6, <1>12, <2>1 DEF Listed
<1>14. Restorable(m)'
  <2>1. ASSUME NEW n \in DOMAIN log[m], ~log[m][n].reverted
        PROVE  Before(log[m], n)' = Before(log[m], n)
    <3>1. \A i \in DOMAIN log[m] : i < n => i # p
      BY <1>3, <1>9, <1>10, <2>1
    <3>2. \A i \in DOMAIN log[m] : i < n => (log[m][i].id \in undone' <=> log[m][i].id \in undone)
      BY <1>1, <1>8, <3>1
    <3> QED
      BY <1>1, <3>2 DEF Before, Standing
  <2> QED
    BY <1>1, <1>11, <2>1 DEF Restorable
<1>15. ASSUME NEW o \in Machines, o # m PROVE Listed(o)' /\ Restorable(o)'
  <2>1. Standing(log[o])' = Standing(log[o])
    BY <1>1, <1>8, <1>15 DEF Standing
  <2>2. Listed(o)'
    BY <1>1, <1>6, <1>15, <2>1 DEF Listed, Good
  <2>3. \A n : Before(log[o], n)' = Before(log[o], n)
    BY <2>1 DEF Before
  <2>4. Restorable(o)'
    BY <1>1, <2>3 DEF Good, Restorable
  <2> QED
    BY <2>2, <2>4
<1> QED
  BY <1>7, <1>13, <1>14, <1>15 DEF Good

LEMMA MarkedLogged ==
  ASSUME Typed, Good, NEW k \in Slots, Marked(k)
  PROVE  Good'
<1>m. PICK m \in Machines : m = calls[k].at.machine
  BY MarkedIs
<1>1. /\ At(k, "revert", "mark") /\ Ends(k) /\ UNCHANGED <<file, index, undone>>
  BY DEF Marked, syncVars
<1>2. calls[k] # Free /\ calls[k].id \in undone
  BY <1>1 DEF At, Free, Good, Carried, Carries
<1>3. \A o \in Machines : Read(o)' = Read(o)
  BY <1>1, ReadKept
<1>4. OneCall' /\ Carried'
  BY <1>1, <1>2, <1>3, EndsCalls DEF Good
<1>5. /\ m \in Machines
      /\ \A o \in Machines : DOMAIN log'[o] = DOMAIN log[o]
      /\ \A o \in Machines \ {m} : log'[o] = log[o]
      /\ \A n \in DOMAIN log[m] :
           /\ log'[m][n].id = log[m][n].id /\ log'[m][n].before = log[m][n].before
           /\ log'[m][n].reverted <=> log[m][n].reverted \/ log[m][n].id = calls[k].id
  BY <1>m, MarkedIs, ZenonT(60)
<1>6. Standing(log[m])' = Standing(log[m]) /\ Standing(log[m]) \subseteq DOMAIN log[m]
  BY <1>1, <1>5 DEF Standing
<1>7. Listed(m)'
  <2>1. Lists(Read(m), log[m], Standing(log[m]))
    BY <1>5 DEF Good, Listed
  <2>2. \A n \in Standing(log[m]) : log[m][n].id = log'[m][n].id
    BY <1>5, <1>6
  <2>3. Lists(Read(m), log'[m], Standing(log[m]))
    BY <2>1, <2>2, ListsSame
  <2> QED
    BY <1>3, <1>5, <1>6, <2>3 DEF Listed
<1>8. ASSUME NEW n \in DOMAIN log[m]
      PROVE  IF log'[m][n].reverted THEN log'[m][n].id \in undone'
             ELSE Lists(log'[m][n].before, log'[m], Before(log[m], n)')
  <2>1. IF log[m][n].reverted THEN log[m][n].id \in undone
        ELSE Lists(log[m][n].before, log[m], Before(log[m], n))
    BY <1>5 DEF Good, Restorable
  <2>2. CASE log'[m][n].reverted
    BY <1>1, <1>2, <1>5, <2>1, <2>2
  <2>3. CASE ~log'[m][n].reverted
    <3>1. Lists(log[m][n].before, log[m], Before(log[m], n))
      BY <1>5, <2>1, <2>3
    <3>2. Before(log[m], n)' = Before(log[m], n)
      BY <1>6 DEF Before
    <3>3. \A i \in Before(log[m], n) : log[m][i].id = log'[m][i].id
      BY <1>5, <1>6 DEF Before
    <3>4. Lists(log[m][n].before, log'[m], Before(log[m], n))
      BY <3>1, <3>3, ListsSame
    <3> QED
      BY <1>5, <2>3, <3>2, <3>4
  <2> QED
    BY <2>2, <2>3
<1>9. Restorable(m)'
  BY <1>5, <1>8 DEF Restorable
<1>10. ASSUME NEW o \in Machines, o # m PROVE Listed(o)' /\ Restorable(o)'
  BY <1>1, <1>3, <1>5, <1>10, ListedKept DEF Good
<1> QED
  BY <1>4, <1>7, <1>9, <1>10 DEF Good

\* A pass that replaces no file.
LEMMA PassLogged ==
  ASSUME Typed, Served, Good, Tidy', NEW m \in Machines, PassStep(m)
  PROVE  Good'
<1>1. UNCHANGED <<log, calls, undone>>
  BY PassStepTyped
<1>2. UNCHANGED <<file, index>> \/ Stored(m)' = Stored(m)
  BY DEF PassStep, PassStarts, PassGoesOn, PassFails, SyncStarts, SyncFails, Tidy
<1>3. \A o \in Machines : Read(o)' = Read(o)
  <2>1. Stored(m)' = Stored(m)
    BY <1>2 DEF Stored
  <2>2. \A o \in Machines : o # m => file'[o] = file[o] /\ index'[o] = index[o]
    BY DEF PassStep, PassStarts, PassGoesOn, PassFails, SyncStarts, PutServed, Adopt,
           ListServed, Pull, SyncFails, Store, Typed, SyncTyped
  <2> QED
    BY <2>1, <2>2 DEF Stored, Read
<1>4. OneCall'
  BY <1>1 DEF Good, OneCall
<1>5. ASSUME NEW k \in Slots PROVE Carries(k)'
  <2>1. calls[k].kind = "learn" => calls[k].at.machine \in Machines
    BY CallKinds DEF Typed, LearnTyped, Free
  <2>2. calls[k].kind = "learn" => Read(calls[k].at.machine)' = Read(calls[k].at.machine)
    BY <1>1, <1>3, <2>1 DEF Read
  <2> QED
    BY <1>1, <2>2 DEF Good, Carried, Carries
<1>6. \A o \in Machines : Listed(o)' /\ Restorable(o)'
  BY <1>1, <1>3, ListedKept DEF Good
<1> QED
  BY <1>4, <1>5, <1>6 DEF Good, Carried

\* A step of a call, or its start, that writes neither a file nor the log.
LEMMA CallsLogged ==
  ASSUME Good, OneCall', Carried', UNCHANGED <<file, index, log, undone>>
  PROVE  Good'
BY ReadKept, ListedKept DEF Good

LEMMA LoggedNext ==
  ASSUME NumberedHash, Typed, Ids, Served, Logged, [Next]_vars
  PROVE  Logged'
<1> SUFFICES ASSUME Tidy' PROVE Good'
  BY DEF Logged, Good
<1>1. Good
  BY CrossedGrows DEF Logged, Good, Tidy
<1>2. ASSUME NEW m \in Machines, LearnStarts(m) PROVE Good'
  <2> DEFINE call == [kind |-> "learn", stage |-> "model",
                      at |-> [machine |-> m, time |-> LearnTime(m)]]
  <2>1. Post(call) /\ UNCHANGED <<file, index, log, undone>>
    BY <1>2 DEF LearnStarts, syncVars
  <2>2. call.kind = "learn" /\ call.stage = "model"
    OBVIOUS
  <2> HIDE DEF call
  <2>3. OneCall' /\ Carried'
    BY <1>1, <2>1, <2>2, ReadKept, PostCalls DEF Good
  <2> QED
    BY <1>1, <2>1, <2>3, CallsLogged
<1>3. ASSUME NEW m \in Machines, NEW id \in DOMAIN entries, Revert(m, id) PROVE Good'
  BY <1>1, <1>3, RevertLogged
<1>4. ASSUME NEW m \in Machines, PassStep(m) PROVE Good'
  BY <1>1, <1>4, PassLogged
<1>5. ASSUME NEW m \in Machines, Crash(m) \/ HandEdit(m) PROVE Good'
  <2>1. "crash" \in crossed' \/ "hand" \in crossed'
    BY <1>5 DEF Crash, HandEdit, Fault
  <2> QED
    BY <2>1 DEF Tidy
<1>6. ASSUME NEW k \in Slots, LessonComes(k) PROVE Good'
  <2> DEFINE call == [kind |-> "learn", stage |-> "record", at |-> calls[k].at,
                      before |-> Read(calls[k].at.machine)]
  <2>1. calls[k] # Free /\ Goes(k, call) /\ UNCHANGED <<file, index, log, undone>>
    BY <1>6 DEF LessonComes, At, Free, syncVars
  <2>2. call.at = calls[k].at /\ call.kind = "learn" /\ call.before = Read(call.at.machine)
    OBVIOUS
  <2> HIDE DEF call
  <2>3. OneCall' /\ Carried'
    BY <1>1, <2>1, <2>2, GoesCalls DEF Good
  <2> QED
    BY <1>1, <2>1, <2>3, CallsLogged
<1>7. ASSUME NEW k \in Slots, EntryCreated(k) PROVE Good'
  <2> DEFINE call == [kind |-> "learn", stage |-> "write", at |-> calls[k].at,
                      before |-> calls[k].before, id |-> Len(entries) + 1]
  <2>1. calls[k] # Free /\ Goes(k, call) /\ UNCHANGED <<file, index, log, undone>>
    BY <1>7 DEF EntryCreated, At, Free, syncVars
  <2>2. calls[k].before = Read(calls[k].at.machine)
    BY <1>1, <1>7 DEF EntryCreated, At, Good, Carried, Carries
  <2>3. call.at = calls[k].at /\ call.kind = "learn" /\ call.before = Read(call.at.machine)
    BY <2>2
  <2> HIDE DEF call
  <2>4. OneCall' /\ Carried'
    BY <1>1, <2>1, <2>3, GoesCalls DEF Good
  <2> QED
    BY <1>1, <2>1, <2>4, CallsLogged
<1>8. ASSUME NEW k \in Slots, Written(k) PROVE Good'
  BY <1>1, <1>8, WrittenLogged
<1>9. ASSUME NEW k \in Slots, RolledBack(k) PROVE Good'
  BY <1>1, <1>9, RolledBackLogged
<1>10. ASSUME NEW k \in Slots, Flagged(k) PROVE Good'
  <2> DEFINE call == [calls[k] EXCEPT !.stage = "mark"]
  <2>1. /\ calls[k] # Free /\ Goes(k, call) /\ UNCHANGED <<file, index, log, undone>>
        /\ calls[k] \in CallState /\ calls[k].kind = "revert"
    BY <1>10 DEF Flagged, At, Free, syncVars, Typed, LearnTyped
  <2>2. call.at = calls[k].at /\ call.kind = "revert" /\ call.id = calls[k].id
    BY <2>1 DEF CallState, Free
  <2>3. calls[k].id \in undone
    BY <1>1, <2>1 DEF Good, Carried, Carries
  <2> HIDE DEF call
  <2>4. OneCall' /\ Carried'
    BY <1>1, <2>1, <2>2, <2>3, GoesCalls DEF Good
  <2> QED
    BY <1>1, <2>1, <2>4, CallsLogged
<1>11. ASSUME NEW k \in Slots, Marked(k) PROVE Good'
  BY <1>1, <1>11, MarkedLogged
<1>12. ASSUME NEW k \in Slots, CallFails(k) PROVE Good'
  <2>1. calls[k] # Free /\ Ends(k) /\ UNCHANGED <<file, index, log, undone>>
    BY <1>12 DEF CallFails, syncVars
  <2>2. OneCall' /\ Carried'
    BY <1>1, <2>1, ReadKept, EndsCalls DEF Good
  <2> QED
    BY <1>1, <2>1, <2>2, CallsLogged
<1>13. CASE Tick \/ UNCHANGED vars
  <2>1. UNCHANGED <<file, index, log, undone, calls>>
    BY <1>13 DEF Tick, vars, syncVars, learnVars
  <2>2. OneCall' /\ Carried'
    BY <1>1, <2>1 DEF Good, OneCall, Carried, Carries, Read
  <2> QED
    BY <1>1, <2>1, <2>2, CallsLogged
<1> QED
  BY <1>2, <1>3, <1>4, <1>5, <1>6, <1>7, <1>8, <1>9, <1>10, <1>11, <1>12, <1>13, Steps

\* A tone file holds the logged lessons but for the reverted ones, in their order: of any
\* number of lessons and reverts, and of calls of as many machines, with failures of a call
\* and of the log, as long as nothing interferes with a call (learn.ts, log.ts).
THEOREM ToneIsTheLogHolds ==
  ASSUME NumberedHash
  PROVE  Spec => []ToneIsTheLog
<1>1. Init => Typed /\ Ids /\ Served /\ Logged
  BY TypedInit, IdsInit, ServedInit, LoggedInit
<1>2. Typed /\ Ids /\ Served /\ Logged /\ [Next]_vars => (Typed /\ Ids /\ Served /\ Logged)'
  BY TypedNext, IdsNext, ServedNext, LoggedNext
<1>3. Logged => ToneIsTheLog
  BY DEF Logged, Tidy, Listed, ToneIsTheLog
<1> QED
  BY <1>1, <1>2, <1>3, PTL DEF Spec
=============================================================================
