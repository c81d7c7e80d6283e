---------------------------- MODULE SessionStore ----------------------------
(***************************************************************************)
(* VibeSessionStore (app/infra/vibe_session_store.py): sessions, messages  *)
(* and the user's list of sessions.  Without Supabase every operation is a *)
(* sequence of Redis reads and whole-value writes, with no lock between    *)
(* the web workers and the job processes; a write that fails is logged and *)
(* forgotten.  With Supabase an operation is one statement, and when that  *)
(* fails the value goes to the memory of the process.  One user.           *)
(***************************************************************************)
EXTENDS Integers, Sequences, SequencesExt

CONSTANTS
    Web,        \* gunicorn workers: create, archive
    Horse,      \* job processes: messages and titles
    Session,    \* session ids
    NoSession,
    MaxMessages,\* bound: messages sent
    MaxStoreFaults \* bound: statements that fail

ASSUME StoreAssumption == MaxMessages \in Nat /\ MaxStoreFaults \in Nat /\ Web \cap Horse = {} /\ NoSession \notin Session

VARIABLES
    backend,    \* "redis" or "supabase", fixed when the store is built
    sess,       \* session id -> its record
    msgs,       \* session id -> its messages, numbered in the order they are sent
    ids,        \* the user's session ids (Redis)
    mem,        \* process -> messages that only its memory has
    doing,      \* process -> the next command of its operation
    on,         \* process -> the session of that operation
    copy,       \* process -> what it has read and not yet written back
    sent, storeFaults,
    acked,      \* history: messages whose create_message returned
    removed,    \* history: sessions whose archive returned with no failed write, less
                \* those a list read before and written after it put back
    spoiled     \* history: sessions with overlapping message writers or a failed write

storeVars == <<backend, sess, msgs, ids, mem, doing, on, copy, sent, storeFaults, acked, removed, spoiled>>

Process == Web \cup Horse
Record == [status : {"absent", "active", "deleted"}, titled : BOOLEAN, count : 0 .. MaxMessages]
NewSession == [status |-> "active", titled |-> FALSE, count |-> 0]
Blank == [rec |-> [NewSession EXCEPT !.status = "absent"], list |-> <<>>, ids |-> {}, msg |-> 0, clean |-> TRUE]

StoreInit ==
    /\ backend \in {"redis", "supabase"}
    /\ sess = [s \in Session |-> Blank.rec]
    /\ msgs = [s \in Session |-> <<>>]
    /\ ids = {}
    /\ mem = [p \in Process |-> {}]
    /\ doing = [p \in Process |-> "idle"]
    /\ on = [p \in Process |-> NoSession]
    /\ copy = [p \in Process |-> Blank]
    /\ sent = 0 /\ storeFaults = 0
    /\ acked = {} /\ removed = {} /\ spoiled = {}

Proceed(p, label) == doing' = [doing EXCEPT ![p] = label]
Return(p) ==
    /\ Proceed(p, "idle")
    /\ on' = [on EXCEPT ![p] = NoSession]
    /\ copy' = [copy EXCEPT ![p] = Blank]
AtRest(p) == doing[p] = "idle" /\ doing' = doing
Exists(s) == sess[s].status # "absent"
\* The id leaves the process when create_session returns.
Known(s) == Exists(s) /\ \A p \in Web : ~(on[p] = s /\ doing[p] \in {"create: read ids", "create: write ids"})
\* _redis_set_json swallows a failure; clean notes it for the archive.
Stored(ok) == ok \/ storeFaults < MaxStoreFaults
Count(ok) == storeFaults' = IF ok THEN storeFaults ELSE storeFaults + 1
----------------------------------------------------------------------------
\* create_session.  Nobody knows the id yet, so its two values are one step, and
\* a list of messages that was not stored reads as an empty one.
CreateSession(p) ==
    /\ backend = "redis" /\ doing[p] = "idle"
    /\ \E s \in {t \in Session : ~Exists(t)} \ (ids \cup Range(on)), ok \in BOOLEAN :
          /\ Stored(ok) /\ Count(ok)
          /\ sess' = IF ok THEN [sess EXCEPT ![s] = NewSession] ELSE sess
          /\ on' = [on EXCEPT ![p] = s]
    /\ Proceed(p, "create: read ids")
    /\ UNCHANGED <<backend, msgs, ids, mem, copy, sent, acked, removed, spoiled>>

ReadIds(p) ==
    /\ doing[p] \in {"create: read ids", "archive: read ids"}
    /\ copy' = [copy EXCEPT ![p].ids = ids]
    /\ Proceed(p, IF doing[p] = "create: read ids" THEN "create: write ids" ELSE "archive: write ids")
    /\ UNCHANGED <<backend, sess, msgs, ids, mem, on, sent, storeFaults, acked, removed, spoiled>>

\* The ids that another web worker took from the list since this one read it.
PutBack(p) == copy[p].ids \ ids

CreateWritesIds(p) ==
    /\ doing[p] = "create: write ids"
    /\ \E ok \in BOOLEAN :
          /\ Stored(ok) /\ Count(ok)
          /\ ids' = IF ok THEN copy[p].ids \cup {on[p]} ELSE ids
          /\ removed' = IF ok THEN removed \ PutBack(p) ELSE removed
    /\ Return(p)
    /\ UNCHANGED <<backend, sess, msgs, mem, sent, acked, spoiled>>

\* archive_session, once the route has found the session.
ArchiveReads(p) ==
    /\ backend = "redis" /\ doing[p] = "idle"
    /\ \E s \in {t \in Session : Known(t)} :
          /\ on' = [on EXCEPT ![p] = s]
          /\ copy' = [copy EXCEPT ![p].rec = sess[s]]
    /\ Proceed(p, "archive: write session")
    /\ UNCHANGED <<backend, sess, msgs, ids, mem, sent, storeFaults, acked, removed, spoiled>>

ArchiveWrites(p) ==
    /\ doing[p] = "archive: write session"
    /\ \E ok \in BOOLEAN :
          /\ Stored(ok) /\ Count(ok)
          /\ sess' = IF ok THEN [sess EXCEPT ![on[p]] = [copy[p].rec EXCEPT !.status = "deleted"]] ELSE sess
          /\ copy' = [copy EXCEPT ![p].clean = ok]
    /\ Proceed(p, "archive: read ids")
    /\ UNCHANGED <<backend, msgs, ids, mem, on, sent, acked, removed, spoiled>>

ArchiveWritesIds(p) ==
    /\ doing[p] = "archive: write ids"
    /\ \E ok \in BOOLEAN :
          /\ Stored(ok) /\ Count(ok)
          /\ LET writes == ok /\ on[p] \in copy[p].ids
             IN  /\ ids' = IF writes THEN copy[p].ids \ {on[p]} ELSE ids
                 /\ removed' = (IF writes THEN removed \ PutBack(p) ELSE removed)
                               \cup (IF ok /\ copy[p].clean /\ (writes \/ on[p] \notin ids) THEN {on[p]} ELSE {})
    /\ Return(p)
    /\ UNCHANGED <<backend, sess, msgs, mem, sent, acked, spoiled>>
----------------------------------------------------------------------------
Writing(s) == {p \in Process : doing[p] = "message: write list" /\ on[p] = s}

\* create_message: the whole list is read, and a message may be sent to a session
\* that has been deleted in the meantime.
MessageReads(p) ==
    /\ backend = "redis" /\ doing[p] = "idle" /\ sent < MaxMessages
    /\ sent' = sent + 1
    /\ \E s \in {t \in Session : Known(t)} :
          /\ on' = [on EXCEPT ![p] = s]
          /\ copy' = [copy EXCEPT ![p].list = msgs[s], ![p].msg = sent + 1]
          /\ spoiled' = IF Writing(s) # {} THEN spoiled \cup {s} ELSE spoiled
    /\ Proceed(p, "message: write list")
    /\ UNCHANGED <<backend, sess, msgs, ids, mem, storeFaults, acked, removed>>

\* The list that was read is dropped.
MessageForgetsList(p) ==
    /\ doing[p] = "message: write list"
    /\ msgs' = [msgs EXCEPT ![on[p]] = <<copy[p].msg>>]
    /\ Proceed(p, "touch: read session")
    /\ UNCHANGED <<backend, sess, ids, mem, on, copy, sent, storeFaults, acked, removed, spoiled>>

MessageWrites(p) ==
    /\ doing[p] = "message: write list"
    /\ \E ok \in BOOLEAN :
          /\ Stored(ok) /\ Count(ok)
          /\ msgs' = IF ok THEN [msgs EXCEPT ![on[p]] = Append(copy[p].list, copy[p].msg)] ELSE msgs
          /\ spoiled' = IF ok THEN spoiled ELSE spoiled \cup {on[p]}
    /\ Proceed(p, "touch: read session")
    /\ UNCHANGED <<backend, sess, ids, mem, on, copy, sent, acked, removed>>

\* _touch_session: the record and then the list are read, the record is written.
TouchReads(p) ==
    /\ doing[p] = "touch: read session"
    /\ copy' = [copy EXCEPT ![p].rec = sess[on[p]]]
    /\ Proceed(p, "touch: count")
    /\ UNCHANGED <<backend, sess, msgs, ids, mem, on, sent, storeFaults, acked, removed, spoiled>>

TouchCounts(p) ==
    /\ doing[p] = "touch: count"
    /\ copy' = [copy EXCEPT ![p].rec.count = Len(msgs[on[p]])]
    /\ Proceed(p, "touch: write session")
    /\ UNCHANGED <<backend, sess, msgs, ids, mem, on, sent, storeFaults, acked, removed, spoiled>>

TouchWrites(p) ==
    /\ doing[p] = "touch: write session"
    /\ \E ok \in BOOLEAN :
          /\ Stored(ok) /\ Count(ok)
          /\ sess' = IF ok THEN [sess EXCEPT ![on[p]] = copy[p].rec] ELSE sess
    /\ acked' = acked \cup {<<copy[p].msg, on[p]>>}
    /\ Return(p)
    /\ UNCHANGED <<backend, msgs, ids, mem, sent, removed, spoiled>>

\* A read that Redis refuses raises, and the operation ends where it is.
ReadRaises(p) ==
    /\ doing[p] \in {"create: read ids", "archive: read ids", "touch: read session", "touch: count"}
    /\ storeFaults < MaxStoreFaults
    /\ storeFaults' = storeFaults + 1
    /\ Return(p)
    /\ UNCHANGED <<backend, sess, msgs, ids, mem, sent, acked, removed, spoiled>>

\* update_session_title.
TitleReads(p) ==
    /\ backend = "redis" /\ doing[p] = "idle"
    /\ \E s \in {t \in Session : Known(t) /\ ~sess[t].titled} :
          /\ on' = [on EXCEPT ![p] = s]
          /\ copy' = [copy EXCEPT ![p].rec = [sess[s] EXCEPT !.titled = TRUE]]
    /\ Proceed(p, "title: write session")
    /\ UNCHANGED <<backend, sess, msgs, ids, mem, sent, storeFaults, acked, removed, spoiled>>

TitleWrites(p) ==
    /\ doing[p] = "title: write session"
    /\ \E ok \in BOOLEAN :
          /\ Stored(ok) /\ Count(ok)
          /\ sess' = IF ok THEN [sess EXCEPT ![on[p]] = copy[p].rec] ELSE sess
    /\ Return(p)
    /\ UNCHANGED <<backend, msgs, ids, mem, sent, acked, removed, spoiled>>
----------------------------------------------------------------------------
\* One statement each; create, archive and title that fail change this process's
\* memory only, and no later call looks there once the database answers.
DbCreate(p) ==
    /\ backend = "supabase" /\ AtRest(p)
    /\ \E s \in {t \in Session : ~Exists(t)} : sess' = [sess EXCEPT ![s] = NewSession]
    /\ UNCHANGED <<backend, msgs, ids, mem, on, copy, sent, storeFaults, acked, removed, spoiled>>

DbArchive(p) ==
    /\ backend = "supabase" /\ AtRest(p)
    /\ \E s \in {t \in Session : Known(t)}, ok \in BOOLEAN :
          /\ Stored(ok) /\ Count(ok)
          /\ sess' = IF ok THEN [sess EXCEPT ![s].status = "deleted"] ELSE sess
          /\ removed' = IF ok THEN removed \cup {s} ELSE removed
    /\ UNCHANGED <<backend, msgs, ids, mem, on, copy, sent, acked, spoiled>>

\* The trigger of the table counts the message.
DbMessage(p) ==
    /\ backend = "supabase" /\ AtRest(p) /\ sent < MaxMessages
    /\ sent' = sent + 1
    /\ \E s \in {t \in Session : Known(t)}, ok \in BOOLEAN :
          /\ Stored(ok) /\ Count(ok)
          /\ msgs' = IF ok THEN [msgs EXCEPT ![s] = Append(@, sent + 1)] ELSE msgs
          /\ sess' = IF ok THEN [sess EXCEPT ![s].count = @ + 1] ELSE sess
          /\ mem' = IF ok THEN mem ELSE [mem EXCEPT ![p] = @ \cup {<<sent + 1, s>>}]
          /\ acked' = acked \cup {<<sent + 1, s>>}
    /\ UNCHANGED <<backend, ids, on, copy, removed, spoiled>>

DbTitle(p) ==
    /\ backend = "supabase" /\ AtRest(p)
    /\ \E s \in {t \in Session : Known(t)} : sess' = [sess EXCEPT ![s].titled = TRUE]
    /\ UNCHANGED <<backend, msgs, ids, mem, on, copy, sent, storeFaults, acked, removed, spoiled>>

StoreNext ==
    \/ \E p \in Web :
          \/ CreateSession(p) \/ ReadIds(p) \/ CreateWritesIds(p)
          \/ ArchiveReads(p) \/ ArchiveWrites(p) \/ ArchiveWritesIds(p)
          \/ ReadRaises(p) \/ DbCreate(p) \/ DbArchive(p)
    \/ \E p \in Horse :
          \/ MessageReads(p) \/ MessageWrites(p) \/ TouchReads(p) \/ TouchCounts(p) \/ TouchWrites(p)
          \/ TitleReads(p) \/ TitleWrites(p) \/ ReadRaises(p) \/ DbMessage(p) \/ DbTitle(p)

StoreSpec == StoreInit /\ [][StoreNext]_storeVars
----------------------------------------------------------------------------
\* list_sessions: the ids of the list whose record is active.
list_sessions ==
    {s \in Session : sess[s].status = "active" /\ (backend = "redis" => s \in ids)}

\* A message that was answered is in the session's list, or in the memory of the process
\* that took it when the database refused it; only a second writer of the same list at
\* the same time, or a write Redis refused, may lose one.
MessageKept ==
    \A a \in acked : a[2] \notin spoiled =>
        a[1] \in Range(msgs[a[2]]) \/ \E p \in Process : a \in mem[p]

\* A session whose deletion went through stays off the list, unless another web worker
\* that had read the list before puts its id back.
DeletedStaysUnlisted == removed \cap list_sessions = {}

\* What create_message and archive_session answered stays true whatever titles, touches
\* and archives run at the same time: the message is kept (but for two writers of one
\* list), and the deleted session stays off the list (but for two web workers that write
\* it at once), although a touch or a title that read its record before puts the status
\* back to active.
AnsweredStays == MessageKept /\ DeletedStaysUnlisted

\* "JSON list of active session ids": between operations no deleted session is in it
\* and every active one is (two web workers that read the list before either writes
\* it undo one another).
IdsAreActive ==
    backend = "redis" /\ storeFaults = 0 /\ (\A p \in Process : doing[p] = "idle") =>
        ids = {s \in Session : sess[s].status = "active"}

\* "message_count": between operations it is the length of the list (a title, an
\* archive or another touch writes back the count it read).
CountIsLength ==
    storeFaults = 0 /\ (\A p \in Process : doing[p] = "idle") =>
        \A s \in Session : sess[s].count = Len(msgs[s])

\* The messages a process acknowledged are in the list the next run reads (they stay
\* in the memory of the process that met the failure).
AckedIsListed == backend = "supabase" => \A a \in acked : a[1] \in Range(msgs[a[2]])
=============================================================================
