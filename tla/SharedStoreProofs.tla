-------------------------- MODULE SharedStoreProofs --------------------------
(***************************************************************************)
(* Proofs about the stores that processes share without a lock, for any    *)
(* number of processes, sessions and messages: what VibeSessionStore       *)
(* (app/infra/vibe_session_store.py) answered stays true, what the symbols *)
(* cache and the metered routes hold or charge, and which candles the      *)
(* backtests read.                                                         *)
(***************************************************************************)
EXTENDS SessionStore, SymbolsCache, MeteredRoutes, CandleStore, Induction

Rec == [status : {"absent", "active", "deleted"}, titled : BOOLEAN, count : Nat]
CopyType == [rec : Rec, list : Seq(Nat), ids : SUBSET Session, msg : Nat, clean : BOOLEAN]

\* Where an operation is: at the id list of a new session, of an old one, or at its
\* record or messages.
Creating == {"create: read ids", "create: write ids"}
HasRecord == {"archive: write session", "touch: count", "touch: write session", "title: write session"}
Touching == {"touch: read session", "touch: count", "touch: write session"}
OnExisting == HasRecord \cup Touching \cup {"archive: read ids", "archive: write ids", "message: write list"}
Doing == Creating \cup OnExisting \cup {"idle"}

StoreType ==
    /\ backend \in {"redis", "supabase"}
    /\ sess \in [Session -> Rec]
    /\ msgs \in [Session -> Seq(Nat)]
    /\ mem \in [Process -> SUBSET (Nat \X Session)]
    /\ doing \in [Process -> Doing]
    /\ on \in [Process -> Session \cup {NoSession}]
    /\ copy \in [Process -> CopyType]
    /\ ids \in SUBSET Session /\ removed \in SUBSET Session /\ spoiled \in SUBSET Session
    /\ sent \in Nat
    /\ acked \in SUBSET (Nat \X Session)

\* An operation is on a session; with Supabase there is no operation under way.
BusyInv ==
    \A p \in Process : doing[p] # "idle" => on[p] \in Session /\ backend = "redis"

\* A record that exists goes on existing: what an operation writes back was read
\* from a session that existed.
ExistsInv ==
    \A p \in Process :
        /\ doing[p] \in HasRecord => copy[p].rec.status # "absent"
        /\ doing[p] \in OnExisting => Exists(on[p])

\* The id of a session that is being created is nobody else's.
CreatorInv ==
    \A p \in Process : doing[p] \in Creating =>
        /\ p \in Web /\ on[p] \notin removed
        /\ \A q \in Process : q # p => on[q] # on[p]

\* With Redis a removed session is not in the list; with Supabase its record says so.
RemovedInv ==
    /\ \A s \in removed : Exists(s)
    /\ backend = "redis" => removed \cap ids = {}
    /\ backend = "supabase" => \A s \in removed : sess[s].status = "deleted"

\* The messages of a session that no two processes wrote at once: its one writer has
\* the list as it is, and who touches the session has its message in the list.
ListInv ==
    \A p \in Process : on[p] \notin spoiled =>
        /\ doing[p] = "message: write list" =>
              /\ copy[p].list = msgs[on[p]]
              /\ \A q \in Process : doing[q] = "message: write list" /\ on[q] = on[p] => q = p
        /\ doing[p] \in Touching => copy[p].msg \in Range(msgs[on[p]])

StoreInv == StoreType /\ BusyInv /\ ExistsInv /\ CreatorInv /\ RemovedInv /\ ListInv /\ MessageKept
-----------------------------------------------------------------------------
\* The operations of the other processes stay where they are.
OthersStay(p) ==
    \A q \in Process : q # p => doing'[q] = doing[q] /\ on'[q] = on[q] /\ copy'[q] = copy[q]

LEMMA RangeAppend ==
    ASSUME NEW S, NEW q \in Seq(S), NEW e \in S
    PROVE  Range(Append(q, e)) = Range(q) \cup {e}
<1>1. DOMAIN q = 1 .. Len(q) /\ Len(q) \in Nat /\ DOMAIN Append(q, e) = 1 .. Len(q) + 1
  OBVIOUS
<1>2. \A n \in 1 .. Len(q) : Append(q, e)[n] = q[n]
  OBVIOUS
<1>3. Append(q, e)[Len(q) + 1] = e
  OBVIOUS
<1>4. \A n \in 1 .. Len(q) + 1 : n \in 1 .. Len(q) \/ n = Len(q) + 1
  BY <1>1
<1> QED BY <1>1, <1>2, <1>3, <1>4 DEF Range

LEMMA ReturnFacts ==
    ASSUME StoreType, NEW p \in Process, Return(p)
    PROVE  /\ doing' \in [Process -> Doing] /\ doing'[p] = "idle"
           /\ on' \in [Process -> Session \cup {NoSession}] /\ on'[p] = NoSession
           /\ copy' \in [Process -> CopyType]
           /\ OthersStay(p)
<1>1. Blank \in CopyType
  <2>1. [NewSession EXCEPT !.status = "absent"] \in Rec
    BY DEF NewSession, Rec
  <2>2. <<>> \in Seq(Nat) OBVIOUS
  <2> QED BY <2>1, <2>2 DEF Blank, CopyType
<1> QED BY <1>1 DEF StoreType, Return, Proceed, Doing, OthersStay

LEMMA CopyFacts ==
    ASSUME StoreType, NEW p \in Process
    PROVE  /\ copy[p] \in CopyType /\ copy[p].rec \in Rec /\ copy[p].list \in Seq(Nat)
           /\ copy[p].ids \in SUBSET Session /\ copy[p].msg \in Nat
BY DEF StoreType, CopyType

\* The sessions and processes a creation does not concern.
LEMMA SessionFacts ==
    ASSUME StoreType, NEW s \in Session
    PROVE  sess[s] \in Rec /\ msgs[s] \in Seq(Nat)
BY DEF StoreType

\* A step that ends an operation or lets it read, and changes no message, record or id.
LEMMA ReadStep ==
    ASSUME StoreInv, NEW p \in Process, OthersStay(p),
           UNCHANGED <<backend, sess, msgs, ids, mem, sent, acked, removed, spoiled>>,
           doing' \in [Process -> Doing], on' \in [Process -> Session \cup {NoSession}],
           copy' \in [Process -> CopyType],
           doing'[p] # "idle" => on'[p] \in Session /\ backend = "redis",
           doing'[p] \in HasRecord => copy'[p].rec.status # "absent",
           doing'[p] \in OnExisting => Exists(on'[p]),
           doing'[p] \in Creating => doing[p] \in Creating,
           on'[p] = on[p] \/ on'[p] = NoSession \/ (on'[p] \in Session /\ Known(on'[p])),
           doing'[p] # "message: write list",
           doing'[p] \in Touching => doing[p] \in Touching /\ copy'[p].msg = copy[p].msg,
           doing'[p] \in Creating \cup Touching => on'[p] = on[p]
    PROVE  StoreInv'
<1>0. StoreType /\ BusyInv /\ ExistsInv /\ CreatorInv /\ RemovedInv /\ ListInv /\ MessageKept
  BY DEF StoreInv
<1>1. StoreType'
  BY <1>0 DEF StoreType
<1>2. BusyInv' /\ ExistsInv'
  BY <1>0 DEF BusyInv, ExistsInv, OthersStay, Exists
<1>3. CreatorInv'
  <2> SUFFICES ASSUME NEW q \in Process, doing'[q] \in Creating
               PROVE  q \in Web /\ on'[q] \notin removed' /\ \A r \in Process : r # q => on'[r] # on'[q]
    BY DEF CreatorInv
  <2>1. doing[q] \in Creating /\ on'[q] = on[q]
    BY DEF OthersStay
  <2>2. on[q] \in Session /\ q \in Web /\ on[q] \notin removed /\ \A r \in Process : r # q => on[r] # on[q]
    BY <1>0, <2>1 DEF CreatorInv, BusyInv, Creating
  <2>3. ~Known(on[q])
    BY <2>1, <2>2 DEF Known, Creating
  <2>4. \A r \in Process : r # q => on'[r] # on[q]
    BY <2>2, <2>3, StoreAssumption DEF OthersStay
  <2> QED BY <2>1, <2>2, <2>4
<1>4. RemovedInv'
  BY <1>0 DEF RemovedInv, Exists
<1>5. ListInv'
  <2> SUFFICES ASSUME NEW q \in Process, on'[q] \notin spoiled
               PROVE  /\ doing'[q] = "message: write list" =>
                            /\ copy'[q].list = msgs[on'[q]]
                            /\ \A r \in Process : doing'[r] = "message: write list" /\ on'[r] = on'[q] => r = q
                      /\ doing'[q] \in Touching => copy'[q].msg \in Range(msgs[on'[q]])
    BY DEF ListInv
  <2>1. ASSUME doing'[q] = "message: write list"
        PROVE  /\ copy'[q].list = msgs[on'[q]]
               /\ \A r \in Process : doing'[r] = "message: write list" /\ on'[r] = on'[q] => r = q
    <3>1. q # p /\ doing[q] = "message: write list" /\ on'[q] = on[q] /\ copy'[q] = copy[q]
      BY <2>1 DEF OthersStay
    <3>2. \A x \in Process : doing'[x] = "message: write list" =>
             doing[x] = "message: write list" /\ on'[x] = on[x]
      BY <2>1 DEF OthersStay
    <3>3. /\ copy[q].list = msgs[on[q]]
          /\ \A x \in Process : doing[x] = "message: write list" /\ on[x] = on[q] => x = q
      BY <1>0, <3>1 DEF ListInv
    <3> QED BY <3>1, <3>2, <3>3
  <2>2. ASSUME doing'[q] \in Touching PROVE copy'[q].msg \in Range(msgs[on'[q]])
    BY <1>0, <2>2 DEF ListInv, OthersStay
  <2> QED BY <2>1, <2>2
<1>6. MessageKept'
  BY <1>0 DEF MessageKept
<1> QED BY <1>1, <1>2, <1>3, <1>4, <1>5, <1>6 DEF StoreInv

LEMMA StoreReads ==
    ASSUME StoreInv, NEW p \in Process,
           \/ ReadIds(p) \/ ArchiveReads(p) \/ TitleReads(p) \/ TouchReads(p) \/ TouchCounts(p) \/ ReadRaises(p)
    PROVE  StoreInv'
<1>0. StoreType /\ BusyInv /\ ExistsInv /\ CreatorInv /\ RemovedInv /\ ListInv /\ MessageKept
  BY DEF StoreInv
<1>c. copy[p] \in CopyType BY <1>0, CopyFacts
<1>1. CASE ReadIds(p)
  <2>1. copy' \in [Process -> CopyType]
    BY <1>0, <1>1 DEF ReadIds, StoreType, CopyType
  <2>2. doing' \in [Process -> Doing] /\ OthersStay(p)
    BY <1>0, <1>1 DEF ReadIds, Proceed, StoreType, OthersStay, Doing, Creating, OnExisting
  <2>3. \/ doing[p] = "create: read ids" /\ doing'[p] = "create: write ids"
        \/ doing[p] = "archive: read ids" /\ doing'[p] = "archive: write ids"
    BY <1>0, <1>1 DEF ReadIds, Proceed, StoreType
  <2>4. on' = on /\ on \in [Process -> Session \cup {NoSession}] /\ on[p] \in Session /\ backend = "redis"
        /\ UNCHANGED <<backend, sess, msgs, ids, mem, sent, acked, removed, spoiled>>
    BY <1>0, <1>1, <2>3 DEF ReadIds, StoreType, BusyInv
  <2>5. doing'[p] \in OnExisting => Exists(on'[p])
    BY <1>0, <2>3, <2>4 DEF ExistsInv, OnExisting, Creating, HasRecord, Touching
  <2> QED BY <2>1, <2>2, <2>3, <2>4, <2>5, ReadStep DEF HasRecord, Touching, Creating
<1>2. CASE ArchiveReads(p) \/ TitleReads(p)
  <2>1. PICK s \in Session, r \in Rec :
           /\ Known(s) /\ r.status = sess[s].status
           /\ on' = [on EXCEPT ![p] = s] /\ copy' = [copy EXCEPT ![p].rec = r]
    BY <1>0, <1>2, SessionFacts DEF ArchiveReads, TitleReads, Rec
  <2>2. copy' \in [Process -> CopyType] /\ copy'[p].rec = r
    BY <1>0, <1>c, <2>1 DEF StoreType, CopyType
  <2>3. doing' \in [Process -> Doing] /\ doing'[p] \in {"archive: write session", "title: write session"}
    BY <1>0, <1>2 DEF ArchiveReads, TitleReads, Proceed, StoreType, Doing, OnExisting, HasRecord
  <2>4. on' \in [Process -> Session \cup {NoSession}] /\ on'[p] = s /\ OthersStay(p)
    BY <1>0, <1>2, <2>1 DEF StoreType, OthersStay, ArchiveReads, TitleReads, Proceed
  <2>5. backend = "redis" /\ UNCHANGED <<backend, sess, msgs, ids, mem, sent, acked, removed, spoiled>>
    BY <1>2 DEF ArchiveReads, TitleReads
  <2>6. Exists(s)
    BY <2>1 DEF Known
  <2> QED BY <2>1, <2>2, <2>3, <2>4, <2>5, <2>6, ReadStep DEF Creating, Touching, Exists
<1>3. CASE TouchReads(p) \/ TouchCounts(p)
  <2>1. on[p] \in Session /\ Exists(on[p]) /\ backend = "redis"
        /\ doing[p] \in {"touch: read session", "touch: count"}
    BY <1>0, <1>3 DEF TouchReads, TouchCounts, BusyInv, ExistsInv, OnExisting, Touching
  <2>2. PICK r \in Rec : r.status # "absent" /\ copy' = [copy EXCEPT ![p].rec = r]
    <3>1. CASE TouchReads(p)
      BY <1>0, <3>1, <2>1, SessionFacts DEF TouchReads, Exists
    <3>2. CASE TouchCounts(p)
      <4>1. Len(msgs[on[p]]) \in Nat
        <5>1. msgs[on[p]] \in Seq(Nat)
          BY <1>0, <2>1, SessionFacts
        <5> QED BY <5>1
      <4>2. copy[p].rec \in Rec /\ copy[p].rec.status # "absent"
        BY <1>0, <3>2, CopyFacts DEF TouchCounts, ExistsInv, HasRecord
      <4>3. [copy[p].rec EXCEPT !.count = Len(msgs[on[p]])] \in Rec
            /\ [copy[p].rec EXCEPT !.count = Len(msgs[on[p]])].status # "absent"
        BY <4>1, <4>2 DEF Rec
      <4>4. copy' = [copy EXCEPT ![p].rec = [copy[p].rec EXCEPT !.count = Len(msgs[on[p]])]]
        BY <3>2 DEF TouchCounts
      <4> QED BY <4>3, <4>4
    <3> QED BY <1>3, <3>1, <3>2
  <2>3. copy' \in [Process -> CopyType] /\ copy'[p].rec = r /\ copy'[p].msg = copy[p].msg
    BY <1>0, <1>c, <2>2 DEF StoreType, CopyType
  <2>4. doing' \in [Process -> Doing] /\ doing'[p] \in {"touch: count", "touch: write session"} /\ OthersStay(p)
    BY <1>0, <1>3, <2>2 DEF TouchReads, TouchCounts, Proceed, StoreType, Doing, OnExisting, Touching, OthersStay
  <2>5. on' = on /\ on \in [Process -> Session \cup {NoSession}]
        /\ UNCHANGED <<backend, sess, msgs, ids, mem, sent, acked, removed, spoiled>>
    BY <1>0, <1>3 DEF TouchReads, TouchCounts, StoreType
  <2> QED BY <2>1, <2>2, <2>3, <2>4, <2>5, ReadStep DEF Creating, Touching
<1>4. CASE ReadRaises(p)
  <2>1. Return(p) /\ UNCHANGED <<backend, sess, msgs, ids, mem, sent, acked, removed, spoiled>>
    BY <1>4 DEF ReadRaises
  <2> QED BY <1>0, <2>1, ReturnFacts, ReadStep DEF HasRecord, OnExisting, Creating, Touching
<1> QED BY <1>1, <1>2, <1>3, <1>4

\* A write of a record that goes on existing, and the end of the operation.
LEMMA RecordStep ==
    ASSUME StoreInv, NEW p \in Process, OthersStay(p), NEW r \in Rec, r.status # "absent",
           on[p] \in Session, backend = "redis",
           sess' = sess \/ sess' = [sess EXCEPT ![on[p]] = r],
           UNCHANGED <<backend, msgs, ids, mem, sent, removed, spoiled>>,
           doing' \in [Process -> Doing], on' \in [Process -> Session \cup {NoSession}],
           copy' \in [Process -> CopyType],
           acked' = acked \/ (doing[p] \in Touching /\ acked' = acked \cup {<<copy[p].msg, on[p]>>}),
           \/ doing'[p] = "idle" /\ on'[p] = NoSession
           \/ doing[p] \in OnExisting /\ doing'[p] = "archive: read ids" /\ on'[p] = on[p]
    PROVE  StoreInv'
<1>0. StoreType /\ BusyInv /\ ExistsInv /\ CreatorInv /\ RemovedInv /\ ListInv /\ MessageKept
  BY DEF StoreInv
<1>c. copy[p].msg \in Nat BY <1>0, CopyFacts
<1>1. StoreType'
  <2>1. sess' \in [Session -> Rec]
    BY <1>0 DEF StoreType
  <2>2. acked' \in SUBSET (Nat \X Session)
    <3>1. <<copy[p].msg, on[p]>> \in Nat \X Session
      BY <1>c
    <3>2. acked \in SUBSET (Nat \X Session)
      BY <1>0 DEF StoreType
    <3> QED BY <3>1, <3>2
  <2> QED BY <1>0, <2>1, <2>2 DEF StoreType
<1>2. \A s \in Session : Exists(s) => Exists(s)'
  BY <1>0 DEF Exists, StoreType
<1>3. BusyInv' /\ ExistsInv'
  <2>1. BusyInv'
    BY <1>0 DEF BusyInv, OthersStay
  <2>2. \A q \in Process : doing'[q] \in HasRecord => copy'[q].rec.status # "absent"
    BY <1>0 DEF ExistsInv, OthersStay, HasRecord
  <2>3. ASSUME NEW q \in Process, doing'[q] \in OnExisting PROVE Exists(on[q])' /\ on'[q] = on[q]
    <3>1. on'[q] = on[q] /\ doing[q] \in OnExisting
      BY <2>3 DEF OthersStay, OnExisting, HasRecord, Touching
    <3>2. on[q] \in Session /\ Exists(on[q])
      BY <1>0, <3>1 DEF BusyInv, ExistsInv, OnExisting, HasRecord, Touching
    <3>3. on'[q] \in Session /\ sess'[on[q]].status # "absent"
      BY <1>2, <3>1, <3>2 DEF Exists
    <3> QED BY <3>1, <3>3 DEF Exists
  <2> QED BY <2>1, <2>2, <2>3 DEF ExistsInv
<1>4. CreatorInv'
  <2> SUFFICES ASSUME NEW q \in Process, doing'[q] \in Creating
               PROVE  q \in Web /\ on'[q] \notin removed' /\ \A x \in Process : x # q => on'[x] # on'[q]
    BY DEF CreatorInv
  <2>1. q # p /\ doing[q] \in Creating /\ on'[q] = on[q] /\ on[q] \in Session
    BY <1>0 DEF OthersStay, Creating, BusyInv
  <2>2. q \in Web /\ on[q] \notin removed /\ \A x \in Process : x # q => on[x] # on[q]
    BY <1>0, <2>1 DEF CreatorInv
  <2>3. on[p] # on[q]
    BY <2>1, <2>2
  <2> QED BY <1>0, <2>1, <2>2, <2>3, StoreAssumption DEF OthersStay
<1>5. RemovedInv'
  BY <1>0, <1>2 DEF RemovedInv, StoreType
<1>6. ListInv'
  <2> SUFFICES ASSUME NEW q \in Process, on'[q] \notin spoiled
               PROVE  /\ doing'[q] = "message: write list" =>
                            /\ copy'[q].list = msgs[on'[q]]
                            /\ \A x \in Process : doing'[x] = "message: write list" /\ on'[x] = on'[q] => x = q
                      /\ doing'[q] \in Touching => copy'[q].msg \in Range(msgs[on'[q]])
    BY DEF ListInv
  <2>1. ASSUME doing'[q] = "message: write list"
        PROVE  /\ copy'[q].list = msgs[on'[q]]
               /\ \A x \in Process : doing'[x] = "message: write list" /\ on'[x] = on'[q] => x = q
    <3>1. q # p /\ doing[q] = "message: write list" /\ on'[q] = on[q] /\ copy'[q] = copy[q]
      BY <2>1 DEF OthersStay
    <3>2. \A x \in Process : doing'[x] = "message: write list" =>
             doing[x] = "message: write list" /\ on'[x] = on[x]
      BY <2>1 DEF OthersStay
    <3>3. /\ copy[q].list = msgs[on[q]]
          /\ \A x \in Process : doing[x] = "message: write list" /\ on[x] = on[q] => x = q
      BY <1>0, <3>1 DEF ListInv
    <3> QED BY <3>1, <3>2, <3>3
  <2>2. ASSUME doing'[q] \in Touching PROVE copy'[q].msg \in Range(msgs[on'[q]])
    BY <1>0, <2>2 DEF ListInv, OthersStay, Touching
  <2> QED BY <2>1, <2>2
<1>7. MessageKept'
  <2> SUFFICES ASSUME NEW a \in acked', a[2] \notin spoiled
               PROVE  a[1] \in Range(msgs[a[2]]) \/ \E q \in Process : a \in mem[q]
    BY DEF MessageKept
  <2>1. CASE a \in acked
    BY <1>0, <2>1 DEF MessageKept
  <2>2. CASE doing[p] \in Touching /\ a = <<copy[p].msg, on[p]>>
    BY <1>0, <2>2 DEF ListInv
  <2> QED BY <2>1, <2>2
<1> QED BY <1>1, <1>3, <1>4, <1>5, <1>6, <1>7 DEF StoreInv

LEMMA StoreRecords ==
    ASSUME StoreInv, NEW p \in Process, ArchiveWrites(p) \/ TouchWrites(p) \/ TitleWrites(p)
    PROVE  StoreInv'
<1>0. StoreType /\ BusyInv /\ ExistsInv
  BY DEF StoreInv
<1>1. /\ doing[p] \in HasRecord /\ on[p] \in Session /\ backend = "redis"
      /\ copy[p].rec \in Rec /\ copy[p].rec.status # "absent"
  BY <1>0, CopyFacts DEF ArchiveWrites, TouchWrites, TitleWrites, HasRecord, BusyInv, ExistsInv
<1>2. CASE ArchiveWrites(p)
  <2> DEFINE r == [copy[p].rec EXCEPT !.status = "deleted"]
  <2>1. r \in Rec /\ r.status # "absent"
    BY <1>1 DEF Rec
  <2>2. sess' = sess \/ sess' = [sess EXCEPT ![on[p]] = r]
    BY <1>2 DEF ArchiveWrites
  <2>3. PICK ok \in BOOLEAN : copy' = [copy EXCEPT ![p].clean = ok]
    BY <1>2 DEF ArchiveWrites
  <2>4. copy' \in [Process -> CopyType]
    BY <1>0, <2>3 DEF StoreType, CopyType
  <2>5. doing' \in [Process -> Doing] /\ doing'[p] = "archive: read ids" /\ OthersStay(p)
    BY <1>0, <1>2, <2>3 DEF ArchiveWrites, Proceed, StoreType, Doing, OnExisting, OthersStay
  <2>6. /\ UNCHANGED <<backend, msgs, ids, mem, sent, removed, spoiled, acked, on>>
        /\ on \in [Process -> Session \cup {NoSession}] /\ doing[p] \in OnExisting
    BY <1>0, <1>1, <1>2 DEF ArchiveWrites, StoreType, OnExisting
  <2> HIDE DEF r
  <2> QED BY <1>1, <2>1, <2>2, <2>4, <2>5, <2>6, RecordStep
<1>3. CASE TouchWrites(p) \/ TitleWrites(p)
  <2>1. Return(p) /\ (sess' = sess \/ sess' = [sess EXCEPT ![on[p]] = copy[p].rec])
    BY <1>3 DEF TouchWrites, TitleWrites
  <2>2. UNCHANGED <<backend, msgs, ids, mem, sent, removed, spoiled>>
    BY <1>3 DEF TouchWrites, TitleWrites
  <2>3. acked' = acked \/ (doing[p] \in Touching /\ acked' = acked \cup {<<copy[p].msg, on[p]>>})
    BY <1>3 DEF TouchWrites, TitleWrites, Touching
  <2> QED BY <1>0, <1>1, <2>1, <2>2, <2>3, ReturnFacts, RecordStep
<1> QED BY <1>2, <1>3

\* The list of ids: written as it was read, with one id more or less.
LEMMA StoreIds ==
    ASSUME StoreInv, NEW p \in Process, CreateWritesIds(p) \/ ArchiveWritesIds(p)
    PROVE  StoreInv'
<1>0. StoreType /\ BusyInv /\ ExistsInv /\ CreatorInv /\ RemovedInv /\ ListInv /\ MessageKept
  BY DEF StoreInv
<1>c. copy[p].ids \in SUBSET Session BY <1>0, CopyFacts
<1>1. /\ doing[p] \in {"create: write ids", "archive: write ids"} /\ on[p] \in Session /\ backend = "redis"
      /\ UNCHANGED <<backend, sess, msgs, mem, sent, acked, spoiled>>
      /\ Return(p)
  BY <1>0 DEF CreateWritesIds, ArchiveWritesIds, BusyInv
<1>2. /\ doing' \in [Process -> Doing] /\ doing'[p] = "idle"
      /\ on' \in [Process -> Session \cup {NoSession}] /\ on'[p] = NoSession
      /\ copy' \in [Process -> CopyType]
      /\ OthersStay(p)
  BY <1>0, <1>1, ReturnFacts
<1>3. /\ ids' \in SUBSET Session /\ removed' \in SUBSET (removed \cup {on[p]})
      /\ removed' \cap ids' = {}
      /\ on[p] \in removed' => on[p] \in removed \/ Exists(on[p])
      /\ doing[p] \in Creating => on[p] \notin removed'
  <2>1. CASE CreateWritesIds(p)
    <3>1. on[p] \notin removed
      BY <1>0, <2>1 DEF CreateWritesIds, CreatorInv, Creating
    <3>2. \/ ids' = copy[p].ids \cup {on[p]} /\ removed' = removed \ (copy[p].ids \ ids)
          \/ ids' = ids /\ removed' = removed
      BY <2>1 DEF CreateWritesIds, PutBack
    <3> QED BY <1>0, <1>c, <1>1, <3>1, <3>2 DEF RemovedInv, StoreType
  <2>2. CASE ArchiveWritesIds(p)
    <3>1. \/ /\ ids' = copy[p].ids \ {on[p]}
             /\ removed' \in SUBSET ((removed \ (copy[p].ids \ ids)) \cup {on[p]})
          \/ ids' = ids /\ (removed' = removed \/ (on[p] \notin ids /\ removed' = removed \cup {on[p]}))
      BY <2>2 DEF ArchiveWritesIds, PutBack
    <3>2. Exists(on[p]) /\ doing[p] \notin Creating
      BY <1>0, <2>2 DEF ArchiveWritesIds, ExistsInv, OnExisting, Creating
    <3> QED BY <1>0, <1>c, <1>1, <3>1, <3>2 DEF RemovedInv, StoreType
  <2> QED BY <2>1, <2>2
<1>4. StoreType'
  BY <1>0, <1>1, <1>2, <1>3 DEF StoreType
<1>5. BusyInv' /\ ExistsInv'
  BY <1>0, <1>1, <1>2 DEF BusyInv, ExistsInv, OthersStay, Exists, HasRecord, OnExisting, Touching
<1>6. CreatorInv'
  <2> SUFFICES ASSUME NEW q \in Process, doing'[q] \in Creating
               PROVE  q \in Web /\ on'[q] \notin removed' /\ \A x \in Process : x # q => on'[x] # on'[q]
    BY DEF CreatorInv
  <2>1. q # p /\ doing[q] \in Creating /\ on'[q] = on[q] /\ on[q] \in Session
    BY <1>0, <1>2 DEF OthersStay, Creating, BusyInv
  <2>2. on[q] \notin removed /\ on[p] # on[q] /\ q \in Web /\ \A x \in Process : x # q => on[x] # on[q]
    BY <1>0, <2>1 DEF CreatorInv
  <2>3. on[q] \notin removed'
    BY <1>3, <2>2
  <2> QED BY <1>2, <2>1, <2>2, <2>3, StoreAssumption DEF OthersStay
<1>7. RemovedInv'
  BY <1>0, <1>1, <1>3 DEF RemovedInv, Exists
<1>8. ListInv'
  <2> SUFFICES ASSUME NEW q \in Process, on'[q] \notin spoiled, doing'[q] # "idle"
               PROVE  /\ doing'[q] = "message: write list" =>
                            /\ copy'[q].list = msgs[on'[q]]
                            /\ \A x \in Process : doing'[x] = "message: write list" /\ on'[x] = on'[q] => x = q
                      /\ doing'[q] \in Touching => copy'[q].msg \in Range(msgs[on'[q]])
    BY <1>1 DEF ListInv, Touching
  <2>1. doing'[q] = doing[q] /\ on'[q] = on[q] /\ copy'[q] = copy[q]
    BY <1>2 DEF OthersStay
  <2>2. \A x \in Process : doing'[x] = "message: write list" => doing[x] = "message: write list" /\ on'[x] = on[x]
    BY <1>2 DEF OthersStay
  <2>3. /\ doing[q] = "message: write list" =>
              /\ copy[q].list = msgs[on[q]]
              /\ \A x \in Process : doing[x] = "message: write list" /\ on[x] = on[q] => x = q
        /\ doing[q] \in Touching => copy[q].msg \in Range(msgs[on[q]])
    BY <1>0, <2>1 DEF ListInv
  <2> QED BY <2>1, <2>2, <2>3
<1>9. MessageKept'
  BY <1>0, <1>1 DEF MessageKept
<1> QED BY <1>4, <1>5, <1>6, <1>7, <1>8, <1>9 DEF StoreInv

LEMMA StoreCreates ==
    ASSUME StoreInv, NEW p \in Web, CreateSession(p)
    PROVE  StoreInv'
<1>0. StoreType /\ BusyInv /\ ExistsInv /\ CreatorInv /\ RemovedInv /\ ListInv /\ MessageKept /\ p \in Process
  BY DEF StoreInv, Process
<1>1. PICK s \in Session :
         /\ ~Exists(s) /\ s \notin Range(on) /\ on' = [on EXCEPT ![p] = s]
         /\ sess' = sess \/ sess' = [sess EXCEPT ![s] = NewSession]
  BY DEF CreateSession
<1>2. /\ backend = "redis" /\ doing[p] = "idle" /\ doing'[p] = "create: read ids"
      /\ doing' \in [Process -> Doing] /\ OthersStay(p) /\ copy' = copy
      /\ UNCHANGED <<backend, msgs, ids, mem, sent, acked, removed, spoiled>>
  BY <1>0, <1>1 DEF CreateSession, Proceed, StoreType, Doing, Creating, OthersStay
<1>3. on' \in [Process -> Session \cup {NoSession}] /\ on'[p] = s /\ \A q \in Process : on[q] # s
  BY <1>0, <1>1 DEF StoreType, Range
<1>4. NewSession \in Rec /\ NewSession.status # "absent"
  BY DEF NewSession, Rec
<1>5. StoreType'
  <2>1. sess' \in [Session -> Rec]
    BY <1>0, <1>1, <1>4 DEF StoreType
  <2> QED BY <1>0, <1>2, <1>3, <2>1 DEF StoreType
<1>6. \A t \in Session : t # s => sess'[t] = sess[t]
  BY <1>0, <1>1 DEF StoreType
<1>7. BusyInv'
  BY <1>0, <1>2, <1>3 DEF BusyInv, OthersStay
<1>8. ExistsInv'
  <2> SUFFICES ASSUME NEW q \in Process, doing'[q] \in OnExisting
               PROVE  (doing'[q] \in HasRecord => copy'[q].rec.status # "absent") /\ sess'[on'[q]].status # "absent"
    BY DEF ExistsInv, OnExisting, Exists
  <2>1. q # p /\ doing[q] \in OnExisting /\ doing'[q] = doing[q] /\ on'[q] = on[q] /\ copy'[q] = copy[q]
    BY <1>2 DEF OthersStay, OnExisting, HasRecord, Touching
  <2>2. on[q] \in Session /\ on[q] # s /\ Exists(on[q]) /\ (doing[q] \in HasRecord => copy[q].rec.status # "absent")
    BY <1>0, <1>3, <2>1 DEF ExistsInv, BusyInv, OnExisting, HasRecord, Touching
  <2> QED BY <1>6, <2>1, <2>2 DEF Exists
<1>9. CreatorInv'
  <2>0. s \notin removed
    BY <1>0, <1>1 DEF RemovedInv
  <2> SUFFICES ASSUME NEW q \in Process, doing'[q] \in Creating
               PROVE  q \in Web /\ on'[q] \notin removed /\ \A x \in Process : x # q => on'[x] # on'[q]
    BY <1>2 DEF CreatorInv
  <2>1. CASE q = p
    BY <1>2, <1>3, <2>0, <2>1 DEF OthersStay
  <2>2. CASE q # p
    <3>1. doing[q] \in Creating /\ on'[q] = on[q]
      BY <1>2, <2>2 DEF OthersStay
    <3> QED BY <1>0, <1>2, <1>3, <3>1 DEF CreatorInv, OthersStay
  <2> QED BY <2>1, <2>2
<1>10. RemovedInv'
  <2>1. \A t \in removed : sess'[t] = sess[t]
    BY <1>0, <1>1, <1>6 DEF RemovedInv, StoreType
  <2> QED BY <1>0, <1>2, <2>1 DEF RemovedInv, Exists
<1>11. ListInv'
  <2> SUFFICES ASSUME NEW q \in Process, on'[q] \notin spoiled', doing'[q] # "idle"
               PROVE  /\ doing'[q] = "message: write list" =>
                            /\ copy'[q].list = msgs'[on'[q]]
                            /\ \A x \in Process : doing'[x] = "message: write list" /\ on'[x] = on'[q] => x = q
                      /\ doing'[q] \in Touching => copy'[q].msg \in Range(msgs'[on'[q]])
    BY DEF ListInv, Touching
  <2>1. CASE q = p
    BY <1>2, <2>1 DEF Touching
  <2>2. CASE q # p
    <3>1. doing'[q] = doing[q] /\ on'[q] = on[q] /\ copy'[q] = copy[q]
      BY <1>2, <2>2 DEF OthersStay
    <3>2. \A x \in Process : doing'[x] = "message: write list" => doing[x] = "message: write list" /\ on'[x] = on[x]
      BY <1>2 DEF OthersStay
    <3>3. on[q] \notin spoiled
      BY <1>2, <3>1
    <3>4. /\ doing[q] = "message: write list" =>
                /\ copy[q].list = msgs[on[q]]
                /\ \A x \in Process : doing[x] = "message: write list" /\ on[x] = on[q] => x = q
          /\ doing[q] \in Touching => copy[q].msg \in Range(msgs[on[q]])
      BY <1>0, <3>3 DEF ListInv
    <3> QED BY <1>2, <3>1, <3>2, <3>4
  <2> QED BY <2>1, <2>2
<1>12. MessageKept'
  BY <1>0, <1>2 DEF MessageKept
<1> QED BY <1>5, <1>7, <1>8, <1>9, <1>10, <1>11, <1>12 DEF StoreInv

\* A message: the list is read, then written with the message at its end.
LEMMA StoreMessageReads ==
    ASSUME StoreInv, NEW p \in Horse, MessageReads(p)
    PROVE  StoreInv'
<1>0. StoreType /\ BusyInv /\ ExistsInv /\ CreatorInv /\ RemovedInv /\ ListInv /\ MessageKept /\ p \in Process
  BY DEF StoreInv, Process
<1>1. PICK s \in Session :
         /\ Known(s) /\ on' = [on EXCEPT ![p] = s]
         /\ copy' = [copy EXCEPT ![p].list = msgs[s], ![p].msg = sent + 1]
         /\ spoiled' = IF Writing(s) # {} THEN spoiled \cup {s} ELSE spoiled
  BY DEF MessageReads
<1>2. /\ backend = "redis" /\ doing[p] = "idle" /\ doing'[p] = "message: write list" /\ sent' = sent + 1
      /\ doing' \in [Process -> Doing] /\ OthersStay(p)
      /\ UNCHANGED <<backend, sess, msgs, ids, mem, acked, removed>>
  BY <1>0, <1>1 DEF MessageReads, Proceed, StoreType, Doing, OnExisting, OthersStay
<1>3. on' \in [Process -> Session \cup {NoSession}] /\ on'[p] = s
  BY <1>0, <1>1 DEF StoreType
<1>4. copy' \in [Process -> CopyType] /\ copy'[p].list = msgs[s]
  <2>1. msgs[s] \in Seq(Nat) /\ sent + 1 \in Nat /\ copy[p] \in CopyType
    BY <1>0, SessionFacts, CopyFacts DEF StoreType
  <2>2. copy' = [copy EXCEPT ![p] = [copy[p] EXCEPT !.list = msgs[s], !.msg = sent + 1]]
    BY <1>0, <1>1 DEF StoreType
  <2>3. [copy[p] EXCEPT !.list = msgs[s], !.msg = sent + 1] \in CopyType
    BY <2>1 DEF CopyType
  <2>4. [copy[p] EXCEPT !.list = msgs[s], !.msg = sent + 1].list = msgs[s]
    BY <2>1 DEF CopyType
  <2> HIDE DEF CopyType
  <2> QED BY <1>0, <2>2, <2>3, <2>4 DEF StoreType
<1>5. StoreType'
  <2>1. spoiled \in SUBSET Session /\ sent \in Nat
    BY <1>0 DEF StoreType
  <2>2. spoiled' = spoiled \/ spoiled' = spoiled \cup {s}
    BY <1>1
  <2>3. spoiled' \in SUBSET Session
    BY <2>1, <2>2
  <2>4. sent' = sent + 1
    BY <1>2
  <2>5. sent' \in Nat
    BY <2>1, <2>4
  <2> QED BY <1>0, <1>2, <1>3, <1>4, <2>3, <2>5 DEF StoreType
<1>6. BusyInv'
  BY <1>0, <1>2, <1>3 DEF BusyInv, OthersStay
<1>7. ExistsInv'
  BY <1>0, <1>1, <1>2, <1>3 DEF ExistsInv, OthersStay, Exists, Known, HasRecord
<1>8. CreatorInv'
  <2> SUFFICES ASSUME NEW q \in Process, doing'[q] \in Creating
               PROVE  q \in Web /\ on'[q] \notin removed /\ \A x \in Process : x # q => on'[x] # on'[q]
    BY <1>2 DEF CreatorInv
  <2>1. q # p /\ doing[q] \in Creating /\ on'[q] = on[q]
    BY <1>2 DEF OthersStay, Creating
  <2>2. q \in Web /\ on[q] \notin removed /\ \A x \in Process : x # q => on[x] # on[q]
    BY <1>0, <2>1 DEF CreatorInv
  <2>3. on[q] # s
    BY <1>1, <2>1, <2>2 DEF Known, Creating
  <2> QED BY <1>2, <1>3, <2>1, <2>2, <2>3 DEF OthersStay
<1>9. RemovedInv'
  BY <1>0, <1>2 DEF RemovedInv, Exists
<1>10. ListInv'
  <2> SUFFICES ASSUME NEW q \in Process, on'[q] \notin spoiled', doing'[q] # "idle"
               PROVE  /\ doing'[q] = "message: write list" =>
                            /\ copy'[q].list = msgs'[on'[q]]
                            /\ \A x \in Process : doing'[x] = "message: write list" /\ on'[x] = on'[q] => x = q
                      /\ doing'[q] \in Touching => copy'[q].msg \in Range(msgs'[on'[q]])
    BY DEF ListInv, Touching
  <2>0. on'[q] \notin spoiled
    BY <1>1
  <2>1. CASE q = p
    <3>1. Writing(s) = {}
      BY <1>1, <1>3, <2>1
    <3>2. \A x \in Process : doing'[x] = "message: write list" /\ on'[x] = s => x = p
      BY <1>2, <3>1 DEF Writing, OthersStay
    <3> QED BY <1>2, <1>3, <1>4, <2>1, <3>2 DEF Touching
  <2>2. CASE q # p
    <3>1. doing'[q] = doing[q] /\ on'[q] = on[q] /\ copy'[q] = copy[q]
      BY <1>2, <2>2 DEF OthersStay
    <3>2. ASSUME doing[q] = "message: write list" PROVE on[q] # s
      <4>1. on[q] = s => q \in Writing(s)
        BY <3>2 DEF Writing
      <4>2. on[q] = s => s \in spoiled'
        BY <1>1, <4>1
      <4> QED BY <3>1, <4>2
    <3>3. \A x \in Process : doing'[x] = "message: write list" =>
             (x = p /\ on'[x] = s) \/ (doing[x] = "message: write list" /\ on'[x] = on[x])
      BY <1>2, <1>3 DEF OthersStay
    <3>4. on[q] \notin spoiled
      BY <2>0, <3>1
    <3>5. /\ doing[q] = "message: write list" =>
                /\ copy[q].list = msgs[on[q]]
                /\ \A x \in Process : doing[x] = "message: write list" /\ on[x] = on[q] => x = q
          /\ doing[q] \in Touching => copy[q].msg \in Range(msgs[on[q]])
      BY <1>0, <3>4 DEF ListInv
    <3> QED BY <1>2, <3>1, <3>2, <3>3, <3>5
  <2> QED BY <2>1, <2>2
<1>11. MessageKept'
  BY <1>0, <1>1, <1>2 DEF MessageKept
<1> QED BY <1>5, <1>6, <1>7, <1>8, <1>9, <1>10, <1>11 DEF StoreInv

LEMMA StoreMessageWrites ==
    ASSUME StoreInv, NEW p \in Horse, MessageWrites(p)
    PROVE  StoreInv'
<1>0. StoreType /\ BusyInv /\ ExistsInv /\ CreatorInv /\ RemovedInv /\ ListInv /\ MessageKept /\ p \in Process
  BY DEF StoreInv, Process
<1> DEFINE s == on[p]
           longer == Append(copy[p].list, copy[p].msg)
<1>1. \/ msgs' = [msgs EXCEPT ![s] = longer] /\ spoiled' = spoiled
      \/ msgs' = msgs /\ spoiled' = spoiled \cup {s}
  BY DEF MessageWrites
<1>2. /\ doing[p] = "message: write list" /\ doing'[p] = "touch: read session"
      /\ doing' \in [Process -> Doing] /\ OthersStay(p)
      /\ UNCHANGED <<backend, sess, ids, mem, on, copy, sent, acked, removed>>
      /\ s \in Session
  BY <1>0 DEF MessageWrites, Proceed, StoreType, Doing, OnExisting, Touching, OthersStay, BusyInv
<1>3. /\ copy[p].list \in Seq(Nat) /\ copy[p].msg \in Nat
      /\ longer \in Seq(Nat) /\ Range(longer) = Range(copy[p].list) \cup {copy[p].msg}
  <2>1. copy[p].list \in Seq(Nat) /\ copy[p].msg \in Nat
    BY <1>0, CopyFacts
  <2> QED BY <2>1, RangeAppend
<1> HIDE DEF longer
<1>4. StoreType'
  <2>1. msgs' \in [Session -> Seq(Nat)] /\ spoiled' \in SUBSET Session
    BY <1>0, <1>1, <1>2, <1>3 DEF StoreType
  <2> QED BY <1>0, <1>2, <2>1 DEF StoreType
<1>5. \* a session that is still not spoiled only gains the message
      ASSUME NEW t \in Session, t \notin spoiled'
      PROVE  /\ t \notin spoiled
             /\ t # s => msgs'[t] = msgs[t]
             /\ t = s => Range(msgs'[t]) = Range(msgs[t]) \cup {copy[p].msg}
  <2>1. t \notin spoiled
    BY <1>1, <1>5
  <2>2. t # s => msgs'[t] = msgs[t]
    BY <1>0, <1>1, <1>5 DEF StoreType
  <2>3. ASSUME t = s PROVE Range(msgs'[t]) = Range(msgs[t]) \cup {copy[p].msg}
    <3>1. copy[p].list = msgs[s]
      BY <1>0, <1>2, <2>1, <2>3 DEF ListInv
    <3>2. msgs'[s] = longer
      BY <1>0, <1>1, <1>2, <1>5, <2>3 DEF StoreType
    <3> QED BY <1>3, <2>3, <3>1, <3>2
  <2> QED BY <2>1, <2>2, <2>3
<1>6. BusyInv' /\ ExistsInv'
  BY <1>0, <1>2 DEF BusyInv, ExistsInv, OthersStay, Exists, HasRecord, OnExisting, Touching
<1>7. CreatorInv'
  BY <1>0, <1>2 DEF CreatorInv, OthersStay, Creating
<1>8. RemovedInv'
  BY <1>0, <1>2 DEF RemovedInv, Exists
<1>9. ListInv'
  <2> SUFFICES ASSUME NEW q \in Process, on'[q] \notin spoiled', doing'[q] # "idle"
               PROVE  /\ doing'[q] = "message: write list" =>
                            /\ copy'[q].list = msgs'[on'[q]]
                            /\ \A x \in Process : doing'[x] = "message: write list" /\ on'[x] = on'[q] => x = q
                      /\ doing'[q] \in Touching => copy'[q].msg \in Range(msgs'[on'[q]])
    BY DEF ListInv, Touching
  <2>1. on'[q] = on[q] /\ copy'[q] = copy[q] /\ on[q] \in Session
    BY <1>0, <1>2, <1>4 DEF OthersStay, BusyInv
  <2>2. /\ on[q] \notin spoiled
        /\ on[q] # s => msgs'[on[q]] = msgs[on[q]]
        /\ on[q] = s => Range(msgs'[on[q]]) = Range(msgs[on[q]]) \cup {copy[p].msg}
    BY <1>5, <2>1
  <2>3. ASSUME doing'[q] = "message: write list"
        PROVE  /\ copy[q].list = msgs'[on[q]]
               /\ \A x \in Process : doing'[x] = "message: write list" /\ on[x] = on[q] => x = q
    <3>1. q # p /\ doing[q] = "message: write list"
      BY <1>2, <2>3 DEF OthersStay
    <3>2. /\ copy[q].list = msgs[on[q]]
          /\ \A x \in Process : doing[x] = "message: write list" /\ on[x] = on[q] => x = q
      BY <1>0, <2>2, <3>1 DEF ListInv
    <3>3. on[q] # s
      BY <1>0, <1>2, <3>1, <3>2
    <3>4. \A x \in Process : doing'[x] = "message: write list" => doing[x] = "message: write list"
      BY <1>2 DEF OthersStay
    <3> QED BY <2>2, <3>2, <3>3, <3>4
  <2>4. ASSUME doing'[q] \in Touching PROVE copy[q].msg \in Range(msgs'[on[q]])
    <3>1. CASE q = p
      BY <2>2, <3>1
    <3>2. CASE q # p
      <4>1. copy[q].msg \in Range(msgs[on[q]])
        BY <1>0, <1>2, <2>2, <2>4, <3>2 DEF ListInv, OthersStay
      <4> QED BY <2>2, <4>1
    <3> QED BY <3>1, <3>2
  <2> QED BY <1>2, <2>1, <2>3, <2>4
<1>10. MessageKept'
  <2> SUFFICES ASSUME NEW a \in acked, a[2] \notin spoiled'
               PROVE  a[1] \in Range(msgs'[a[2]]) \/ \E q \in Process : a \in mem[q]
    BY <1>2 DEF MessageKept
  <2>1. a[2] \in Session
    BY <1>0 DEF StoreType
  <2>2. a[1] \in Range(msgs[a[2]]) \/ \E q \in Process : a \in mem[q]
    BY <1>0, <1>5, <2>1 DEF MessageKept
  <2> QED BY <1>5, <2>1, <2>2
<1> QED BY <1>4, <1>6, <1>7, <1>8, <1>9, <1>10 DEF StoreInv

\* With Supabase an operation is one statement, and no process is in the middle of one.
LEMMA StoreStatements ==
    ASSUME StoreInv, NEW p \in Process, DbCreate(p) \/ DbArchive(p) \/ DbMessage(p) \/ DbTitle(p)
    PROVE  StoreInv'
<1>0. StoreType /\ BusyInv /\ ExistsInv /\ CreatorInv /\ RemovedInv /\ ListInv /\ MessageKept
  BY DEF StoreInv
<1>1. /\ backend = "supabase" /\ UNCHANGED <<backend, ids, doing, on, copy, spoiled>>
      /\ \A q \in Process : doing[q] = "idle"
  BY <1>0 DEF DbCreate, DbArchive, DbMessage, DbTitle, AtRest, BusyInv
<1>2. BusyInv' /\ ExistsInv' /\ CreatorInv' /\ ListInv'
  BY <1>1 DEF BusyInv, ExistsInv, CreatorInv, ListInv, HasRecord, OnExisting, Creating, Touching
<1>3. CASE DbCreate(p) \/ DbTitle(p) \/ DbArchive(p)
  <2>1. PICK s \in Session, r \in Rec :
           /\ sess' = sess \/ sess' = [sess EXCEPT ![s] = r]
           /\ r.status # "absent"
           /\ \/ removed' = removed /\ (Exists(s) => r.status = sess[s].status)
              \/ sess' = [sess EXCEPT ![s] = r] /\ removed' = removed \cup {s} /\ r.status = "deleted"
    <3>1. CASE DbCreate(p)
      <4>1. NewSession \in Rec /\ NewSession.status = "active"
        BY DEF NewSession, Rec
      <4> QED BY <3>1, <4>1 DEF DbCreate
    <3>2. CASE DbTitle(p)
      <4>1. PICK s \in Session : Known(s) /\ sess' = [sess EXCEPT ![s].titled = TRUE]
        BY <3>2 DEF DbTitle
      <4> DEFINE r == [sess[s] EXCEPT !.titled = TRUE]
      <4>2. r \in Rec /\ r.status = sess[s].status
        BY <1>0, SessionFacts DEF Rec
      <4>3. sess[s].status # "absent"
        BY <4>1 DEF Known, Exists
      <4>4. sess' = [sess EXCEPT ![s] = r] /\ removed' = removed
        BY <3>2, <4>1 DEF DbTitle
      <4> HIDE DEF r
      <4> QED BY <4>2, <4>3, <4>4
    <3>3. CASE DbArchive(p)
      <4>1. PICK s \in Session :
               \/ sess' = [sess EXCEPT ![s].status = "deleted"] /\ removed' = removed \cup {s}
               \/ Known(s) /\ sess' = sess /\ removed' = removed
        BY <3>3 DEF DbArchive
      <4> DEFINE r == [sess[s] EXCEPT !.status = "deleted"]
      <4>2. r \in Rec /\ r.status = "deleted" /\ sess[s] \in Rec
        BY <1>0, SessionFacts DEF Rec
      <4>3. CASE sess' = [sess EXCEPT ![s].status = "deleted"] /\ removed' = removed \cup {s}
        <5>1. sess' = [sess EXCEPT ![s] = r]
          BY <4>3
        <5> HIDE DEF r
        <5> QED BY <4>2, <4>3, <5>1
      <4>4. CASE Known(s) /\ sess' = sess /\ removed' = removed
        <5>1. sess[s].status # "absent"
          BY <4>4 DEF Known, Exists
        <5> QED BY <4>2, <4>4, <5>1
      <4> QED BY <4>1, <4>3, <4>4
    <3> QED BY <1>3, <3>1, <3>2, <3>3
  <2>2. UNCHANGED <<msgs, mem, sent, acked>>
    BY <1>3 DEF DbCreate, DbTitle, DbArchive
  <2>3. sess' \in [Session -> Rec] /\ removed' \in SUBSET Session
    BY <1>0, <2>1 DEF StoreType
  <2>4. StoreType'
    BY <1>0, <1>1, <2>2, <2>3 DEF StoreType
  <2>5. RemovedInv'
    BY <1>0, <1>1, <2>1 DEF RemovedInv, Exists, StoreType
  <2>6. MessageKept'
    BY <1>0, <1>1, <2>2 DEF MessageKept
  <2> QED BY <1>2, <2>4, <2>5, <2>6 DEF StoreInv
<1>4. CASE DbMessage(p)
  <2>1. PICK s \in Session :
           /\ acked' = acked \cup {<<sent + 1, s>>}
           /\ \/ /\ msgs' = [msgs EXCEPT ![s] = Append(@, sent + 1)]
                 /\ sess' = [sess EXCEPT ![s].count = @ + 1] /\ mem' = mem
              \/ msgs' = msgs /\ sess' = sess /\ mem' = [mem EXCEPT ![p] = @ \cup {<<sent + 1, s>>}]
    BY <1>4 DEF DbMessage
  <2>2. /\ sent \in Nat /\ sent + 1 \in Nat /\ sent' = sent + 1 /\ removed' = removed
        /\ msgs[s] \in Seq(Nat) /\ sess[s] \in Rec /\ sess[s].count \in Nat
        /\ <<sent + 1, s>> \in Nat \X Session
    BY <1>0, <1>4, SessionFacts DEF DbMessage, StoreType, Rec
  <2>3. Append(msgs[s], sent + 1) \in Seq(Nat)
        /\ Range(Append(msgs[s], sent + 1)) = Range(msgs[s]) \cup {sent + 1}
    BY <2>2, RangeAppend
  <2>4. /\ sess' \in [Session -> Rec] /\ \A t \in Session : sess'[t].status = sess[t].status
    <3>1. [sess[s] EXCEPT !.count = @ + 1] \in Rec /\ [sess[s] EXCEPT !.count = @ + 1].status = sess[s].status
      BY <2>2 DEF Rec
    <3>2. sess' = sess \/ sess' = [sess EXCEPT ![s] = [sess[s] EXCEPT !.count = @ + 1]]
      BY <2>1
    <3> QED BY <1>0, <3>1, <3>2 DEF StoreType
  <2>5. /\ msgs' \in [Session -> Seq(Nat)] /\ mem' \in [Process -> SUBSET (Nat \X Session)]
        /\ acked' \in SUBSET (Nat \X Session)
        /\ \A t \in Session : Range(msgs[t]) \subseteq Range(msgs'[t])
        /\ \A q \in Process : mem[q] \subseteq mem'[q]
        /\ sent + 1 \in Range(msgs'[s]) \/ <<sent + 1, s>> \in mem'[p]
    <3>1. CASE msgs' = [msgs EXCEPT ![s] = Append(@, sent + 1)] /\ mem' = mem
      BY <1>0, <2>1, <2>2, <2>3, <3>1 DEF StoreType
    <3>2. CASE msgs' = msgs /\ mem' = [mem EXCEPT ![p] = @ \cup {<<sent + 1, s>>}]
      BY <1>0, <2>1, <2>2, <3>2 DEF StoreType
    <3> QED BY <2>1, <3>1, <3>2
  <2>6. StoreType'
    BY <1>0, <1>1, <2>2, <2>4, <2>5 DEF StoreType
  <2>7. RemovedInv'
    BY <1>0, <1>1, <2>2, <2>4 DEF RemovedInv, Exists, StoreType
  <2>8. MessageKept'
    <3> SUFFICES ASSUME NEW a \in acked', a[2] \notin spoiled
                 PROVE  a[1] \in Range(msgs'[a[2]]) \/ \E q \in Process : a \in mem'[q]
      BY <1>1 DEF MessageKept
    <3>1. CASE a \in acked
      BY <1>0, <2>5, <3>1 DEF MessageKept, StoreType
    <3>2. CASE a = <<sent + 1, s>>
      BY <2>5, <3>2
    <3> QED BY <2>1, <3>1, <3>2
  <2> QED BY <1>2, <2>6, <2>7, <2>8 DEF StoreInv
<1> QED BY <1>3, <1>4
-----------------------------------------------------------------------------
LEMMA StoreStarts ==
    ASSUME StoreInit
    PROVE  StoreInv
<1>1. Blank \in CopyType /\ Blank.rec \in Rec /\ Blank.rec.status = "absent"
  <2>1. [NewSession EXCEPT !.status = "absent"] \in Rec /\ [NewSession EXCEPT !.status = "absent"].status = "absent"
    BY DEF NewSession, Rec
  <2>2. <<>> \in Seq(Nat) OBVIOUS
  <2> QED BY <2>1, <2>2 DEF Blank, CopyType
<1>2. StoreType
  <2>1. <<>> \in Seq(Nat) OBVIOUS
  <2> QED BY <1>1, <2>1 DEF StoreInit, StoreType, Doing
<1>3. BusyInv /\ ExistsInv /\ CreatorInv /\ ListInv
  BY DEF StoreInit, BusyInv, ExistsInv, CreatorInv, ListInv, HasRecord, OnExisting, Creating, Touching
<1>4. RemovedInv /\ MessageKept
  BY DEF StoreInit, RemovedInv, MessageKept
<1> QED BY <1>2, <1>3, <1>4 DEF StoreInv

LEMMA StoreSteps ==
    ASSUME StoreInv, [StoreNext]_storeVars
    PROVE  StoreInv'
<1>1. CASE StoreNext
  <2>1. ASSUME NEW p \in Web,
               \/ CreateSession(p) \/ ReadIds(p) \/ CreateWritesIds(p)
               \/ ArchiveReads(p) \/ ArchiveWrites(p) \/ ArchiveWritesIds(p)
               \/ ReadRaises(p) \/ DbCreate(p) \/ DbArchive(p)
        PROVE  StoreInv'
    BY <2>1, StoreReads, StoreRecords, StoreIds, StoreCreates, StoreStatements DEF Process
  <2>2. ASSUME NEW p \in Horse,
               \/ MessageReads(p) \/ MessageWrites(p) \/ TouchReads(p) \/ TouchCounts(p) \/ TouchWrites(p)
               \/ TitleReads(p) \/ TitleWrites(p) \/ ReadRaises(p) \/ DbMessage(p) \/ DbTitle(p)
        PROVE  StoreInv'
    BY <2>2, StoreReads, StoreRecords, StoreMessageReads, StoreMessageWrites, StoreStatements DEF Process
  <2> QED BY <1>1, <2>1, <2>2 DEF StoreNext
<1>2. CASE UNCHANGED storeVars
  BY <1>2 DEF storeVars, StoreInv, StoreType, BusyInv, ExistsInv, CreatorInv, RemovedInv, ListInv,
              MessageKept, Exists
<1> QED BY <1>1, <1>2

\* What create_message and archive_session answered stays true: a message of a session
\* that no two processes wrote at once is in its list or in the memory of the process
\* that took it, and a removed session is on nobody's list.
THEOREM AnswersStand == StoreSpec => []AnsweredStays
<1>1. StoreInit => StoreInv
  BY StoreStarts
<1>2. StoreInv /\ [StoreNext]_storeVars => StoreInv'
  BY StoreSteps
<1>3. StoreInv => AnsweredStays
  <2> SUFFICES ASSUME StoreInv PROVE AnsweredStays
    OBVIOUS
  <2>1. MessageKept /\ RemovedInv /\ StoreType
    BY DEF StoreInv
  <2>2. DeletedStaysUnlisted
    BY <2>1 DEF DeletedStaysUnlisted, list_sessions, RemovedInv, StoreType
  <2> QED BY <2>1, <2>2 DEF AnsweredStays
<1> QED BY <1>1, <1>2, <1>3, PTL DEF StoreSpec
-----------------------------------------------------------------------------
Label == {"idle", "start", "fetch", "fill", "rename", "check", "kick", "finish"}

SymbolsType ==
    /\ inode \in [File -> {"full", "empty", "torn"}]
    /\ path \in File \cup {0} /\ tmp \in File \cup {0}
    /\ thread \in [Worker -> [Thread -> Label]]
    /\ writes \in [Worker -> [Thread -> File \cup {0}]]
    /\ got \in [Worker -> [Thread -> {"nothing", "full", "empty"}]]
    /\ served \in [Worker -> {"nothing", "full", "empty"}]
    /\ failures \in Nat

\* Who fills a file has opened it and has an answer to put in it.
FillInv ==
    \A w \in Worker, t \in Thread : thread[w][t] = "fill" =>
        writes[w][t] \in File /\ got[w][t] # "nothing"

\* Before the first failure there is no empty list anywhere, in no file that a writer
\* still has open either.
NoEmptyList ==
    failures = 0 =>
        /\ \A f \in File : inode[f] # "empty"
        /\ \A w \in Worker, t \in Thread : got[w][t] # "empty"
        /\ \A w \in Worker : served[w] # "empty"

SymbolsInv == SymbolsType /\ FillInv /\ NoEmptyList

LEMMA MinIsMember ==
    ASSUME NEW S \in SUBSET Nat, S # {}
    PROVE  Min(S) \in S
BY LeastNumber DEF Min

\* The names and the descriptors are fewer than the files, so that a writer that makes
\* the temporary file finds a number for it.
LEMMA FreeFile ==
    ASSUME SymbolsType, tmp = 0
    PROVE  Min({f \in File : ~Used(f)}) \in File
<1> DEFINE n == Cardinality(Worker)
           Slot == Worker \X Thread
           Open == {writes[p[1]][p[2]] : p \in Slot}
<1>1. n \in Nat /\ IsFiniteSet(Worker)
  BY SymbolsAssumption, FS_CardinalityType
<1>2. IsFiniteSet(Thread) /\ Cardinality(Thread) = 3
  <2>1. IsFiniteSet({}) /\ Cardinality({}) = 0
    BY FS_EmptySet
  <2>2. IsFiniteSet({"get"}) /\ Cardinality({"get"}) = 1
    BY FS_Singleton
  <2>3. IsFiniteSet({"get"} \cup {"bg"}) /\ Cardinality({"get"} \cup {"bg"}) = 2
    BY <2>2, FS_AddElement
  <2>4. /\ IsFiniteSet({"get"} \cup {"bg"} \cup {"admin"})
        /\ Cardinality({"get"} \cup {"bg"} \cup {"admin"}) = 3
    BY <2>3, FS_AddElement
  <2>5. Thread = {"get"} \cup {"bg"} \cup {"admin"}
    BY DEF Thread
  <2> QED BY <2>4, <2>5
<1>3. IsFiniteSet(Slot) /\ Cardinality(Slot) = n * 3
  BY <1>1, <1>2, FS_Product
<1>4. IsFiniteSet(Open) /\ Cardinality(Open) <= n * 3 /\ Cardinality(Open) \in Nat
  <2> DEFINE g == [p \in Slot |-> writes[p[1]][p[2]]]
  <2>1. g \in Surjection(Slot, Open)
    BY DEF Surjection
  <2> HIDE DEF g, Slot, Open
  <2> QED BY <1>3, <2>1, FS_Surjection, FS_CardinalityType
<1>5. IsFiniteSet(Open \cup {path}) /\ Cardinality(Open \cup {path}) <= n * 3 + 1
  <2> HIDE DEF Open
  <2>1. Cardinality(Open \cup {path}) = IF path \in Open THEN Cardinality(Open) ELSE Cardinality(Open) + 1
    BY <1>4, FS_AddElement
  <2> QED BY <1>1, <1>4, <2>1, FS_AddElement
<1>6. Cardinality(File) = 3 * n + 2
  BY <1>1, FS_Interval DEF File
<1>7. \E f \in File : ~Used(f)
  <2> SUFFICES ASSUME \A f \in File : Used(f) PROVE FALSE
    OBVIOUS
  <2>1. ASSUME NEW f \in File PROVE f \in Open \cup {path}
    <3>1. f # 0
      BY <1>1 DEF File
    <3>2. Used(f)
      BY <2>1
    <3>3. CASE \E w \in Worker, t \in Thread : writes[w][t] = f
      <4>1. PICK w \in Worker, t \in Thread : writes[w][t] = f
        BY <3>3
      <4>2. <<w, t>> \in Slot /\ writes[<<w, t>>[1]][<<w, t>>[2]] = f
        BY <4>1
      <4> QED BY <4>2
    <3> QED BY <3>1, <3>2, <3>3 DEF Used
  <2>2. File \in SUBSET (Open \cup {path})
    BY <2>1
  <2> HIDE DEF Open
  <2>3. Cardinality(File) <= Cardinality(Open \cup {path})
    BY <1>5, <2>2, FS_Subset
  <2>4. Cardinality(Open \cup {path}) \in Nat
    BY <1>5, FS_CardinalityType
  <2> QED BY <1>1, <1>5, <1>6, <2>3, <2>4
<1>8. {f \in File : ~Used(f)} \in SUBSET Nat
  BY <1>1 DEF File
<1> QED BY <1>7, <1>8, MinIsMember

\* A step that changes no file, descriptor or answer.
LEMMA ThreadStep ==
    ASSUME SymbolsInv, NEW w \in Worker, NEW t \in Thread,
           UNCHANGED <<inode, path, tmp, writes, got, served, failures>>,
           thread' \in [Worker -> [Thread -> Label]],
           \A v \in Worker, u \in Thread : thread'[v][u] = "fill" => thread[v][u] = "fill"
    PROVE  SymbolsInv'
BY DEF SymbolsInv, SymbolsType, FillInv, NoEmptyList

\* What Goes does to the threads.
LEMMA GoesFacts ==
    ASSUME SymbolsType, NEW w \in Worker, NEW t \in Thread, NEW l \in Label, Goes(w, t, l)
    PROVE  /\ thread' \in [Worker -> [Thread -> Label]] /\ thread'[w][t] = l
           /\ \A v \in Worker, u \in Thread : thread'[v][u] = l \/ thread'[v][u] = thread[v][u]
           /\ \A v \in Worker, u \in Thread : <<v, u>> # <<w, t>> => thread'[v][u] = thread[v][u]
<1>1. thread' = [thread EXCEPT ![w] = [thread[w] EXCEPT ![t] = l]]
  BY DEF Goes, SymbolsType
<1>2. [thread[w] EXCEPT ![t] = l] \in [Thread -> Label]
  BY DEF SymbolsType
<1> QED BY <1>1, <1>2 DEF SymbolsType

LEMMA SymbolsStarts ==
    ASSUME SymbolsInit
    PROVE  SymbolsInv
<1>1. SymbolsType
  BY DEF SymbolsInit, SymbolsType, Label
<1>2. FillInv /\ NoEmptyList
  BY DEF SymbolsInit, FillInv, NoEmptyList
<1> QED BY <1>1, <1>2 DEF SymbolsInv

LEMMA SymbolsThreads ==
    ASSUME SymbolsInv, NEW w \in Worker,
           GetChecks(w) \/ _kick_background_refresh(w) \/ Refresh(w, "bg") \/ Refresh(w, "admin") \/ Finish(w)
    PROVE  SymbolsInv'
<1>0. SymbolsType /\ {"get", "bg", "admin"} \subseteq Thread /\ {"idle", "start", "fetch", "kick"} \subseteq Label
  BY DEF SymbolsInv, Thread, Label
<1>1. CASE GetChecks(w)
  <2>1. \E l \in {"kick", "idle"} : Goes(w, "get", l)
    BY <1>1 DEF GetChecks
  <2>2. UNCHANGED <<inode, path, tmp, writes, got, served, failures>>
    BY <1>1 DEF GetChecks
  <2> QED BY <1>0, <2>1, <2>2, GoesFacts, ThreadStep
<1>2. CASE _kick_background_refresh(w)
  <2> DEFINE row == [thread[w] EXCEPT !["get"] = "idle", !["bg"] = IF flag[w] THEN @ ELSE "start"]
  <2>1. thread' = [thread EXCEPT ![w] = row]
    BY <1>0, <1>2 DEF _kick_background_refresh, SymbolsType
  <2>2. /\ row \in [Thread -> Label]
        /\ \A u \in Thread : row[u] = "fill" => thread[w][u] = "fill"
    BY <1>0 DEF SymbolsType
  <2> HIDE DEF row
  <2>3. /\ thread' \in [Worker -> [Thread -> Label]]
        /\ \A v \in Worker, u \in Thread : thread'[v][u] = "fill" => thread[v][u] = "fill"
    BY <1>0, <2>1, <2>2 DEF SymbolsType
  <2>4. UNCHANGED <<inode, path, tmp, writes, got, served, failures>>
    BY <1>2 DEF _kick_background_refresh
  <2> QED BY <1>0, <2>3, <2>4, ThreadStep
<1>3. CASE Refresh(w, "bg") \/ Refresh(w, "admin")
  <2>1. \E t \in Thread : Goes(w, t, "fetch")
    BY <1>0, <1>3 DEF Refresh
  <2>2. UNCHANGED <<inode, path, tmp, writes, got, served, failures>>
    BY <1>3 DEF Refresh
  <2> QED BY <1>0, <2>1, <2>2, GoesFacts, ThreadStep
<1>4. CASE Finish(w)
  <2>1. Goes(w, "bg", "idle") /\ UNCHANGED <<inode, path, tmp, writes, got, served, failures>>
    BY <1>4 DEF Finish
  <2> QED BY <1>0, <2>1, GoesFacts, ThreadStep
<1> QED BY <1>1, <1>2, <1>3, <1>4

\* Only a whole file is served.
LEMMA SymbolsGet ==
    ASSUME SymbolsInv, NEW w \in Worker, Get(w)
    PROVE  SymbolsInv'
<1>0. SymbolsType /\ FillInv /\ NoEmptyList /\ "get" \in Thread /\ {"check", "fetch"} \subseteq Label
  BY DEF SymbolsInv, Thread, Label
<1>1. UNCHANGED <<inode, path, tmp, writes, got, failures>> /\ \E l \in {"check", "fetch"} : Goes(w, "get", l)
  BY DEF Get, _ensure_loaded
<1>2. /\ thread' \in [Worker -> [Thread -> Label]]
      /\ \A v \in Worker, u \in Thread : thread'[v][u] = "fill" => thread[v][u] = "fill"
  BY <1>0, <1>1, GoesFacts
<1>3. served' = served \/ (Readable /\ served' = [served EXCEPT ![w] = inode[path]])
  BY DEF Get, _ensure_loaded
<1>4. Readable => path \in File /\ inode[path] \in {"full", "empty"}
  BY <1>0 DEF Readable, SymbolsType
<1>5. /\ served' \in [Worker -> {"nothing", "full", "empty"}]
      /\ \A v \in Worker : served'[v] = served[v] \/ (path \in File /\ served'[v] = inode[path])
  BY <1>0, <1>3, <1>4 DEF SymbolsType
<1>6. SymbolsType'
  BY <1>0, <1>1, <1>2, <1>5 DEF SymbolsType
<1>7. FillInv'
  BY <1>0, <1>1, <1>2 DEF FillInv
<1>8. NoEmptyList'
  BY <1>0, <1>1, <1>5 DEF NoEmptyList
<1> QED BY <1>6, <1>7, <1>8 DEF SymbolsInv

LEMMA SymbolsFetches ==
    ASSUME SymbolsInv, NEW w \in Worker, NEW t \in Thread, Fetch(w, t)
    PROVE  SymbolsInv'
<1>0. SymbolsType /\ FillInv /\ NoEmptyList /\ "fill" \in Label
  BY DEF SymbolsInv, Label
<1>1. tmp' \in File
  BY <1>0, FreeFile DEF Fetch, SymbolsType
<1>2. PICK r \in {"full", "empty"} :
         /\ r = "empty" => failures < MaxFailures
         /\ failures' = IF r = "empty" THEN failures + 1 ELSE failures
         /\ got' = [got EXCEPT ![w][t] = r]
  BY DEF Fetch
<1>3. UNCHANGED <<path, served>> /\ inode' = [inode EXCEPT ![tmp'] = "torn"]
      /\ writes' = [writes EXCEPT ![w][t] = tmp'] /\ Goes(w, t, "fill")
  BY DEF Fetch
<1>4. /\ thread' \in [Worker -> [Thread -> Label]]
      /\ \A v \in Worker, u \in Thread : <<v, u>> # <<w, t>> => thread'[v][u] = thread[v][u]
  BY <1>0, <1>3, GoesFacts
<1>5. /\ got' \in [Worker -> [Thread -> {"nothing", "full", "empty"}]] /\ got'[w][t] = r
      /\ \A v \in Worker, u \in Thread : <<v, u>> # <<w, t>> => got'[v][u] = got[v][u]
  <2>1. got' = [got EXCEPT ![w] = [got[w] EXCEPT ![t] = r]]
    BY <1>0, <1>2 DEF SymbolsType
  <2> QED BY <1>0, <2>1 DEF SymbolsType
<1>6. /\ writes' \in [Worker -> [Thread -> File \cup {0}]] /\ writes'[w][t] = tmp'
      /\ \A v \in Worker, u \in Thread : <<v, u>> # <<w, t>> => writes'[v][u] = writes[v][u]
  <2>1. writes' = [writes EXCEPT ![w] = [writes[w] EXCEPT ![t] = tmp']]
    BY <1>0, <1>3 DEF SymbolsType
  <2> QED BY <1>0, <1>1, <2>1 DEF SymbolsType
<1>7. inode' \in [File -> {"full", "empty", "torn"}] /\ \A f \in File : inode'[f] = inode[f] \/ inode'[f] = "torn"
  BY <1>0, <1>1, <1>3 DEF SymbolsType
<1>8. failures' \in Nat /\ (failures' = 0 => failures = 0 /\ r # "empty")
  BY <1>0, <1>2 DEF SymbolsType
<1>9. SymbolsType'
  BY <1>0, <1>1, <1>3, <1>4, <1>5, <1>6, <1>7, <1>8 DEF SymbolsType
<1>10. FillInv'
  <2> SUFFICES ASSUME NEW v \in Worker, NEW u \in Thread, thread'[v][u] = "fill"
               PROVE  writes'[v][u] \in File /\ got'[v][u] # "nothing"
    BY <1>9 DEF FillInv, SymbolsType, File
  <2>1. CASE v = w /\ u = t
    BY <1>1, <1>5, <1>6, <2>1
  <2>2. CASE <<v, u>> # <<w, t>>
    BY <1>0, <1>4, <1>5, <1>6, <2>2 DEF FillInv
  <2> QED BY <2>1, <2>2
<1>11. NoEmptyList'
  <2> SUFFICES ASSUME failures' = 0
               PROVE  /\ \A f \in File : inode'[f] # "empty"
                      /\ \A v \in Worker, u \in Thread : got'[v][u] # "empty"
                      /\ \A v \in Worker : served'[v] # "empty"
    BY DEF NoEmptyList
  <2>1. /\ \A f \in File : inode[f] # "empty"
        /\ \A v \in Worker, u \in Thread : got[v][u] # "empty"
        /\ \A v \in Worker : served[v] # "empty"
    BY <1>0, <1>8 DEF NoEmptyList
  <2>2. ASSUME NEW v \in Worker, NEW u \in Thread PROVE got'[v][u] # "empty"
    <3>1. CASE v = w /\ u = t
      BY <1>5, <1>8, <3>1
    <3>2. CASE <<v, u>> # <<w, t>>
      BY <1>5, <2>1, <3>2
    <3> QED BY <3>1, <3>2
  <2> QED BY <1>3, <1>7, <2>1, <2>2
<1> QED BY <1>9, <1>10, <1>11 DEF SymbolsInv

LEMMA SymbolsFails ==
    ASSUME SymbolsInv, NEW w \in Worker, NEW t \in Thread, FetchRaises(w, t)
    PROVE  SymbolsInv'
<1>0. SymbolsType /\ FillInv
  BY DEF SymbolsInv
<1>1. UNCHANGED <<inode, path, tmp, writes, got>> /\ failures' = failures + 1
      /\ (served' = served \/ served' = [served EXCEPT ![w] = "empty"])
      /\ \E l \in {"check", "finish", "idle"} : Goes(w, t, l)
  BY DEF FetchRaises, Thread
<1>2. failures' \in Nat /\ failures' # 0
  BY <1>0, <1>1 DEF SymbolsType
<1>3. /\ thread' \in [Worker -> [Thread -> Label]]
      /\ \A v \in Worker, u \in Thread : thread'[v][u] = "fill" => thread[v][u] = "fill"
  <2>1. {"check", "finish", "idle"} \subseteq Label
    BY DEF Label
  <2> QED BY <1>0, <1>1, <2>1, GoesFacts
<1>4. SymbolsType'
  BY <1>0, <1>1, <1>2, <1>3 DEF SymbolsType
<1>5. FillInv' /\ NoEmptyList'
  BY <1>0, <1>1, <1>2, <1>3 DEF FillInv, NoEmptyList
<1> QED BY <1>4, <1>5 DEF SymbolsInv

\* The text that is put in a file is the answer its writer fetched, or torn.
LEMMA SymbolsFills ==
    ASSUME SymbolsInv, NEW w \in Worker, NEW t \in Thread, FillTmp(w, t)
    PROVE  SymbolsInv'
<1>0. SymbolsType /\ FillInv /\ NoEmptyList /\ "rename" \in Label
  BY DEF SymbolsInv, Label
<1> DEFINE f == writes[w][t]
<1>1. UNCHANGED <<path, tmp, writes, got, served, failures>> /\ Goes(w, t, "rename")
      /\ (inode' = [inode EXCEPT ![f] = got[w][t]] \/ inode' = [inode EXCEPT ![f] = "torn"])
  BY DEF FillTmp
<1>2. f \in File /\ got[w][t] \in {"full", "empty"}
  BY <1>0 DEF FillTmp, FillInv, SymbolsType
<1>3. /\ inode' \in [File -> {"full", "empty", "torn"}]
      /\ \A g \in File : inode'[g] = inode[g] \/ inode'[g] = got[w][t] \/ inode'[g] = "torn"
  BY <1>0, <1>1, <1>2 DEF SymbolsType
<1>4. /\ thread' \in [Worker -> [Thread -> Label]]
      /\ \A v \in Worker, u \in Thread : thread'[v][u] = "fill" => thread[v][u] = "fill"
  BY <1>0, <1>1, GoesFacts
<1>5. SymbolsType'
  BY <1>0, <1>1, <1>3, <1>4 DEF SymbolsType
<1>6. FillInv' /\ NoEmptyList'
  BY <1>0, <1>1, <1>3, <1>4 DEF FillInv, NoEmptyList
<1> QED BY <1>5, <1>6 DEF SymbolsInv

LEMMA SymbolsRenames ==
    ASSUME SymbolsInv, NEW w \in Worker, NEW t \in Thread, Rename(w, t)
    PROVE  SymbolsInv'
<1>0. SymbolsType /\ FillInv /\ NoEmptyList
  BY DEF SymbolsInv
<1>1. /\ path' \in {path, tmp} /\ tmp' \in {tmp, 0} /\ failures' = failures
      /\ (served' = served \/ served' = [served EXCEPT ![w] = got[w][t]])
      /\ \E l \in {"check", "finish", "idle"} : Goes(w, t, l)
      /\ writes' = [writes EXCEPT ![w][t] = 0] /\ got' = [got EXCEPT ![w][t] = "nothing"]
      /\ inode' = [f \in File |-> IF Used(f)' THEN inode[f] ELSE "torn"]
  BY DEF Rename, Thread
<1>2. /\ thread' \in [Worker -> [Thread -> Label]]
      /\ \A v \in Worker, u \in Thread :
            thread'[v][u] = "fill" => thread[v][u] = "fill" /\ <<v, u>> # <<w, t>>
  <2>1. {"check", "finish", "idle"} \subseteq Label
    BY DEF Label
  <2> QED BY <1>0, <1>1, <2>1, GoesFacts
<1>3. /\ got' \in [Worker -> [Thread -> {"nothing", "full", "empty"}]] /\ got'[w][t] = "nothing"
      /\ \A v \in Worker, u \in Thread : <<v, u>> # <<w, t>> => got'[v][u] = got[v][u]
  <2>1. got' = [got EXCEPT ![w] = [got[w] EXCEPT ![t] = "nothing"]]
    BY <1>0, <1>1 DEF SymbolsType
  <2> QED BY <1>0, <2>1 DEF SymbolsType
<1>4. /\ writes' \in [Worker -> [Thread -> File \cup {0}]]
      /\ \A v \in Worker, u \in Thread : <<v, u>> # <<w, t>> => writes'[v][u] = writes[v][u]
  <2>1. writes' = [writes EXCEPT ![w] = [writes[w] EXCEPT ![t] = 0]]
    BY <1>0, <1>1 DEF SymbolsType
  <2> QED BY <1>0, <2>1 DEF SymbolsType
<1>5. /\ served' \in [Worker -> {"nothing", "full", "empty"}]
      /\ \A v \in Worker : served'[v] = served[v] \/ served'[v] = got[w][t]
  BY <1>0, <1>1 DEF SymbolsType
<1>6. /\ inode' \in [File -> {"full", "empty", "torn"}]
      /\ \A f \in File : inode'[f] = inode[f] \/ inode'[f] = "torn"
  BY <1>0, <1>1 DEF SymbolsType
<1>7. SymbolsType'
  <2>1. path' \in File \cup {0} /\ tmp' \in File \cup {0} /\ failures' \in Nat
    BY <1>0, <1>1 DEF SymbolsType
  <2> QED BY <1>2, <1>3, <1>4, <1>5, <1>6, <2>1 DEF SymbolsType
<1>8. FillInv'
  <2> SUFFICES ASSUME NEW v \in Worker, NEW u \in Thread, thread'[v][u] = "fill"
               PROVE  writes'[v][u] \in File /\ got'[v][u] # "nothing"
    BY DEF FillInv
  <2>1. thread[v][u] = "fill" /\ <<v, u>> # <<w, t>>
    BY <1>2
  <2>2. writes[v][u] \in File /\ got[v][u] # "nothing"
    BY <1>0, <2>1 DEF FillInv
  <2> QED BY <1>3, <1>4, <2>1, <2>2
<1>9. NoEmptyList'
  <2>1. \A v \in Worker, u \in Thread : got'[v][u] = "nothing" \/ got'[v][u] = got[v][u]
    BY <1>3
  <2> QED BY <1>0, <1>1, <1>5, <1>6, <2>1 DEF NoEmptyList
<1> QED BY <1>7, <1>8, <1>9 DEF SymbolsInv

\* However many workers write the shared file through the one temporary name, no caller
\* sees an empty list while every fetch succeeds: a file that is served is whole, and
\* what is in a whole file was fetched.
THEOREM NonEmptyServed == SymbolsSpec => []NonEmptyWithoutFailures
<1>1. SymbolsInit => SymbolsInv
  BY SymbolsStarts
<1>2. SymbolsInv /\ [SymbolsNext]_symbolVars => SymbolsInv'
  <2> SUFFICES ASSUME SymbolsInv, [SymbolsNext]_symbolVars PROVE SymbolsInv'
    OBVIOUS
  <2>1. ASSUME NEW w \in Worker, ServeSymbols(w) \/ Refresh(w, "admin") PROVE SymbolsInv'
    BY <2>1, SymbolsGet, SymbolsThreads, SymbolsFetches, SymbolsFails, SymbolsFills, SymbolsRenames DEF ServeSymbols
  <2>2. CASE GrowOld
    BY <2>2 DEF GrowOld, SymbolsInv, SymbolsType, FillInv, NoEmptyList
  <2>3. CASE UNCHANGED symbolVars
    BY <2>3 DEF symbolVars, SymbolsInv, SymbolsType, FillInv, NoEmptyList
  <2> QED BY <2>1, <2>2, <2>3 DEF SymbolsNext
<1>3. SymbolsInv => NonEmptyWithoutFailures
  BY DEF SymbolsInv, NoEmptyList, NonEmptyWithoutFailures
<1> QED BY <1>1, <1>2, <1>3, PTL DEF SymbolsSpec
----------------------------------------------------------------------------
\* What the position of a request says about its rows: the part of the
\* inductive invariant that relates pc to the two tables.
PhaseInv ==
    \A i \in Id :
        /\ pc[i] # "new" => req[i] \in Request
        /\ pc[i] = "lookup" => req[i].key \in Key
        /\ pc[i] \in {"lookup", "create"} => req[i].route = "analyze"
        /\ analyses[i] # NoRow => req[i].route = "analyze"
        /\ pc[i] \in {"new", "lookup", "create", "reserve"} => ledger[i] = NoRow
        /\ pc[i] \in {"running", "consume"} =>
              ledger[i] # NoRow /\ ledger[i].status = "reserved"
        /\ pc[i] \in {"complete", "release"} => ledger[i] # NoRow
        /\ (ledger[i] # NoRow /\ ledger[i].status = "consumed") =>
              pc[i] \in {"complete", "release", "markfailed", "done", "killed"}
        /\ pc[i] \in {"new", "lookup", "create"} => analyses[i] = NoRow
        /\ pc[i] \in {"running", "consume", "complete", "release", "markfailed"} =>
              analyses[i] # NoRow
        /\ (hasRecord[i] /\ pc[i] \in Active) => analyses[i] # NoRow
        /\ (ledger[i] # NoRow /\ ledger[i].status = "consumed") => analyses[i] # NoRow
        /\ pc[i] \in {"new", "lookup", "create"} => ~hasRecord[i]
        /\ answer[i] # "none" => pc[i] = "done"
        /\ (answer[i] = "quota" /\ ledger[i] # NoRow) => ledger[i].status # "consumed"

\* The analyses table agrees with the requests that wrote it, and its unique
\* index holds.
KeyInv ==
    /\ \A i \in Id : analyses[i] # NoRow =>
          analyses[i].user = req[i].user /\ analyses[i].key = req[i].key
    /\ \A i, j \in Id :
          /\ i # j
          /\ analyses[i] # NoRow /\ analyses[j] # NoRow
          /\ analyses[i].key # NoKey
          => ~(analyses[i].user = analyses[j].user /\ analyses[i].key = analyses[j].key)

\* Requests that hold a reservation and may still consume it.
Holding(u, d) == {i \in Id : pc[i] \in {"running", "consume"} /\ ledger[i] = Row(u, d, "reserved")}

\* Units charged, or about to be.
Committed(u, d) == RowsIn(u, d, "consumed") \cup Holding(u, d)

OverrunInv ==
    /\ Cardinality(InFlight) <= MaxInFlight
    /\ \A u \in User, d \in Day : Cardinality(Committed(u, d)) <= DailyQuota + MaxInFlight - 1
----------------------------------------------------------------------------
\* What the idempotency lookup returns, and what the unique index refuses.
LEMMA RowOfType ==
    ASSUME analyses \in [Id -> AnalysisRow \cup {NoRow}], NEW u, NEW k
    PROVE  RowOf(u, k) \in AnalysisRow \cup {NoRow}
  BY DEF RowOf

LEMMA KeyFree ==
    ASSUME NEW u, NEW k, k # NoKey, ~KeyTaken(u, k), NEW i \in Id, analyses[i] # NoRow
    PROVE  ~(analyses[i].user = u /\ analyses[i].key = k)
  BY DEF KeyTaken, RowOf

\* Init establishes the type invariant and the phase invariant.
LEMMA PhaseInit == Init => TypeOK /\ PhaseInv
  BY QuotaAssumption, RoutesAssumption
     DEF Init, LedgerInit, TypeOK, LedgerTypeOK, PhaseInv, Active, Answer, Day

\* A request arrives.
LEMMA PhaseReceive ==
    ASSUME TypeOK, PhaseInv, NEW i \in Id, NEW r \in Request, Receive(i, r)
    PROVE  TypeOK' /\ PhaseInv'
  <1> USE QuotaAssumption, RoutesAssumption
  <1>1. /\ pc'[i] \in {"reserve", "create", "lookup"}
        /\ pc'[i] = "lookup" => r.key \in Key
        /\ pc'[i] \in {"create", "lookup"} => r.route = "analyze"
    BY DEF Receive, Goto, TypeOK, Request, Route
  <1>2. pc' = [pc EXCEPT ![i] = pc'[i]]
    BY DEF Receive, Goto, TypeOK
  <1>3. TypeOK'
    BY <1>1, <1>2 DEF Receive, TypeOK, LedgerTypeOK, dbVars, Active
  <1>4. PhaseInv'
    BY <1>1, <1>2 DEF Receive, TypeOK, LedgerTypeOK, dbVars, Active, PhaseInv
  <1> QED BY <1>3, <1>4

\* Every other step of a request, a kill, an expiry or midnight.
LEMMA PhaseStep ==
    ASSUME TypeOK, PhaseInv, NEW i \in Id, Step(i)
    PROVE  TypeOK' /\ PhaseInv'
  <1> USE QuotaAssumption, RoutesAssumption
  <1>1. CASE LookupIdem(i)
    <2> DEFINE uk == <<req[i].user, req[i].key>>
    <2>1. uk \in User \X Key /\ RowOf(uk[1], uk[2]) \in AnalysisRow \cup {NoRow}
      BY <1>1, RowOfType DEF LookupIdem, TypeOK, PhaseInv, Request
    <2>2. idem' \in [User \X Key -> AnalysisRow \cup {NoRow, NotCached}]
      BY <1>1, <2>1 DEF LookupIdem, TypeOK
    <2>3. PICK l \in {"create", "done"} :
             /\ pc' = [pc EXCEPT ![i] = l]
             /\ answer' \in {answer, [answer EXCEPT ![i] = "replay"]}
             /\ l = "create" => answer' = answer
      BY <1>1 DEF LookupIdem, Reply, Goto
    <2>4. faults' \in 0 .. MaxFaults
      BY <1>1 DEF LookupIdem, Fault, TypeOK
    <2>5. TypeOK'
      BY <1>1, <2>2, <2>3, <2>4 DEF LookupIdem, TypeOK, LedgerTypeOK, Active, Answer
    <2>6. PhaseInv'
      BY <1>1, <2>3 DEF LookupIdem, TypeOK, PhaseInv, Active
    <2> QED BY <2>5, <2>6
  <1>2. CASE CreateRecord(i)
    <2>1. req[i] \in Request
      BY <1>2 DEF CreateRecord, PhaseInv
    <2> DEFINE new == [user |-> req[i].user, key |-> req[i].key, status |-> "created",
                       technical_result |-> "null"]
    <2>2. new \in AnalysisRow /\ new # NoRow
      BY <2>1 DEF AnalysisRow, Request, Status
    <2>3. /\ analyses' \in {analyses, [analyses EXCEPT ![i] = new]}
          /\ hasRecord' \in {hasRecord, [hasRecord EXCEPT ![i] = TRUE]}
          /\ hasRecord' # hasRecord => analyses' = [analyses EXCEPT ![i] = new]
      BY <1>2 DEF CreateRecord
    <2>4. faults' \in 0 .. MaxFaults
      BY <1>2 DEF CreateRecord, Fault, TypeOK
    <2> HIDE DEF new
    <2>5. hasRecord' \in [Id -> BOOLEAN]
      <3>1. hasRecord \in [Id -> BOOLEAN] BY DEF TypeOK
      <3>2. [hasRecord EXCEPT ![i] = TRUE] \in [Id -> BOOLEAN] BY <3>1, Zenon
      <3> QED BY <2>3, <3>1, <3>2
    <2>6. analyses' \in [Id -> AnalysisRow \cup {NoRow}]
      BY <2>2, <2>3 DEF TypeOK
    <2>7. pc' = [pc EXCEPT ![i] = "reserve"] /\ UNCHANGED <<ledger, today, idem, req, answer, retried>>
      BY <1>2 DEF CreateRecord, Goto
    <2>8. TypeOK'
      BY <2>4, <2>5, <2>6, <2>7 DEF TypeOK, LedgerTypeOK, Active
    <2>9. PhaseInv'
      BY <1>2, <2>2, <2>3 DEF CreateRecord, Goto, TypeOK, PhaseInv, Active
    <2> QED BY <2>8, <2>9
  <1>3. CASE ReserveQuota(i)
    <2> DEFINE row == Row(req[i].user, today, "reserved")
    <2>1. row \in LedgerRow /\ row # NoRow /\ row.status = "reserved"
      BY <1>3 DEF ReserveQuota, Row, LedgerRow, LedgerStatus, TypeOK, LedgerTypeOK, PhaseInv, Request
    <2>2. PICK l \in {"running", "denied"} :
             /\ pc' = [pc EXCEPT ![i] = l]
             /\ ledger' \in {ledger, [ledger EXCEPT ![i] = row]}
             /\ l = "running" => ledger' = [ledger EXCEPT ![i] = row] /\ analyses[i] # NoRow
      BY <1>3 DEF ReserveQuota, Goto, Reserved, ForeignKeyHolds
    <2>3. faults' \in 0 .. MaxFaults
      BY <1>3 DEF ReserveQuota, Fault, TypeOK
    <2> HIDE DEF row
    <2>4. TypeOK'
      BY <1>3, <2>1, <2>2, <2>3 DEF ReserveQuota, TypeOK, LedgerTypeOK, Active
    <2>5. PhaseInv'
      BY <1>3, <2>1, <2>2 DEF ReserveQuota, TypeOK, LedgerTypeOK, PhaseInv, Active
    <2> QED BY <2>4, <2>5
  <1>4. CASE Deny(i)
    <2>1. TypeOK'
      BY <1>4 DEF Deny, Reply, Goto, Fault, TypeOK, LedgerTypeOK, Active, Answer
    <2>2. PhaseInv'
      BY <1>4 DEF Deny, Reply, Goto, TypeOK, LedgerTypeOK, PhaseInv, Active
    <2> QED BY <2>1, <2>2
  <1>5. CASE RunAnalysis(i)
    BY <1>5 DEF RunAnalysis, Goto, dbVars, TypeOK, LedgerTypeOK, PhaseInv, Active
  <1>6. CASE ConsumeQuota(i)
    <2>1. ledger[i] \in LedgerRow
      BY <1>6 DEF ConsumeQuota, TypeOK, LedgerTypeOK, PhaseInv
    <2> DEFINE row == [ledger[i] EXCEPT !.status = "consumed"]
    <2>2. row \in LedgerRow /\ row # NoRow /\ row.status = "consumed"
      BY <2>1 DEF LedgerRow, LedgerStatus
    <2>3. ledger' \in {ledger, [ledger EXCEPT ![i] = row]} /\ faults' \in 0 .. MaxFaults
      BY <1>6 DEF ConsumeQuota, Consumed, Fault, TypeOK
    <2> HIDE DEF row
    <2>4. TypeOK'
      BY <1>6, <2>2, <2>3 DEF ConsumeQuota, Goto, TypeOK, LedgerTypeOK, Active
    <2>5. PhaseInv'
      BY <1>6, <2>2, <2>3 DEF ConsumeQuota, Goto, TypeOK, LedgerTypeOK, PhaseInv, Active
    <2> QED BY <2>4, <2>5
  <1>7. CASE Complete(i)
    <2>1. analyses[i] \in AnalysisRow
      BY <1>7 DEF Complete, TypeOK, PhaseInv
    <2> DEFINE row == [analyses[i] EXCEPT !.status = "completed"]
    <2>2. row \in AnalysisRow /\ row # NoRow
      BY <2>1 DEF AnalysisRow, Status
    <2>3. analyses' \in {analyses, [analyses EXCEPT ![i] = row]} /\ faults' \in 0 .. MaxFaults
      BY <1>7 DEF Complete, Fault, TypeOK
    <2> HIDE DEF row
    <2>4. PICK l \in {"done", "release"} :
             /\ pc' = [pc EXCEPT ![i] = l]
             /\ answer' \in {answer, [answer EXCEPT ![i] = "ok"]}
             /\ l = "release" => answer' = answer
      BY <1>7 DEF Complete, FailLate, Reply, Goto, PhaseInv
    <2>5. TypeOK'
      BY <1>7, <2>2, <2>3, <2>4 DEF Complete, TypeOK, LedgerTypeOK, Active, Answer
    <2>6. PhaseInv'
      BY <1>7, <2>2, <2>3, <2>4 DEF Complete, TypeOK, LedgerTypeOK, PhaseInv, Active
    <2> QED BY <2>5, <2>6
  <1>8. CASE ReleaseQuota(i)
    <2>1. ledger[i] \in LedgerRow
      BY <1>8 DEF ReleaseQuota, TypeOK, LedgerTypeOK, PhaseInv
    <2> DEFINE row == [ledger[i] EXCEPT !.status = "released"]
    <2>2. row \in LedgerRow /\ row # NoRow /\ row.status = "released"
      BY <2>1 DEF LedgerRow, LedgerStatus
    <2>3. ledger' \in {ledger, [ledger EXCEPT ![i] = row]} /\ faults' \in 0 .. MaxFaults
      BY <1>8 DEF ReleaseQuota, Released, Fault, TypeOK
    <2> HIDE DEF row
    <2>4. TypeOK'
      BY <1>8, <2>2, <2>3 DEF ReleaseQuota, Goto, TypeOK, LedgerTypeOK, Active
    <2>5. PhaseInv'
      BY <1>8, <2>2, <2>3 DEF ReleaseQuota, Goto, TypeOK, LedgerTypeOK, PhaseInv, Active
    <2> QED BY <2>4, <2>5
  <1>9. CASE MarkFailed(i)
    <2>1. analyses[i] \in AnalysisRow
      BY <1>9 DEF MarkFailed, TypeOK, PhaseInv
    <2> DEFINE row == [analyses[i] EXCEPT !.status = "failed_upstream"]
    <2>2. row \in AnalysisRow /\ row # NoRow
      BY <2>1 DEF AnalysisRow, Status
    <2>3. analyses' \in {analyses, [analyses EXCEPT ![i] = row]} /\ faults' \in 0 .. MaxFaults
      BY <1>9 DEF MarkFailed, Fault, TypeOK
    <2> HIDE DEF row
    <2>4. TypeOK'
      BY <1>9, <2>2, <2>3 DEF MarkFailed, Reply, Goto, TypeOK, LedgerTypeOK, Active, Answer
    <2>5. PhaseInv'
      BY <1>9, <2>2, <2>3 DEF MarkFailed, Reply, Goto, TypeOK, LedgerTypeOK, PhaseInv, Active
    <2> QED BY <2>4, <2>5
  <1> QED BY <1>1, <1>2, <1>3, <1>4, <1>5, <1>6, <1>7, <1>8, <1>9 DEF Step

\* Next preserves both.
LEMMA PhaseNext == TypeOK /\ PhaseInv /\ [Next]_vars => TypeOK' /\ PhaseInv'
  <1> SUFFICES ASSUME TypeOK, PhaseInv, [Next]_vars PROVE TypeOK' /\ PhaseInv'
    OBVIOUS
  <1> USE QuotaAssumption, RoutesAssumption
  <1>1. CASE \E i \in Id, r \in Request : Receive(i, r)
    BY <1>1, PhaseReceive
  <1>2. CASE \E i \in Id : Step(i)
    BY <1>2, PhaseStep
  <1>3. CASE \E i \in Id : Kill(i)
    BY <1>3 DEF Kill, Goto, Fault, dbVars, TypeOK, LedgerTypeOK, PhaseInv, Active
  <1>4. CASE \E uk \in User \X Key : ExpireIdem(uk)
    BY <1>4 DEF ExpireIdem, TypeOK, LedgerTypeOK, PhaseInv
  <1>5. CASE NextDay
    BY <1>5 DEF NextDay, Midnight, TypeOK, LedgerTypeOK, PhaseInv, Day
  <1>6. CASE UNCHANGED vars
    BY <1>6 DEF vars, TypeOK, LedgerTypeOK, PhaseInv, InFlight
  <1> QED BY <1>1, <1>2, <1>3, <1>4, <1>5, <1>6 DEF Next

\* Type correctness of the routes and the two tables, with the phase invariant.
THEOREM RoutesTypeCorrect == Spec => [](TypeOK /\ PhaseInv)
  BY PhaseInit, PhaseNext, PTL DEF Spec
----------------------------------------------------------------------------
\* Only the insertion of a record and the end of a denied request change which
\* analyses rows exist; completing or failing one changes its status alone.
LEMMA KeyNext == TypeOK /\ PhaseInv /\ KeyInv /\ [Next]_vars => KeyInv'
  <1> SUFFICES ASSUME TypeOK, PhaseInv, KeyInv, [Next]_vars PROVE KeyInv'
    OBVIOUS
  <1> USE QuotaAssumption, RoutesAssumption
  <1>1. ASSUME NEW i \in Id, NEW r \in Request, Receive(i, r) PROVE KeyInv'
    BY <1>1 DEF Receive, KeyInv, TypeOK, PhaseInv, dbVars
  <1>2. ASSUME NEW i \in Id, CreateRecord(i) PROVE KeyInv'
    <2> DEFINE new == [user |-> req[i].user, key |-> req[i].key, status |-> "created",
                       technical_result |-> "null"]
    <2>1. CASE analyses' = analyses
      BY <1>2, <2>1 DEF CreateRecord, KeyInv
    <2>2. CASE ~KeyTaken(req[i].user, req[i].key) /\ analyses' = [analyses EXCEPT ![i] = new]
      <3>1. analyses'[i] = new /\ \A j \in Id \ {i} : analyses'[j] = analyses[j]
        BY <2>2 DEF TypeOK
      <3>2. req' = req
        BY <1>2 DEF CreateRecord
      <3>3. new.user = req[i].user /\ new.key = req[i].key
        OBVIOUS
      <3>4. \A j \in Id : new.key # NoKey /\ analyses[j] # NoRow =>
               ~(analyses[j].user = new.user /\ analyses[j].key = new.key)
        BY <2>2, <3>3, KeyFree
      <3> HIDE DEF new
      <3>5. KeyInv'
        BY <3>1, <3>2, <3>3, <3>4 DEF KeyInv
      <3> QED BY <3>5
    <2> QED BY <1>2, <2>1, <2>2 DEF CreateRecord
  <1>3. ASSUME NEW i \in Id, Complete(i) \/ MarkFailed(i) PROVE KeyInv'
    <2>1. analyses[i] \in AnalysisRow
      BY <1>3 DEF Complete, MarkFailed, TypeOK, PhaseInv
    <2>2. PICK s \in Status : analyses' \in {analyses, [analyses EXCEPT ![i].status = s]}
      BY <1>3 DEF Complete, MarkFailed, Status
    <2>3. [analyses[i] EXCEPT !.status = s] \in AnalysisRow
      BY <2>1 DEF AnalysisRow
    <2>4. /\ analyses'[i] # NoRow
          /\ analyses'[i].user = analyses[i].user
          /\ analyses'[i].key = analyses[i].key
      <3>1. analyses'[i] \in {analyses[i], [analyses[i] EXCEPT !.status = s]}
        BY <2>2 DEF TypeOK
      <3>2. /\ [analyses[i] EXCEPT !.status = s].user = analyses[i].user
            /\ [analyses[i] EXCEPT !.status = s].key = analyses[i].key
        BY <2>1 DEF AnalysisRow
      <3> QED BY <2>1, <2>3, <3>1, <3>2
    <2>5. \A j \in Id \ {i} : analyses'[j] = analyses[j]
      BY <2>2 DEF TypeOK
    <2>6. analyses[i] # NoRow /\ req' = req
      BY <1>3, <2>1 DEF Complete, MarkFailed
    <2> QED BY <2>4, <2>5, <2>6 DEF KeyInv
  <1>4. ASSUME NEW i \in Id, Deny(i) PROVE KeyInv'
    <2>1. req' = req /\ \A j \in Id : analyses'[j] \in {analyses[j], NoRow}
      BY <1>4 DEF Deny, TypeOK
    <2> QED BY <2>1 DEF KeyInv
  <1>5. ASSUME NEW i \in Id,
               \/ LookupIdem(i) \/ ReserveQuota(i) \/ RunAnalysis(i)
               \/ ConsumeQuota(i) \/ ReleaseQuota(i) \/ Kill(i)
        PROVE  KeyInv'
    <2>1. UNCHANGED <<analyses, req>>
      BY <1>5 DEF LookupIdem, ReserveQuota, RunAnalysis, ConsumeQuota, ReleaseQuota, Kill, dbVars
    <2> QED BY <2>1 DEF KeyInv
  <1>6. CASE \/ \E uk \in User \X Key : ExpireIdem(uk)
             \/ NextDay
             \/ UNCHANGED vars
    <2>1. UNCHANGED <<analyses, req>>
      BY <1>6 DEF ExpireIdem, NextDay, vars
    <2> QED BY <2>1 DEF KeyInv
  <1> QED BY <1>1, <1>2, <1>3, <1>4, <1>5, <1>6 DEF Next, Step

\* One unit per idempotency key, for every interleaving, fault and expiry.
THEOREM RoutesChargeKeyOnce == Spec => []OneUnitPerKey
  <1>1. Init => KeyInv
    BY DEF Init, KeyInv
  <1>2. TypeOK /\ PhaseInv /\ KeyInv => OneUnitPerKey
    BY DEF TypeOK, PhaseInv, KeyInv, OneUnitPerKey
  <1> QED BY RoutesTypeCorrect, KeyNext, <1>1, <1>2, PTL DEF Spec
----------------------------------------------------------------------------
\* A finite set of requests that only shrinks stays within its bound.
LEMMA ShrinkingBound ==
    ASSUME NEW S \in SUBSET Id, NEW T \in SUBSET S, NEW n \in Int, Cardinality(S) <= n
    PROVE  Cardinality(T) <= n
  <1>1. IsFiniteSet(S)
    BY QuotaAssumption, FS_Subset
  <1>2. IsFiniteSet(T) /\ Cardinality(T) <= Cardinality(S)
    BY <1>1, FS_Subset
  <1>3. Cardinality(S) \in Nat /\ Cardinality(T) \in Nat
    BY <1>1, <1>2, FS_CardinalityType
  <1> QED BY <1>2, <1>3

\* Steps other than a grant and an arrival only shrink what is committed and
\* what is in flight.
LEMMA CommittedShrinks ==
    ASSUME TypeOK, PhaseInv, NEW i \in Id,
           \/ Kill(i)
           \/ Step(i) /\ ~(ReserveQuota(i) /\ pc'[i] = "running")
    PROVE  /\ InFlight' \subseteq InFlight
           /\ \A u \in User, d \in Day : Committed(u, d)' \subseteq Committed(u, d)
  <1> USE QuotaAssumption, RoutesAssumption
  <1>1. \A j \in Id \ {i} : pc'[j] = pc[j] /\ ledger'[j] = ledger[j]
    BY DEF Kill, Step, LookupIdem, CreateRecord, ReserveQuota, Reserved, Deny, RunAnalysis,
           ConsumeQuota, Consumed, Complete, FailLate, ReleaseQuota, Released, MarkFailed,
           Reply, Goto, dbVars, TypeOK, LedgerTypeOK
  <1>2. pc[i] \in Active
    BY DEF Kill, Step, LookupIdem, CreateRecord, ReserveQuota, Deny, RunAnalysis,
           ConsumeQuota, Complete, ReleaseQuota, MarkFailed, Active
  <1>3. ASSUME NEW u \in User, NEW d \in Day
        PROVE  /\ ledger'[i] = Row(u, d, "consumed") => i \in Committed(u, d)
               /\ pc'[i] \in {"running", "consume"} /\ ledger'[i] = Row(u, d, "reserved")
                    => i \in Committed(u, d)
    <2>1. CASE ConsumeQuota(i)
      <3>1. ledger[i] \in LedgerRow /\ ledger[i].status = "reserved" /\ pc[i] = "consume"
        BY <2>1 DEF ConsumeQuota, PhaseInv, TypeOK, LedgerTypeOK
      <3>2. ledger'[i] \in {ledger[i], [ledger[i] EXCEPT !.status = "consumed"]}
            /\ pc'[i] = "complete"
        BY <2>1 DEF ConsumeQuota, Consumed, Goto, TypeOK, LedgerTypeOK
      <3>3. ledger'[i] = Row(u, d, "consumed") => ledger[i] = Row(u, d, "reserved")
        BY <3>1, <3>2 DEF LedgerRow, Row
      <3> QED BY <3>1, <3>2, <3>3 DEF Committed, Holding
    <2>2. CASE ReleaseQuota(i)
      <3>1. ledger[i] \in LedgerRow
        BY <2>2 DEF ReleaseQuota, PhaseInv, TypeOK, LedgerTypeOK
      <3>2. ledger'[i] \in {ledger[i], [ledger[i] EXCEPT !.status = "released"]}
            /\ pc'[i] = "markfailed"
        BY <2>2 DEF ReleaseQuota, Released, Goto, TypeOK, LedgerTypeOK
      <3>3. ledger'[i] = Row(u, d, "consumed") => ledger[i] = Row(u, d, "consumed")
        BY <3>1, <3>2 DEF LedgerRow, Row
      <3> QED BY <3>2, <3>3 DEF Committed, RowsIn
    <2>3. CASE ReserveQuota(i)
      <3>1. pc'[i] = "denied" /\ ledger[i] = NoRow
        BY <2>3 DEF ReserveQuota, Goto, TypeOK, PhaseInv, Step, LookupIdem, CreateRecord, Deny,
                    RunAnalysis, ConsumeQuota, Complete, ReleaseQuota, MarkFailed, Kill
      <3>2. ledger'[i] \in {NoRow, Row(req[i].user, today, "reserved")}
        BY <2>3, <3>1 DEF ReserveQuota, Reserved, TypeOK, LedgerTypeOK
      <3>3. NoRow # Row(u, d, "consumed")
        BY DEF LedgerRow, LedgerStatus, Row
      <3> QED BY <3>1, <3>2, <3>3 DEF Row
    <2>4. CASE ~(ConsumeQuota(i) \/ ReleaseQuota(i) \/ ReserveQuota(i))
      <3>1. ledger' = ledger
        BY <2>4 DEF Kill, Step, LookupIdem, CreateRecord, Deny, RunAnalysis, Complete,
                    MarkFailed, dbVars
      <3>2. pc'[i] \in {"running", "consume"} => pc[i] = "running"
        BY <2>4 DEF Kill, Step, LookupIdem, CreateRecord, Deny, RunAnalysis, Complete, FailLate,
                    MarkFailed, Reply, Goto, TypeOK
      <3> QED BY <3>1, <3>2 DEF Committed, Holding, RowsIn
    <2> QED BY <2>1, <2>2, <2>3, <2>4
  <1>4. InFlight' \subseteq InFlight
    BY <1>1, <1>2 DEF InFlight
  <1>5. ASSUME NEW u \in User, NEW d \in Day, NEW j \in Committed(u, d)'
        PROVE  j \in Committed(u, d)
    <2>1. CASE j = i
      BY <1>3, <1>5, <2>1 DEF Committed, RowsIn, Holding
    <2>2. CASE j # i
      BY <1>1, <1>5, <2>2 DEF Committed, RowsIn, Holding
    <2> QED BY <2>1, <2>2
  <1> QED BY <1>4, <1>5

\* The arrival of a request and the grant of a reservation are the two steps
\* that grow a count; each is bounded by its own guard.
LEMMA OverrunNext == TypeOK /\ PhaseInv /\ OverrunInv /\ [Next]_vars => OverrunInv'
  <1> SUFFICES ASSUME TypeOK, PhaseInv, OverrunInv, [Next]_vars PROVE OverrunInv'
    OBVIOUS
  <1> USE QuotaAssumption, RoutesAssumption
  <1> DEFINE bound == DailyQuota + MaxInFlight - 1
  <1>1. IsFiniteSet(InFlight) /\ Cardinality(InFlight) \in Nat
    BY FS_Subset, FS_CardinalityType DEF InFlight
  <1>2. bound \in Int /\ MaxInFlight \in Int
    OBVIOUS
  <1>3. ASSUME InFlight' \subseteq InFlight,
               \A u \in User, d \in Day : Committed(u, d)' \subseteq Committed(u, d)
        PROVE  OverrunInv'
    <2>1. Cardinality(InFlight') <= MaxInFlight
      BY <1>2, <1>3, ShrinkingBound DEF OverrunInv, InFlight
    <2>2. ASSUME NEW u \in User, NEW d \in Day PROVE Cardinality(Committed(u, d)') <= bound
      <3>1. Committed(u, d) \in SUBSET Id
        BY DEF Committed, RowsIn, Holding
      <3>2. Cardinality(Committed(u, d)) <= bound
        BY DEF OverrunInv
      <3> HIDE DEF bound
      <3> QED BY <1>2, <1>3, <3>1, <3>2, ShrinkingBound
    <2> QED BY <2>1, <2>2 DEF OverrunInv
  <1>4. ASSUME NEW i \in Id, NEW r \in Request, Receive(i, r) PROVE OverrunInv'
    <2>1. InFlight' \subseteq InFlight \cup {i}
      BY <1>4 DEF Receive, Goto, InFlight, TypeOK
    <2>2. IsFiniteSet(InFlight \cup {i}) /\ Cardinality(InFlight \cup {i}) <= Cardinality(InFlight) + 1
      <3>1. i \notin InFlight
        BY <1>4 DEF Receive, InFlight, Active
      <3> DEFINE S == InFlight
      <3>2. IsFiniteSet(S) /\ i \notin S
        BY <1>1, <3>1
      <3> HIDE DEF S
      <3>3. IsFiniteSet(S \cup {i}) /\ Cardinality(S \cup {i}) = Cardinality(S) + 1
        BY <3>2, FS_AddElement
      <3>4. Cardinality(S) \in Nat
        BY <3>2, FS_CardinalityType
      <3>5. Cardinality(S \cup {i}) <= Cardinality(S) + 1
        BY <3>3, <3>4
      <3> QED BY <3>3, <3>5 DEF S
    <2>3. Cardinality(InFlight) < MaxInFlight
      BY <1>4 DEF Receive
    <2>4. Cardinality(InFlight \cup {i}) <= MaxInFlight
      BY <1>1, <2>2, <2>3, FS_CardinalityType
    <2>5. Cardinality(InFlight') <= MaxInFlight
      BY <1>2, <2>1, <2>4, ShrinkingBound DEF InFlight
    <2>6. \A u \in User, d \in Day : Committed(u, d)' = Committed(u, d)
      BY <1>4 DEF Receive, Goto, dbVars, Committed, RowsIn, Holding, TypeOK, Request, Route
    <2> QED BY <2>5, <2>6 DEF OverrunInv
  <1>5. ASSUME NEW i \in Id, ReserveQuota(i), pc'[i] = "running" PROVE OverrunInv'
    <2> DEFINE v == req[i].user
    <2>1. /\ pc[i] = "reserve" /\ pc' = [pc EXCEPT ![i] = "running"]
          /\ ledger' = [ledger EXCEPT ![i] = Row(v, today, "reserved")]
          /\ today' = today
          /\ UsedToday(v) + 1 <= DailyQuota
      <3>1. ~Goto(i, "denied")
        BY <1>5 DEF Goto, TypeOK
      <3> QED BY <1>5, <3>1 DEF ReserveQuota, Goto, Reserved, Grants
    <2>2. ledger[i] = NoRow /\ v \in User
      BY <2>1 DEF PhaseInv, Request
    <2>3. InFlight' = InFlight
      BY <2>1 DEF InFlight, Active, TypeOK
    <2>4. ASSUME NEW u \in User, NEW d \in Day PROVE Cardinality(Committed(u, d)') <= bound
      <3>1. \A s \in LedgerStatus : NoRow # Row(u, d, s)
        BY <2>4 DEF LedgerRow, Row
      <3>2. RowsIn(u, d, "consumed")' \subseteq RowsIn(u, d, "consumed")
        BY <2>1 DEF RowsIn, TypeOK, LedgerTypeOK, Row
      <3>3. CASE u = v /\ d = today
        <4> DEFINE C == RowsIn(u, d, "consumed")
                   H == Holding(u, d)'
        <4>1. Cardinality(C) <= DailyQuota - 1
          BY <2>1, <3>3, FS_CardinalityType, FS_Subset DEF UsedToday, RowsIn
        <4>2. H \subseteq InFlight'
          BY DEF Holding, InFlight, Active
        <4>3. IsFiniteSet(H) /\ Cardinality(H) <= MaxInFlight
          <5>1. IsFiniteSet(H) /\ Cardinality(H) <= Cardinality(InFlight)
            BY <1>1, <2>3, <4>2, FS_Subset
          <5> QED BY <1>1, <5>1, FS_CardinalityType DEF OverrunInv
        <4>4. IsFiniteSet(C)
          BY FS_Subset DEF RowsIn
        <4>5. Committed(u, d)' \subseteq C \cup H
          BY <3>2 DEF Committed
        <4> HIDE DEF C, H
        <4>6. /\ IsFiniteSet(C \cup H)
              /\ Cardinality(C \cup H) = Cardinality(C) + Cardinality(H) - Cardinality(C \cap H)
          BY <4>3, <4>4, FS_Union
        <4>7. IsFiniteSet(C \cap H)
          BY <4>4, FS_Subset
        <4>8. /\ Cardinality(C) \in Nat /\ Cardinality(H) \in Nat
              /\ Cardinality(C \cap H) \in Nat /\ Cardinality(C \cup H) \in Nat
          BY <4>3, <4>4, <4>6, <4>7, FS_CardinalityType
        <4>9. Cardinality(C \cup H) <= bound
          BY <4>1, <4>3, <4>6, <4>8
        <4>10. Cardinality(Committed(u, d)') <= Cardinality(C \cup H)
          BY <4>5, <4>6, FS_Subset
        <4>11. Cardinality(Committed(u, d)') \in Nat
          BY <4>5, <4>6, FS_Subset, FS_CardinalityType
        <4> QED BY <1>2, <4>8, <4>9, <4>10, <4>11
      <3>4. CASE ~(u = v /\ d = today)
        <4>1. Row(v, today, "reserved") # Row(u, d, "reserved")
          BY <3>4 DEF Row
        <4>2. Committed(u, d)' \subseteq Committed(u, d)
          BY <2>1, <3>2, <4>1 DEF Committed, Holding, TypeOK, LedgerTypeOK
        <4>3. Committed(u, d) \in SUBSET Id /\ Cardinality(Committed(u, d)) <= bound
          BY DEF Committed, RowsIn, Holding, OverrunInv
        <4> HIDE DEF bound
        <4> QED BY <1>2, <4>2, <4>3, ShrinkingBound
      <3> QED BY <3>3, <3>4
    <2> QED BY <2>3, <2>4 DEF OverrunInv
  <1>6. ASSUME NEW i \in Id, Kill(i) \/ (Step(i) /\ ~(ReserveQuota(i) /\ pc'[i] = "running"))
        PROVE  OverrunInv'
    BY <1>3, <1>6, CommittedShrinks
  <1>7. CASE \/ \E uk \in User \X Key : ExpireIdem(uk)
             \/ NextDay
             \/ UNCHANGED vars
    <2>1. UNCHANGED <<ledger, pc>>
      BY <1>7 DEF ExpireIdem, NextDay, Midnight, vars
    <2> QED BY <1>3, <2>1 DEF Committed, RowsIn, Holding, InFlight
  <1> QED BY <1>4, <1>5, <1>6, <1>7 DEF Next

\* The daily quota is overrun by fewer units than there are server threads.
THEOREM RoutesOverrunBounded == Spec => []OverrunBounded
  <1> USE QuotaAssumption, RoutesAssumption
  <1>1. Init => OverrunInv
    <2> SUFFICES ASSUME Init PROVE OverrunInv
      OBVIOUS
    <2>1. InFlight = {} /\ \A u \in User, d \in Day : Committed(u, d) = {}
      BY DEF Init, LedgerInit, InFlight, Active, Committed, RowsIn, Holding, Row, LedgerRow, LedgerStatus
    <2> QED BY <2>1, FS_EmptySet DEF OverrunInv
  <1>2. TypeOK /\ OverrunInv => OverrunBounded
    <2> SUFFICES ASSUME OverrunInv, NEW u \in User, NEW d \in Day
                 PROVE  Charged(u, d) <= DailyQuota + MaxInFlight - 1
      BY DEF OverrunBounded
    <2> DEFINE bound == DailyQuota + MaxInFlight - 1
    <2>1. Committed(u, d) \in SUBSET Id /\ RowsIn(u, d, "consumed") \in SUBSET Committed(u, d)
      BY DEF Committed, RowsIn, Holding
    <2>2. bound \in Int /\ Cardinality(Committed(u, d)) <= bound
      BY DEF OverrunInv
    <2> HIDE DEF bound
    <2>3. Cardinality(RowsIn(u, d, "consumed")) <= bound
      BY <2>1, <2>2, ShrinkingBound
    <2> QED BY <2>3 DEF Charged, bound
  <1> QED BY RoutesTypeCorrect, OverrunNext, <1>1, <1>2, PTL DEF Spec
----------------------------------------------------------------------------
\* Rows that no step of their request will settle any more as it should: reservations left
\* behind, and units that a request is about to be told it was not charged.
Stranded ==
    {i \in Id : /\ ledger[i] # NoRow
                /\ \/ /\ ledger[i].status = "reserved"
                      /\ pc[i] \notin {"running", "consume", "release"}
                   \/ /\ ledger[i].status = "consumed"
                      /\ pc[i] = "markfailed" \/ answer[i] = "error"}

LeakInv == Cardinality(Stranded) <= faults

\* A step strands at most the reservation of its own request, and only by a fault.
LEMMA StrandedByFault ==
    ASSUME TypeOK, PhaseInv, NEW i \in Id, Step(i) \/ Kill(i)
    PROVE  /\ Stranded' \subseteq Stranded \cup {i}
           /\ faults' = faults + 1 \/ (faults' = faults /\ (i \in Stranded' => i \in Stranded))
  <1> USE QuotaAssumption, RoutesAssumption
  <1>1. \A j \in Id \ {i} : pc'[j] = pc[j] /\ ledger'[j] = ledger[j] /\ answer'[j] = answer[j]
    BY DEF Kill, Step, LookupIdem, CreateRecord, ReserveQuota, Reserved, Deny, RunAnalysis,
           ConsumeQuota, Consumed, Complete, FailLate, ReleaseQuota, Released, MarkFailed,
           Reply, Goto, dbVars, TypeOK, LedgerTypeOK
  <1>2. Stranded' \subseteq Stranded \cup {i}
    BY <1>1 DEF Stranded
  <1>3. pc[i] # "new" /\ answer[i] = "none" /\ answer \in [Id -> Answer]
    BY DEF Kill, Step, LookupIdem, CreateRecord, ReserveQuota, Deny, RunAnalysis, ConsumeQuota,
           Complete, ReleaseQuota, MarkFailed, Active, PhaseInv, TypeOK
  <1>4. ASSUME faults' # faults + 1 PROVE faults' = faults /\ (i \in Stranded' => i \in Stranded)
    <2>1. CASE ReserveQuota(i)
      <3>1. /\ faults' = faults
            /\ \/ pc'[i] = "running" /\ ledger'[i] = Row(req[i].user, today, "reserved")
               \/ ledger'[i] = ledger[i] /\ pc[i] = "reserve"
        BY <1>4, <2>1 DEF ReserveQuota, Reserved, Goto, Fault, TypeOK, LedgerTypeOK
      <3>2. pc[i] = "reserve" => ledger[i] = NoRow
        BY DEF PhaseInv
      <3>3. (pc'[i] = "running" /\ ledger'[i].status = "reserved") \/ ledger'[i] = NoRow
        BY <3>1, <3>2 DEF Row
      <3>4. i \notin Stranded'
        BY <3>3 DEF Stranded
      <3> QED BY <3>1, <3>4
    <2>2. CASE ConsumeQuota(i)
      <3>1. faults' = faults /\ ledger' = Consumed(i) /\ ledger[i] \in LedgerRow
        BY <1>4, <2>2 DEF ConsumeQuota, Fault, PhaseInv, TypeOK, LedgerTypeOK
      <3>2. ledger'[i] = [ledger[i] EXCEPT !.status = "consumed"]
        BY <3>1 DEF Consumed, TypeOK, LedgerTypeOK
      <3>3. ledger'[i].status = "consumed" /\ pc'[i] = "complete" /\ answer'[i] = "none"
        BY <1>3, <2>2, <3>1, <3>2 DEF LedgerRow, ConsumeQuota, Goto, TypeOK
      <3> QED BY <3>1, <3>3 DEF Stranded
    <2>3. CASE ReleaseQuota(i)
      <3>1. faults' = faults /\ ledger' = Released(i) /\ ledger[i] \in LedgerRow
        BY <1>4, <2>3 DEF ReleaseQuota, Fault, PhaseInv, TypeOK, LedgerTypeOK
      <3>2. ledger'[i] = [ledger[i] EXCEPT !.status = "released"]
        BY <3>1 DEF Released, TypeOK, LedgerTypeOK
      <3>3. ledger'[i].status = "released"
        BY <3>1, <3>2 DEF LedgerRow
      <3> QED BY <3>1, <3>3 DEF Stranded
    <2>4. CASE RunAnalysis(i)
      <3>1. /\ faults' = faults /\ pc'[i] \in {"consume", "release"}
            /\ ledger'[i].status = "reserved"
        BY <2>4 DEF RunAnalysis, Goto, dbVars, TypeOK, PhaseInv
      <3> QED BY <3>1 DEF Stranded
    <2>5. CASE LookupIdem(i) \/ CreateRecord(i)
      <3>1. faults' = faults /\ ledger' = ledger /\ pc[i] \in {"lookup", "create"}
        BY <1>4, <2>5 DEF LookupIdem, CreateRecord, Fault
      <3>2. ledger[i] = NoRow
        BY <3>1 DEF PhaseInv
      <3> QED BY <3>1, <3>2 DEF Stranded
    <2>6. CASE Deny(i) \/ Complete(i)
      <3>1. /\ faults' = faults /\ ledger' = ledger /\ pc[i] \in {"denied", "complete"}
            /\ answer'[i] # "error" /\ pc'[i] \in {"done", "release"}
        BY <1>3, <1>4, <2>6 DEF Deny, Complete, FailLate, Reply, Goto, Fault, PhaseInv, TypeOK
      <3> QED BY <3>1 DEF Stranded
    <2>7. CASE MarkFailed(i)
      <3>1. faults' = faults /\ ledger' = ledger /\ pc[i] = "markfailed"
        BY <1>4, <2>7 DEF MarkFailed, Fault
      <3> QED BY <3>1 DEF Stranded
    <2>8. CASE Kill(i)
      BY <1>4, <2>8 DEF Kill, Fault
    <2> QED BY <2>1, <2>2, <2>3, <2>4, <2>5, <2>6, <2>7, <2>8 DEF Step
  <1> QED BY <1>2, <1>4

LEMMA LeakNext == TypeOK /\ PhaseInv /\ LeakInv /\ [Next]_vars => LeakInv'
  <1> SUFFICES ASSUME TypeOK, PhaseInv, LeakInv, [Next]_vars PROVE LeakInv'
    OBVIOUS
  <1> USE QuotaAssumption, RoutesAssumption
  <1>1. Stranded \in SUBSET Id /\ faults \in Int
    BY DEF Stranded, TypeOK
  <1>2. ASSUME Stranded' \subseteq Stranded, faults' = faults PROVE LeakInv'
    BY <1>1, <1>2, ShrinkingBound DEF LeakInv
  <1>3. ASSUME NEW i \in Id, Step(i) \/ Kill(i) PROVE LeakInv'
    <2>1. /\ Stranded' \subseteq Stranded \cup {i}
          /\ faults' = faults + 1 \/ (faults' = faults /\ (i \in Stranded' => i \in Stranded))
      BY <1>3, StrandedByFault
    <2>2. CASE faults' = faults + 1
      <3> DEFINE S == Stranded
                 T == Stranded \cup {i}
      <3>1. IsFiniteSet(S) /\ Cardinality(S) <= faults
        BY <1>1, FS_Subset DEF LeakInv
      <3>2. T \in SUBSET Id /\ Stranded' \in SUBSET T
        BY <1>1, <2>1
      <3> HIDE DEF S
      <3>3. IsFiniteSet(S \cup {i}) /\ Cardinality(S \cup {i}) <= Cardinality(S) + 1
        <4>1. IsFiniteSet(S \cup {i}) /\ (i \in S \/ Cardinality(S \cup {i}) = Cardinality(S) + 1)
          BY <3>1, FS_AddElement
        <4>2. i \in S => S \cup {i} = S
          OBVIOUS
        <4>3. Cardinality(S) \in Nat
          BY <3>1, FS_CardinalityType
        <4>4. CASE i \in S
          <5>1. Cardinality(S) <= Cardinality(S) + 1
            BY <4>3
          <5> HIDE DEF T
          <5> QED BY <3>1, <4>2, <4>4, <5>1, Zenon
        <4>5. CASE i \notin S
          BY <4>1, <4>3, <4>5
        <4> QED BY <4>4, <4>5
      <3>4. Cardinality(S) \in Nat /\ Cardinality(S \cup {i}) \in Nat
        BY <3>1, <3>3, FS_CardinalityType
      <3>5. Cardinality(T) <= faults + 1
        BY <1>1, <3>1, <3>3, <3>4 DEF S
      <3> HIDE DEF T
      <3> QED BY <1>1, <2>2, <3>2, <3>5, ShrinkingBound DEF LeakInv
    <2>3. CASE faults' = faults /\ (i \in Stranded' => i \in Stranded)
      BY <1>2, <2>1, <2>3
    <2> QED BY <2>1, <2>2, <2>3
  <1>4. ASSUME NEW i \in Id, NEW r \in Request, Receive(i, r) PROVE LeakInv'
    <2>1. /\ ledger' = ledger /\ faults' = faults /\ answer' = answer /\ ledger[i] = NoRow
          /\ \A j \in Id : j # i => pc'[j] = pc[j]
      BY <1>4 DEF Receive, Goto, dbVars, PhaseInv, TypeOK
    <2> QED BY <1>2, <2>1 DEF Stranded
  <1>5. CASE \/ \E uk \in User \X Key : ExpireIdem(uk)
             \/ NextDay
             \/ UNCHANGED vars
    <2>1. UNCHANGED <<ledger, pc, answer, faults>>
      BY <1>5 DEF ExpireIdem, NextDay, Midnight, vars
    <2> QED BY <1>2, <2>1 DEF Stranded
  <1> QED BY <1>3, <1>4, <1>5 DEF Next

LEMMA LeakInit == Init => LeakInv
  <1> SUFFICES ASSUME Init PROVE LeakInv
    OBVIOUS
  <1>1. Stranded = {} /\ faults = 0
    BY DEF Init, LedgerInit, Stranded
  <1> QED BY <1>1, FS_EmptySet DEF LeakInv

\* A request answered 429 is not charged, and a request answered with an error is charged
\* only by a failed call of its own: its release found the unit consumed and failed.
THEOREM RoutesFailureIsFree == Spec => []FailureIsFree
  <1> USE QuotaAssumption, RoutesAssumption
  <1>1. TypeOK /\ PhaseInv /\ LeakInv => FailureIsFree
    <2> SUFFICES ASSUME TypeOK, PhaseInv, LeakInv PROVE FailureIsFree
      OBVIOUS
    <2>1. ChargedErrors \in SUBSET Stranded /\ Stranded \in SUBSET Id /\ faults \in Int
      BY DEF ChargedErrors, HasConsumed, Stranded, TypeOK
    <2>2. Cardinality(ChargedErrors) <= faults
      BY <2>1, ShrinkingBound DEF LeakInv
    <2> QED BY <2>2 DEF FailureIsFree, HasConsumed, PhaseInv
  <1> QED BY RoutesTypeCorrect, LeakInit, LeakNext, <1>1, PTL DEF Spec

\* No path of the routes forgets to settle what it reserved: a reservation left behind
\* by a request that is over costs a failed call or a killed worker of its own.
THEOREM RoutesSettle == Spec => []LeaksNeedFaults
  <1> USE QuotaAssumption, RoutesAssumption
  <1>1. TypeOK /\ LeakInv => LeaksNeedFaults
    <2> SUFFICES ASSUME TypeOK, LeakInv PROVE LeaksNeedFaults
      OBVIOUS
    <2> DEFINE left == {i \in Id : /\ pc[i] \in {"done", "killed"}
                                   /\ ledger[i] # NoRow
                                   /\ ledger[i].status = "reserved"}
    <2>1. left \in SUBSET Stranded /\ Stranded \in SUBSET Id /\ faults \in Int
      BY DEF Stranded, TypeOK
    <2>2. Cardinality(left) <= faults
      <3> HIDE DEF left
      <3> QED BY <2>1, ShrinkingBound DEF LeakInv
    <2> QED BY <2>2 DEF LeaksNeedFaults
  <1> QED BY RoutesTypeCorrect, LeakInit, LeakNext, <1>1, PTL DEF Spec
-----------------------------------------------------------------------------
(* The candles of the backtests (CandleStore). *)

\* The candles that opened by the cursor.
Opened(c) == {t \in Opens : t <= c}

\* They are finitely many numbers, which Ascending can put in order.
LEMMA OpenedFacts ==
    ASSUME NEW c \in Nat
    PROVE  IsFiniteSet(Opened(c)) /\ Opened(c) \in SUBSET Int /\ Opened(c) \in SUBSET Opens
<1>1. Opened(c) \in SUBSET Nat /\ \A t \in Opened(c) : t <= c
  BY CandleAssumption DEF Opened
<1>2. IsFiniteSet(Opened(c))
  BY <1>1, FS_BoundedSetOfNaturals
<1> QED BY <1>1, <1>2 DEF Opened

\* The candles of a page: the latest up to the cursor, all of them if it is not full.
LEMMA BatchFacts ==
    ASSUME NEW c \in Nat
    PROVE  LET b == Batch(c)
           IN  /\ b \in Seq(Opens) /\ b \in Seq(Int) /\ Len(b) \in Nat /\ Increasing(b)
               /\ \A i \in 1 .. Len(b) : b[i] \in Opened(c)
               /\ b = <<>> => Opened(c) = {}
               /\ b # <<>> => Len(b) >= 1 /\ Head(b) = b[1] /\ b[1] \in 1 .. c
               /\ \A t \in Opened(c) : (b # <<>> /\ (t >= b[1] \/ Len(b) < batch_limit)) =>
                     \E i \in 1 .. Len(b) : b[i] = t
<1> DEFINE K == Opened(c)
           s == Ascending(K)
           L == Len(s)
           lo == IF L > batch_limit THEN L - batch_limit + 1 ELSE 1
           b == Batch(c)
<1>1. /\ s \in Seq(K) /\ s \in Seq(Int) /\ L \in Nat /\ Increasing(s)
      /\ \A i \in 1 .. L : s[i] \in K
      /\ \A x \in K : \E i \in 1 .. L : s[i] = x
  BY OpenedFacts, AscendingFacts, LenProperties
<1>2. b = SubSeq(s, lo, L)
  BY DEF Batch, Opened
<1>3. K \subseteq Opens /\ K \subseteq Int /\ \A t \in K : t \in 1 .. c
  <2>1. K \subseteq Opens /\ Opens \subseteq Nat \ {0} /\ \A t \in K : t <= c
    BY CandleAssumption DEF Opened
  <2> HIDE DEF K
  <2> QED BY <2>1
<1>4. /\ lo \in Int /\ lo >= 1 /\ lo <= L + 1 /\ (L = 0 <=> lo = L + 1)
      /\ batch_limit \in Nat /\ (L - lo + 1 < batch_limit => lo = 1)
  <2> HIDE DEF s, L
  <2> QED BY <1>1, CandleAssumption
<1> HIDE DEF K, s, L, lo, b
<1>5. /\ b \in Seq(K) /\ Len(b) = L - lo + 1
      /\ \A i \in 1 .. L - lo + 1 : b[i] = s[lo + i - 1]
  <2>1. \A i \in lo .. L : s[i] \in K
    BY <1>1, <1>4
  <2>2. L \in Int
    BY <1>1
  <2>3. (IF lo <= L THEN L - lo + 1 ELSE 0) = L - lo + 1
    BY <1>1, <1>4
  <2> QED BY <1>2, <1>4, <2>1, <2>2, <2>3, SubSeqProperties
<1>6. b \in Seq(Opens) /\ b \in Seq(Int) /\ Len(b) \in Nat
  BY <1>3, <1>5, SeqMonotonic, LenProperties
<1>7. \A i \in 1 .. Len(b) : lo + i - 1 \in 1 .. L /\ b[i] = s[lo + i - 1]
  <2> SUFFICES ASSUME NEW i \in 1 .. L - lo + 1
               PROVE  lo + i - 1 \in 1 .. L /\ b[i] = s[lo + i - 1]
    BY <1>5
  <2>1. L \in Int /\ lo \in Int /\ lo >= 1
    BY <1>1, <1>4
  <2>2. lo + i - 1 \in 1 .. L
    BY <2>1
  <2>3. b[i] = s[lo + i - 1]
    BY <1>5
  <2> QED BY <2>2, <2>3
<1>8. \A i \in 1 .. Len(b) : b[i] \in K
  BY <1>1, <1>7
<1>9. Increasing(b)
  <2> SUFFICES ASSUME NEW i \in 1 .. Len(b), NEW j \in 1 .. Len(b), i < j PROVE b[i] < b[j]
    BY DEF Increasing
  <2>1. lo + i - 1 < lo + j - 1
    BY <1>4, <1>6
  <2> QED BY <1>1, <1>7, <2>1 DEF Increasing, L
<1>10. b = <<>> => K = {}
  <2> SUFFICES ASSUME b = <<>> PROVE K = {}
    OBVIOUS
  <2>1. L = 0
    BY <1>1, <1>4, <1>5
  <2>2. \A i \in 1 .. 0 : FALSE
    OBVIOUS
  <2> QED BY <1>1, <2>1, <2>2
<1>11. b # <<>> => Len(b) >= 1 /\ Head(b) = b[1] /\ b[1] \in 1 .. c
  <2> SUFFICES ASSUME b # <<>> PROVE Len(b) >= 1 /\ Head(b) = b[1] /\ b[1] \in 1 .. c
    OBVIOUS
  <2>1. Len(b) # 0
    BY <1>6, EmptySeq
  <2>2. Len(b) >= 1 /\ 1 \in 1 .. Len(b)
    BY <1>6, <2>1
  <2>3. Head(b) = b[1]
    OBVIOUS
  <2> QED BY <1>3, <1>8, <2>2, <2>3
<1>12. ASSUME NEW t \in K, b # <<>>, t >= b[1] \/ Len(b) < batch_limit
       PROVE  \E i \in 1 .. Len(b) : b[i] = t
  <2>1. PICK k \in 1 .. L : s[k] = t
    BY <1>1
  <2>2. k >= lo
    <3>1. CASE Len(b) < batch_limit
      BY <1>4, <1>5, <2>1, <3>1
    <3>2. CASE t >= b[1]
      <4>1. b[1] = s[lo] /\ lo \in 1 .. L
        <5>1. 1 \in 1 .. Len(b)
          BY <1>6, <1>11, <1>12
        <5>2. lo + 1 - 1 = lo
          BY <1>4
        <5> QED BY <1>7, <5>1, <5>2
      <4>2. ~(s[k] < s[lo])
        <5>1. s[k] \in Int /\ s[lo] \in Int /\ s[k] >= s[lo]
          BY <1>1, <1>3, <2>1, <3>2, <4>1
        <5> QED BY <5>1
      <4>3. k < lo => s[k] < s[lo]
        BY <1>1, <2>1, <4>1 DEF Increasing, L
      <4> QED BY <1>4, <2>1, <4>2, <4>3
    <3> QED BY <1>12, <3>1, <3>2
  <2>3. k - lo + 1 \in 1 .. Len(b) /\ lo + (k - lo + 1) - 1 = k
    BY <1>1, <1>4, <1>5, <2>1, <2>2
  <2> QED BY <1>7, <2>1, <2>3
<1> QED BY <1>6, <1>8, <1>9, <1>10, <1>11, <1>12 DEF K, b

\* What the walk from the cursor c brings: all the candles from start to c, in order.
Walked(rows, c, start) ==
    /\ rows \in Seq(Opens) /\ rows \in Seq(Int) /\ Increasing(rows)
    /\ \A i \in 1 .. Len(rows) : rows[i] <= c
    /\ c > start => \A t \in Opened(c) : t >= start => \E i \in 1 .. Len(rows) : rows[i] = t

\* A walk that is past the start, or finds no candle, brings none.
LEMMA WalkEnds ==
    ASSUME NEW c \in Nat, NEW start \in Nat, c <= start \/ Batch(c) = <<>>
    PROVE  Walked(<<>>, c, start)
<1>1. c > start => Opened(c) = {}
  BY BatchFacts
<1>2. <<>> \in Seq(Opens) /\ <<>> \in Seq(Int) /\ Len(<<>>) = 0
  BY EmptySeq
<1> QED BY <1>1, <1>2 DEF Walked, Increasing

\* A page that reaches the start, or is not full, is the last.
LEMMA WalkLast ==
    ASSUME NEW c \in Nat, NEW start \in Nat, Batch(c) # <<>>,
           Head(Batch(c)) <= start \/ Len(Batch(c)) < batch_limit
    PROVE  Walked(Batch(c), c, start)
<1> DEFINE b == Batch(c)
<1>1. /\ b \in Seq(Opens) /\ b \in Seq(Int) /\ Increasing(b)
      /\ \A i \in 1 .. Len(b) : b[i] \in Opened(c)
      /\ b[1] \in Nat /\ (b[1] <= start \/ Len(b) < batch_limit)
      /\ \A t \in Opened(c) : (t >= b[1] \/ Len(b) < batch_limit) => \E i \in 1 .. Len(b) : b[i] = t
  <2>1. b # <<>> /\ (Head(b) <= start \/ Len(b) < batch_limit)
    OBVIOUS
  <2>2. /\ b \in Seq(Opens) /\ b \in Seq(Int) /\ Increasing(b)
        /\ \A i \in 1 .. Len(b) : b[i] \in Opened(c)
        /\ b # <<>> => Head(b) = b[1] /\ b[1] \in 1 .. c
        /\ \A t \in Opened(c) : (b # <<>> /\ (t >= b[1] \/ Len(b) < batch_limit)) => \E i \in 1 .. Len(b) : b[i] = t
    BY BatchFacts
  <2> HIDE DEF b
  <2> QED BY <2>1, <2>2
<1>2. Opened(c) \in SUBSET Int /\ \A t \in Opened(c) : t <= c
  BY OpenedFacts DEF Opened
<1> HIDE DEF b
<1>3. \A t \in Opened(c) : t >= start => \E i \in 1 .. Len(b) : b[i] = t
  <2> SUFFICES ASSUME NEW t \in Opened(c), t >= start PROVE \E i \in 1 .. Len(b) : b[i] = t
    OBVIOUS
  <2>1. t \in Int
    BY <1>2
  <2>2. t >= b[1] \/ Len(b) < batch_limit
    BY <1>1, <2>1
  <2> QED BY <1>1, <2>2
<1>4. Walked(b, c, start)
  BY <1>1, <1>2, <1>3 DEF Walked
<1> QED BY <1>4 DEF b

\* Another page is put before those that follow it, and no candle lies between them.
LEMMA WalkGoesOn ==
    ASSUME NEW c \in Nat, NEW start \in Nat, Batch(c) # <<>>, Head(Batch(c)) > start,
           NEW rows, Walked(rows, Head(Batch(c)) - 1, start)
    PROVE  Walked(rows \o Batch(c), c, start)
<1> DEFINE b == Batch(c)
           M == Len(rows)
           N == Len(b)
           u == rows \o b
           first == b[1]
<1>1. /\ b \in Seq(Opens) /\ b \in Seq(Int) /\ Increasing(b) /\ N \in Nat /\ N >= 1
      /\ \A i \in 1 .. N : b[i] \in Opened(c)
      /\ Head(b) = first /\ first \in 1 .. c /\ first > start
      /\ \A t \in Opened(c) : t >= first => \E i \in 1 .. N : b[i] = t
  BY BatchFacts
<1>2. /\ rows \in Seq(Opens) /\ rows \in Seq(Int) /\ Increasing(rows) /\ M \in Nat
      /\ \A i \in 1 .. M : rows[i] <= first - 1 /\ rows[i] \in Int
      /\ first - 1 > start => \A t \in Opened(first - 1) : t >= start => \E i \in 1 .. M : rows[i] = t
  BY <1>1, ElementOfSeq, LenProperties DEF Walked
<1>3. Opened(c) \in SUBSET Int /\ \A t \in Opened(c) : t \in Opens /\ t <= c
  BY OpenedFacts DEF Opened
<1>4. u \in Seq(Opens) /\ u \in Seq(Int)
  BY <1>1, <1>2, ConcatProperties
<1>5. Len(u) = M + N /\ \A i \in 1 .. M + N : u[i] = IF i <= M THEN rows[i] ELSE b[i - M]
  BY <1>1, <1>2, ConcatProperties
<1>6. \A j \in 1 .. N : first <= b[j] /\ b[j] \in Int
  <2> SUFFICES ASSUME NEW j \in 1 .. N PROVE first <= b[j] /\ b[j] \in Int
    OBVIOUS
  <2>1. b[j] \in Int /\ b[1] \in Int /\ 1 \in 1 .. N
    BY <1>1, <1>3
  <2>2. 1 < j => b[1] < b[j]
    BY <1>1, <2>1 DEF Increasing
  <2> HIDE DEF b
  <2> QED BY <2>1, <2>2
<1> HIDE DEF b, M, N, u, first
<1>7. Increasing(u)
  <2>1. \A i \in 1 .. M : \A j \in 1 .. N : rows[i] < b[j]
    <3> SUFFICES ASSUME NEW i \in 1 .. M, NEW j \in 1 .. N PROVE rows[i] < b[j]
      OBVIOUS
    <3>1. rows[i] <= first - 1 /\ rows[i] \in Int /\ first <= b[j] /\ b[j] \in Int /\ first \in Int
      BY <1>1, <1>2, <1>6
    <3> QED BY <3>1
  <2> QED BY <1>1, <1>2, <2>1, IncreasingConcat DEF M, N, u
<1>8. \A i \in 1 .. Len(u) : u[i] <= c
  <2> SUFFICES ASSUME NEW i \in 1 .. M + N PROVE u[i] <= c
    BY <1>5
  <2>1. CASE i <= M
    <3>1. i \in 1 .. M
      BY <1>2, <2>1
    <3>2. rows[i] <= first - 1 /\ rows[i] \in Int /\ first \in 1 .. c
      BY <1>1, <1>2, <3>1
    <3>3. u[i] = rows[i]
      BY <1>5, <2>1
    <3> QED BY <3>2, <3>3
  <2>2. CASE ~(i <= M)
    <3>1. i - M \in 1 .. N /\ u[i] = b[i - M]
      BY <1>1, <1>2, <1>5, <2>2
    <3> QED BY <1>1, <1>3, <3>1
  <2> QED BY <2>1, <2>2
<1>9. ASSUME NEW t \in Opened(c), t >= start PROVE \E i \in 1 .. Len(u) : u[i] = t
  <2>0. t \in Int /\ t \in Opens /\ first \in Int
    BY <1>1, <1>3
  <2>1. CASE t >= first
    <3>1. PICK j \in 1 .. N : b[j] = t
      BY <1>1, <2>1
    <3>2. M + j \in 1 .. M + N /\ ~(M + j <= M) /\ (M + j) - M = j
      BY <1>1, <1>2
    <3> QED BY <1>5, <3>1, <3>2
  <2>2. CASE ~(t >= first)
    <3>1. t <= first - 1 /\ t \in Opened(first - 1)
      BY <2>0, <2>2 DEF Opened
    <3>2. first - 1 > start
      <4>1. first \in Opens
        <5>1. 1 \in 1 .. N
          BY <1>1
        <5> QED BY <1>1, <1>3, <5>1 DEF first
      <4>2. t + 1 < first
        BY <2>0, <2>2, <4>1, CandleAssumption
      <4> QED BY <1>9, <2>0, <4>2
    <3>3. PICK i \in 1 .. M : rows[i] = t
      BY <1>2, <1>9, <3>1, <3>2
    <3>4. i \in 1 .. M + N /\ i <= M
      BY <1>1, <1>2
    <3> QED BY <1>5, <3>3, <3>4
  <2> QED BY <2>1, <2>2
<1>10. Walked(u, c, start)
  BY <1>4, <1>7, <1>8, <1>9 DEF Walked
<1> QED BY <1>10 DEF u, b

\* The pages of a window: what the walk brings is what the loader returns.
LEMMA PagesFacts ==
    ASSUME NEW start \in Nat
    PROVE  Walked(Pages(start), FIXED_END_DATE, start)
<1> DEFINE N == FIXED_END_DATE
           T == Seq(Opens)
           Over(c) == c <= start \/ Batch(c) = <<>>
           Whole(c) == Head(Batch(c)) <= start \/ Len(Batch(c)) < batch_limit
           Turn(c, x) == IF Over(c) THEN <<>> ELSE IF Whole(c) THEN Batch(c) ELSE x \o Batch(c)
           prev == [c \in 1 .. N |-> IF Over(c) THEN 0 ELSE Head(Batch(c)) - 1]
           h == [c \in 1 .. N |-> [x \in T |-> Turn(c, x)]]
           Unfolds(g) == g = [cursor \in 0 .. N |-> Turn(cursor, g[Head(Batch(cursor)) - 1])]
           g == CHOOSE g : Unfolds(g)
<1>1. N \in Nat /\ \A c \in 0 .. N : c \in Nat
  BY CandleAssumption
<1>2. Pages(start) = g[N]
  BY DEF Pages
<1> HIDE DEF N
<1>3. ASSUME NEW c \in 0 .. N, ~Over(c)
      PROVE  c \in 1 .. N /\ Head(Batch(c)) - 1 \in 0 .. N /\ Head(Batch(c)) - 1 < c /\ Batch(c) \in T
  <2>1. Head(Batch(c)) = Batch(c)[1] /\ Batch(c)[1] \in 1 .. c /\ Batch(c) \in T
    BY <1>1, <1>3, BatchFacts
  <2>2. c \in 1 .. N
    BY <1>1, <1>3
  <2> QED BY <1>1, <2>1, <2>2
<1>4. prev \in [1 .. N -> 0 .. N] /\ \A c \in 1 .. N : prev[c] < c
  <2>1. \A c \in 1 .. N : c \in 0 .. N /\ 0 \in 0 .. N /\ 0 < c
    BY <1>1
  <2> HIDE DEF Over
  <2>2. \A c \in 1 .. N : prev[c] \in 0 .. N /\ prev[c] < c
    BY <1>3, <2>1
  <2> QED BY <2>2
<1>5. \A c \in 1 .. N : \A x \in T : h[c][x] = Turn(c, x) /\ Turn(c, x) \in T
  <2> SUFFICES ASSUME NEW c \in 1 .. N, NEW x \in T PROVE Turn(c, x) \in T
    BY Zenon
  <2>1. c \in 0 .. N
    BY <1>1
  <2>2. <<>> \in T
    BY EmptySeq
  <2>3. ~Over(c) => Batch(c) \in T /\ x \o Batch(c) \in T
    BY <1>3, <2>1, ConcatProperties
  <2> HIDE DEF Over, Whole
  <2> QED BY <2>2, <2>3
<1>6. PICK f \in [0 .. N -> T] : f[0] = <<>> /\ \A c \in 1 .. N : f[c] = h[c][f[prev[c]]]
  <2>1. <<>> \in T
    BY EmptySeq
  <2>2. \A c \in 1 .. N : \A x \in T : h[c][x] \in T
    <3> HIDE DEF h, Turn, T
    <3> QED BY <1>5
  <2> DEFINE e == <<>>
  <2>3. e \in T
    BY <2>1
  <2> HIDE DEF h, prev, T, e
  <2>4. \E f \in [0 .. N -> T] : IteratesFrom(f, N, e, h, prev)
    BY <1>1, <1>4, <2>2, <2>3, EarlierRecursion
  <2> QED BY <2>4 DEF e, IteratesFrom
<1>7. \A c \in 0 .. N : f[c] = Turn(c, f[Head(Batch(c)) - 1])
  <2> SUFFICES ASSUME NEW c \in 0 .. N PROVE f[c] = Turn(c, f[Head(Batch(c)) - 1])
    OBVIOUS
  <2>1. CASE c = 0
    <3>1. Over(c)
      BY <2>1
    <3> HIDE DEF Over, Whole
    <3> QED BY <1>6, <2>1, <3>1
  <2>2. CASE c # 0
    <3>1. c \in 1 .. N
      BY <1>1, <2>2
    <3>2. f[c] = h[c][f[prev[c]]] /\ f[prev[c]] \in T
      <4> HIDE DEF h, prev, T
      <4> QED BY <1>4, <1>6, <3>1
    <3>3. f[c] = Turn(c, f[prev[c]])
      <4> HIDE DEF h, prev, T, Turn
      <4> QED BY <1>5, <3>1, <3>2
    <3>4. ~Over(c) => prev[c] = Head(Batch(c)) - 1
      <4> HIDE DEF Over
      <4> QED BY <3>1
    <3> HIDE DEF Over, Whole, prev
    <3> QED BY <3>3, <3>4
  <2> QED BY <2>1, <2>2
<1>8. Unfolds(g)
  <2>1. Unfolds(f)
    <3> HIDE DEF Turn
    <3> QED BY <1>6, <1>7
  <2> HIDE DEF Unfolds
  <2> QED BY <2>1
<1> HIDE DEF g
<1>9. \A c \in 0 .. N : g[c] = Turn(c, g[Head(Batch(c)) - 1])
  <2> HIDE DEF Turn
  <2> QED BY <1>8
<1> DEFINE A == {m \in 0 .. N : \A c \in 0 .. m : Walked(g[c], c, start)}
<1>10. ASSUME NEW c \in 0 .. N, \A k \in 0 .. c - 1 : Walked(g[k], k, start)
       PROVE  Walked(g[c], c, start)
  <2>0. c \in Nat
    BY <1>1
  <2>1. CASE Over(c)
    <3>1. g[c] = <<>>
      <4> HIDE DEF Over, Whole
      <4> QED BY <1>9, <2>1
    <3> QED BY <2>0, <2>1, <3>1, WalkEnds
  <2>2. CASE ~Over(c) /\ Whole(c)
    <3>1. g[c] = Batch(c)
      <4> HIDE DEF Over, Whole
      <4> QED BY <1>9, <2>2
    <3> QED BY <2>0, <2>2, <3>1, WalkLast
  <2>3. CASE ~Over(c) /\ ~Whole(c)
    <3> DEFINE k == Head(Batch(c)) - 1
    <3>1. g[c] = g[k] \o Batch(c)
      <4> HIDE DEF Over, Whole
      <4> QED BY <1>9, <2>3
    <3>2. Head(Batch(c)) \in Nat /\ k \in 0 .. c - 1
      <4>1. Head(Batch(c)) = Batch(c)[1] /\ Batch(c)[1] \in 1 .. c
        BY <2>0, <2>3, BatchFacts
      <4> QED BY <2>0, <4>1
    <3>3. Walked(g[k], k, start)
      <4> HIDE DEF k
      <4> QED BY <1>10, <3>2
    <3>4. Head(Batch(c)) > start
      BY <2>3, <3>2
    <3> QED BY <2>0, <2>3, <3>1, <3>3, <3>4, WalkGoesOn
  <2> QED BY <2>1, <2>2, <2>3
<1>11. 0 .. N \subseteq A
  <2>1. 0 \in A
    <3>1. 0 \in 0 .. N /\ \A k \in 0 .. 0 - 1 : FALSE
      BY <1>1
    <3>2. Walked(g[0], 0, start)
      <4> HIDE DEF g
      <4> QED BY <1>10, <3>1
    <3>3. \A c \in 0 .. 0 : c = 0
      OBVIOUS
    <3> QED BY <3>1, <3>2, <3>3
  <2>2. ASSUME NEW m \in 1 .. N, m - 1 \in A PROVE m \in A
    <3>1. m \in 0 .. N /\ \A c \in 0 .. m : c = m \/ c \in 0 .. m - 1
      BY <1>1
    <3>2. \A c \in 0 .. m - 1 : Walked(g[c], c, start)
      BY <2>2
    <3>3. Walked(g[m], m, start)
      BY <1>10, <3>1, <3>2
    <3> QED BY <3>1, <3>2, <3>3
  <2> HIDE DEF A
  <2> QED BY <1>1, <2>1, <2>2, IntervalInduction
<1>12. N \in 0 .. N
  BY <1>1
<1>13. Walked(g[N], N, start)
  BY <1>11, <1>12
<1> QED BY <1>2, <1>13 DEF N

\* Pages, cursors and the rows cut off at the start amount to the window.
LEMMA FetchIsWindow ==
    ASSUME NEW d \in Days
    PROVE  fetch_binance_klines(d) = Window(d)
<1> DEFINE F == FIXED_END_DATE
           start == F - d
           rows == Pages(start)
           P == {i \in 1 .. Len(rows) : rows[i] >= start}
<1>1. F \in Nat /\ d \in 1 .. F /\ start \in Nat /\ start < F
  <2>1. F \in Nat /\ d \in 1 .. F
    BY CandleAssumption
  <2> HIDE DEF F
  <2> QED BY <2>1
<1>2. /\ rows \in Seq(Opens) /\ rows \in Seq(Int) /\ Increasing(rows) /\ DOMAIN rows = 1 .. Len(rows)
      /\ \A i \in 1 .. Len(rows) : rows[i] \in Opens /\ rows[i] <= F
      /\ \A t \in Opened(F) : t >= start => \E i \in 1 .. Len(rows) : rows[i] = t
  <2>1. Walked(rows, F, start)
    BY <1>1, PagesFacts
  <2>2. F > start
    BY <1>1
  <2> HIDE DEF rows, start, F
  <2> QED BY <2>1, <2>2, ElementOfSeq, LenProperties DEF Walked
<1>3. fetch_binance_klines(d) = EntriesAt(rows, P)
  BY <1>2 DEF fetch_binance_klines
<1> HIDE DEF rows, start, F
<1>4. EntriesAt(rows, P) = Ascending({rows[i] : i \in P})
  BY <1>2, EntriesAscending
<1>5. {rows[i] : i \in P} = {t \in Opens : t >= start /\ t <= F}
  <2>1. \A i \in P : rows[i] \in Opens /\ rows[i] >= start /\ rows[i] <= F
    BY <1>2
  <2>2. ASSUME NEW t \in Opens, t >= start, t <= F PROVE t \in {rows[i] : i \in P}
    <3>1. PICK i \in 1 .. Len(rows) : rows[i] = t
      BY <1>2, <2>2 DEF Opened
    <3> QED BY <2>2, <3>1
  <2> QED BY <2>1, <2>2
<1> QED BY <1>3, <1>4, <1>5 DEF Window, start, F

-----------------------------------------------------------------------------
\* What a file or an answer may be, and candles are those of a requested window.
Body == [is : {"nothing", "torn", "mixed", "candles"}, opens : Seq(Int), sane : BOOLEAN]
Fine(b) == b.is = "candles" => b.sane /\ \E d \in Days : b.opens = Window(d)

JobType == [at : {"idle", "load", "read", "drop", "clean", "unlink", "fetch", "open", "write", "meta"},
            days : Nat, tries : Nat, got : Body, left : Seq({"parquet", "meta"}), force : BOOLEAN]
JobOK(j) ==
    /\ j \in JobType
    /\ Fine(j.got)
    /\ j.at # "idle" => j.days \in Days
    /\ j.at = "unlink" => j.left # <<>>

\* The inductive invariant: files, answers and what is fetched hold requested windows.
CandleInv ==
    /\ parquet \in [body : Body, by : SUBSET Fetcher] /\ Fine(parquet.body)
    /\ frame \in [Fetcher -> Body] /\ \A p \in Fetcher : Fine(frame[p])
    /\ job \in [Fetcher -> JobType] /\ \A p \in Fetcher : JobOK(job[p])

\* What holds no candles is fine.
LEMMA PlainBodies ==
    /\ Nothing \in Body /\ Fine(Nothing)
    /\ Content("torn") \in Body /\ Fine(Content("torn"))
    /\ Content("mixed") \in Body /\ Fine(Content("mixed"))
    /\ JobOK(NoJob)
<1>1. <<>> \in Seq(Int) /\ <<>> \in Seq({"parquet", "meta"})
  OBVIOUS
<1>2. /\ Nothing \in Body /\ Fine(Nothing)
      /\ Content("torn") \in Body /\ Fine(Content("torn"))
      /\ Content("mixed") \in Body /\ Fine(Content("mixed"))
  BY <1>1 DEF Body, Fine, Nothing, Content
<1>3. JobOK(NoJob)
  <2> HIDE DEF Body, Fine
  <2> QED BY <1>1, <1>2 DEF JobOK, JobType, NoJob
<1> QED BY <1>2, <1>3

\* What a process and the files are after its step.
LEMMA CandleStep ==
    ASSUME CandleInv, NEW p \in Fetcher, NEW j, JobOK(j), job' = [job EXCEPT ![p] = j],
           parquet' = parquet \/ (parquet' \in [body : Body, by : SUBSET Fetcher] /\ Fine(parquet'.body)),
           frame' = frame \/ \E b \in Body : Fine(b) /\ frame' = [frame EXCEPT ![p] = b]
    PROVE  CandleInv'
<1>1. parquet' \in [body : Body, by : SUBSET Fetcher] /\ Fine(parquet'.body)
  BY DEF CandleInv
<1>2. job' \in [Fetcher -> JobType] /\ \A q \in Fetcher : JobOK(job'[q])
  <2>1. j \in JobType
    BY DEF JobOK
  <2>2. job \in [Fetcher -> JobType] /\ \A q \in Fetcher : JobOK(job[q])
    BY DEF CandleInv
  <2>3. \A q \in Fetcher : job'[q] = IF q = p THEN j ELSE job[q]
    BY <2>2
  <2> QED BY <2>1, <2>2, <2>3
<1>3. frame' \in [Fetcher -> Body] /\ \A q \in Fetcher : Fine(frame'[q])
  <2>1. frame \in [Fetcher -> Body] /\ \A q \in Fetcher : Fine(frame[q])
    BY DEF CandleInv
  <2>2. CASE frame' = frame
    BY <2>1, <2>2
  <2>3. ASSUME NEW b \in Body, Fine(b), frame' = [frame EXCEPT ![p] = b]
        PROVE  frame' \in [Fetcher -> Body] /\ \A q \in Fetcher : Fine(frame'[q])
    <3>1. \A q \in Fetcher : frame'[q] = IF q = p THEN b ELSE frame[q]
      BY <2>1, <2>3
    <3> QED BY <2>1, <2>3, <3>1
  <2> QED BY <2>2, <2>3
<1> QED BY <1>1, <1>2, <1>3 DEF CandleInv

\* A process that moves on takes along what it has.
LEMMA JobMoves ==
    ASSUME CandleInv, NEW p \in Fetcher, job[p].at # "idle",
           NEW at \in {"idle", "load", "read", "drop", "clean", "fetch", "open", "write", "meta"}
    PROVE  /\ JobOK([job[p] EXCEPT !.at = at])
           /\ [job EXCEPT ![p].at = at] = [job EXCEPT ![p] = [job[p] EXCEPT !.at = at]]
<1>1. JobOK(job[p]) /\ job[p] \in JobType
  BY DEF CandleInv, JobOK
<1> DEFINE j == [job[p] EXCEPT !.at = at]
<1>2. j \in JobType /\ j.got = job[p].got /\ j.at = at /\ j.days = job[p].days
  BY <1>1 DEF JobType
<1>3. JobOK(j)
  <2> HIDE DEF j
  <2> QED BY <1>1, <1>2 DEF JobOK
<1> QED BY <1>3

\* Every step of a command, and a kill, preserves it.
LEMMA CandleKeeps == CandleInv /\ [CandleNext]_candleVars => CandleInv'
<1> SUFFICES ASSUME CandleInv, [CandleNext]_candleVars PROVE CandleInv'
  OBVIOUS
<1>1. CASE UNCHANGED candleVars
  BY <1>1 DEF candleVars, CandleInv
<1> USE DEF At, Moves, Ends
<1>2. ASSUME NEW p \in Fetcher, Start(p) PROVE CandleInv'
  <2>1. PICK d \in Days, how \in {"ensure", "force", "clean"} :
          job' = [job EXCEPT ![p] =
              [NoJob EXCEPT !.at = IF how = "ensure" THEN "load" ELSE "clean",
                           !.days = d, !.left = <<"parquet", "meta">>, !.force = how = "force"]]
    BY <1>2 DEF Start
  <2> DEFINE j == [NoJob EXCEPT !.at = IF how = "ensure" THEN "load" ELSE "clean",
                           !.days = d, !.left = <<"parquet", "meta">>, !.force = how = "force"]
  <2>2. JobOK(j)
    <3> DEFINE place == IF how = "ensure" THEN "load" ELSE "clean"
               both == <<"parquet", "meta">>
               force == how = "force"
    <3>1. both \in Seq({"parquet", "meta"}) /\ d \in Nat /\ force \in BOOLEAN
          /\ place \in {"load", "clean"}
      BY CandleAssumption
    <3>2. j = [NoJob EXCEPT !.at = place, !.days = d, !.left = both, !.force = force]
      OBVIOUS
    <3> HIDE DEF j, place, both, force
    <3>3. j = [at |-> place, days |-> d, tries |-> 0, got |-> Nothing, left |-> both, force |-> force]
      BY <3>2 DEF NoJob
    <3> QED BY <3>1, <3>3, PlainBodies DEF JobOK, JobType
  <2>3. parquet' = parquet /\ frame' = [frame EXCEPT ![p] = Nothing]
    BY <1>2 DEF Start
  <2> HIDE DEF j
  <2> QED BY <2>1, <2>2, <2>3, PlainBodies, CandleStep DEF j
<1>3. ASSUME NEW p \in Fetcher, LoadCached(p) PROVE CandleInv'
  <2>1. \/ job' = [job EXCEPT ![p].at = "fetch"]
        \/ job' = [job EXCEPT ![p].at = "read"]
    BY <1>3 DEF LoadCached
  <2>2. parquet' = parquet /\ frame' = frame /\ job[p].at # "idle"
    BY <1>3 DEF LoadCached
  <2> QED BY <2>1, <2>2, JobMoves, CandleStep
<1>4. ASSUME NEW p \in Fetcher, Read(p) PROVE CandleInv'
  <2>1. parquet' = parquet /\ job[p].at # "idle" /\ parquet.body \in Body /\ Fine(parquet.body)
    BY <1>4 DEF Read, CandleInv
  <2>2. CASE frame' = [frame EXCEPT ![p] = parquet.body] /\ job' = [job EXCEPT ![p] = NoJob]
    BY <2>1, <2>2, PlainBodies, CandleStep
  <2>3. CASE frame' = frame /\ job' = [job EXCEPT ![p].at = "drop"]
    BY <2>1, <2>3, JobMoves, CandleStep
  <2> QED BY <1>4, <2>2, <2>3 DEF Read
<1>5. ASSUME NEW p \in Fetcher, Drop(p) PROVE CandleInv'
  <2>1. parquet' = NoFile /\ frame' = frame /\ job[p].at # "idle" /\ job' = [job EXCEPT ![p].at = "fetch"]
    BY <1>5 DEF Drop
  <2>2. NoFile \in [body : Body, by : SUBSET Fetcher] /\ NoFile.body = Nothing
    BY PlainBodies DEF NoFile
  <2> QED BY <2>1, <2>2, PlainBodies, JobMoves, CandleStep
<1>6. ASSUME NEW p \in Fetcher, CleanSees(p) PROVE CandleInv'
  <2>1. parquet' = parquet /\ frame' = frame /\ job[p].at = "clean" /\ JobOK(job[p])
    BY <1>6 DEF CleanSees, CandleInv
  <2>2. CASE job[p].left = <<>> /\ job' = [job EXCEPT ![p] = NoJob]
    BY <2>1, <2>2, PlainBodies, CandleStep
  <2>3. CASE job[p].left = <<>> /\ job' = [job EXCEPT ![p].at = "fetch"]
    BY <2>1, <2>3, JobMoves, CandleStep
  <2>4. CASE job[p].left # <<>> /\ job' = [job EXCEPT ![p].at = "unlink"]
    <3> DEFINE j == [job[p] EXCEPT !.at = "unlink"]
    <3>1. j \in JobType /\ j.got = job[p].got /\ j.days = job[p].days /\ j.left = job[p].left
      BY <2>1 DEF JobOK, JobType
    <3>2. JobOK(j)
      <4> HIDE DEF j
      <4> QED BY <2>1, <2>4, <3>1 DEF JobOK
    <3>3. job' = [job EXCEPT ![p] = j]
      BY <2>4
    <3> HIDE DEF j
    <3> QED BY <2>1, <3>2, <3>3, CandleStep
  <2>5. CASE job[p].left # <<>> /\ job' = [job EXCEPT ![p].left = Tail(job[p].left)]
    <3> DEFINE j == [job[p] EXCEPT !.left = Tail(job[p].left)]
    <3>1. Tail(job[p].left) \in Seq({"parquet", "meta"})
      BY <2>1, <2>5, HeadTailProperties DEF JobOK, JobType
    <3>2. j \in JobType /\ j.got = job[p].got /\ j.days = job[p].days /\ j.at = "clean"
      BY <2>1, <3>1 DEF JobOK, JobType
    <3>3. JobOK(j)
      <4> HIDE DEF j
      <4> QED BY <2>1, <3>2 DEF JobOK
    <3>4. job' = [job EXCEPT ![p] = j]
      BY <2>5
    <3> HIDE DEF j
    <3> QED BY <2>1, <3>3, <3>4, CandleStep
  <2> QED BY <1>6, <2>2, <2>3, <2>4, <2>5 DEF CleanSees
<1>7. ASSUME NEW p \in Fetcher, CleanUnlinks(p) PROVE CandleInv'
  <2>1. job[p].at = "unlink" /\ frame' = frame /\ JobOK(job[p])
    BY <1>7 DEF CleanUnlinks, CandleInv
  <2>2. parquet' = parquet \/ (parquet' \in [body : Body, by : SUBSET Fetcher] /\ Fine(parquet'.body))
    <3>1. parquet' = parquet \/ parquet' = NoFile
      BY <1>7 DEF CleanUnlinks
    <3> QED BY <3>1, PlainBodies DEF NoFile
  <2>3. CASE job' = [job EXCEPT ![p] = NoJob]
    BY <2>1, <2>2, <2>3, PlainBodies, CandleStep
  <2>4. CASE job' = [job EXCEPT ![p].at = "clean", ![p].left = Tail(job[p].left)]
    <3> DEFINE j == [job[p] EXCEPT !.at = "clean", !.left = Tail(job[p].left)]
    <3>1. Tail(job[p].left) \in Seq({"parquet", "meta"})
      BY <2>1, HeadTailProperties DEF JobOK, JobType
    <3>2. j \in JobType /\ j.got = job[p].got /\ j.days = job[p].days /\ j.at = "clean"
      BY <2>1, <3>1 DEF JobOK, JobType
    <3>3. JobOK(j)
      <4> HIDE DEF j
      <4> QED BY <2>1, <3>2 DEF JobOK
    <3>4. job' = [job EXCEPT ![p] = j]
      <4>1. job \in [Fetcher -> JobType] /\ job[p] \in JobType
        BY DEF CandleInv
      <4> QED BY <2>4, <4>1 DEF JobType
    <3> HIDE DEF j
    <3> QED BY <2>1, <2>2, <3>3, <3>4, CandleStep
  <2> QED BY <1>7, <2>3, <2>4 DEF CleanUnlinks
<1>8. ASSUME NEW p \in Fetcher, FetchFails(p) PROVE CandleInv'
  <2>1. parquet' = parquet /\ frame' = frame /\ job[p].at = "fetch" /\ JobOK(job[p])
    BY <1>8 DEF FetchFails, CandleInv
  <2>2. CASE job' = [job EXCEPT ![p] = NoJob]
    BY <2>1, <2>2, PlainBodies, CandleStep
  <2>3. CASE job' = [job EXCEPT ![p].tries = @ + 1]
    <3> DEFINE j == [job[p] EXCEPT !.tries = job[p].tries + 1]
    <3>1. j \in JobType /\ j.got = job[p].got /\ j.days = job[p].days /\ j.at = "fetch"
      BY <2>1 DEF JobOK, JobType
    <3>2. JobOK(j)
      <4> HIDE DEF j
      <4> QED BY <2>1, <3>1 DEF JobOK
    <3>3. job' = [job EXCEPT ![p] = j]
      BY <2>3
    <3> HIDE DEF j
    <3> QED BY <2>1, <3>2, <3>3, CandleStep
  <2> QED BY <1>8, <2>2, <2>3 DEF FetchFails
<1>9. ASSUME NEW p \in Fetcher, download_data(p) PROVE CandleInv'
  <2> DEFINE rows == fetch_binance_klines(job[p].days)
  <2>1. parquet' = parquet /\ frame' = frame /\ job[p].at = "fetch" /\ JobOK(job[p])
    BY <1>9 DEF download_data, CandleInv
  <2>2. rows = Window(job[p].days) /\ job[p].days \in Days /\ rows \in Seq(Int)
    <3>1. job[p].days \in Days
      BY <2>1 DEF JobOK
    <3>2. \A d \in Days : Window(d) \in Seq(Int)
      <4> SUFFICES ASSUME NEW d \in Days PROVE Window(d) \in Seq(Int)
        OBVIOUS
      <4> DEFINE W == {t \in Opens : t >= FIXED_END_DATE - d /\ t <= FIXED_END_DATE}
      <4>1. W \in SUBSET Opened(FIXED_END_DATE) /\ FIXED_END_DATE \in Nat
        BY CandleAssumption DEF Opened
      <4>2. W \in SUBSET Int /\ IsFiniteSet(W)
        <5> HIDE DEF W
        <5> QED BY <4>1, OpenedFacts, FS_Subset
      <4> HIDE DEF W
      <4> QED BY <4>2, AscendingFacts DEF Window, W
    <3> HIDE DEF rows
    <3> QED BY <3>1, <3>2, FetchIsWindow DEF rows
  <2>3. PICK sane \in BOOLEAN :
          LET f == [is |-> "candles", opens |-> rows, sane |-> sane]
          IN  IF validate_data(f) THEN job' = [job EXCEPT ![p].at = "open", ![p].got = f]
              ELSE job' = [job EXCEPT ![p] = NoJob]
    BY <1>9 DEF download_data
  <2> HIDE DEF rows
  <2> DEFINE f == [is |-> "candles", opens |-> rows, sane |-> sane]
  <2>4. CASE job' = [job EXCEPT ![p] = NoJob]
    BY <2>1, <2>4, PlainBodies, CandleStep
  <2>5. CASE validate_data(f) /\ job' = [job EXCEPT ![p].at = "open", ![p].got = f]
    <3> DEFINE j == [job[p] EXCEPT !.at = "open", !.got = f]
    <3>1. f \in Body /\ Fine(f)
      <4>1. f.sane
        BY <2>5 DEF validate_data
      <4> QED BY <2>2, <4>1 DEF Body, Fine
    <3> HIDE DEF f
    <3>2. j \in JobType /\ j.got = f /\ j.days = job[p].days /\ j.at = "open"
      BY <2>1, <3>1 DEF JobOK, JobType
    <3>3. JobOK(j)
      <4> HIDE DEF j
      <4> QED BY <2>1, <3>1, <3>2 DEF JobOK
    <3>4. job' = [job EXCEPT ![p] = j]
      <4>1. job \in [Fetcher -> JobType] /\ job[p] \in JobType
        BY DEF CandleInv
      <4> QED BY <2>5, <4>1 DEF JobType
    <3> HIDE DEF j
    <3> QED BY <2>1, <3>3, <3>4, CandleStep
  <2> QED BY <2>3, <2>4, <2>5
<1>10. ASSUME NEW p \in Fetcher, SaveOpens(p) PROVE CandleInv'
  <2>1. frame' = frame /\ job[p].at # "idle" /\ job' = [job EXCEPT ![p].at = "write"]
    BY <1>10 DEF SaveOpens
  <2>2. parquet' \in [body : Body, by : SUBSET Fetcher] /\ Fine(parquet'.body)
    <3>1. parquet' = [body |-> Content("torn"), by |-> {p} \cup {q \in parquet.by : job[q].at = "write"}]
      BY <1>10 DEF SaveOpens
    <3>2. parquet.by \in SUBSET Fetcher
      BY DEF CandleInv
    <3> QED BY <3>1, <3>2, PlainBodies
  <2> QED BY <2>1, <2>2, JobMoves, CandleStep
<1>11. ASSUME NEW p \in Fetcher, SaveCloses(p) PROVE CandleInv'
  <2>1. frame' = frame /\ job[p].at # "idle" /\ job' = [job EXCEPT ![p].at = "meta"]
    BY <1>11 DEF SaveCloses
  <2>2. parquet' = parquet \/ (parquet' \in [body : Body, by : SUBSET Fetcher] /\ Fine(parquet'.body))
    <3>1. \/ parquet' = parquet
          \/ parquet' = [parquet EXCEPT !.body = job[p].got]
          \/ parquet' = [parquet EXCEPT !.body = Content("mixed")]
      BY <1>11 DEF SaveCloses
    <3>2. parquet \in [body : Body, by : SUBSET Fetcher] /\ job[p].got \in Body /\ Fine(job[p].got)
      BY DEF CandleInv, JobOK, JobType
    <3> QED BY <3>1, <3>2, PlainBodies
  <2> QED BY <2>1, <2>2, JobMoves, CandleStep
<1>12. ASSUME NEW p \in Fetcher, SaveMeta(p) PROVE CandleInv'
  <2>1. parquet' = parquet /\ job' = [job EXCEPT ![p] = NoJob] /\ frame' = [frame EXCEPT ![p] = job[p].got]
    BY <1>12 DEF SaveMeta
  <2>2. job[p].got \in Body /\ Fine(job[p].got)
    BY DEF CandleInv, JobOK, JobType
  <2> QED BY <2>1, <2>2, PlainBodies, CandleStep
<1>13. ASSUME NEW p \in Fetcher, Stops(p) PROVE CandleInv'
  <2>1. parquet' = parquet /\ frame' = frame /\ job' = [job EXCEPT ![p] = NoJob]
    BY <1>13 DEF Stops
  <2> QED BY <2>1, PlainBodies, CandleStep
<1> QED BY <1>1, <1>2, <1>3, <1>4, <1>5, <1>6, <1>7, <1>8, <1>9, <1>10, <1>11, <1>12, <1>13 DEF CandleNext

\* Whatever a command returns is the candles of a requested window, all of them, once
\* and in order, with possible prices: for any candles that last more than a
\* millisecond, any page size and any processes that load, download, delete and die.
THEOREM FramesAreWindows == CandleSpec => []FrameIsAWindow
<1>1. CandleInit => CandleInv
  <2> SUFFICES ASSUME CandleInit PROVE CandleInv
    OBVIOUS
  <2>1. parquet = NoFile /\ NoFile \in [body : Body, by : SUBSET Fetcher] /\ NoFile.body = Nothing
    BY PlainBodies DEF CandleInit, NoFile
  <2>2. frame = [p \in Fetcher |-> Nothing] /\ job = [p \in Fetcher |-> NoJob]
    BY DEF CandleInit
  <2>3. NoJob \in JobType
    BY PlainBodies DEF JobOK
  <2> QED BY <2>1, <2>2, <2>3, PlainBodies DEF CandleInv
<1>2. CandleInv => FrameIsAWindow
  BY DEF CandleInv, FrameIsAWindow, Fine
<1> QED BY <1>1, <1>2, CandleKeeps, PTL DEF CandleSpec
=============================================================================
