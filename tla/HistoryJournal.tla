--------------------------- MODULE HistoryJournal ---------------------------
(***************************************************************************)
(* HISTORY.jsonl and its rotation (append_history and replay_from_history, *)
(* app/loop/state.py).  A writer opens the file, appends one line under an *)
(* exclusive flock, and when the file has grown too large copies it into a *)
(* gzip archive named by the second and unlinks it.  The copy and the      *)
(* unlink go by name and are outside the lock.                             *)
(*                                                                         *)
(* A file that has been unlinked lives on under the descriptors that have  *)
(* it open, so files are numbered: the n-th file created is file n.        *)
(* Records are numbered in the order they were written.                    *)
(***************************************************************************)
EXTENDS Numbers, Functions

CONSTANTS
    Writer,     \* processes that append
    RotateAt,   \* rotate_bytes, counted in records
    MaxRecords, \* bound: records written
    MaxCrashes  \* bound: writers that die

ASSUME JournalAssumption ==
    /\ {RotateAt, MaxRecords} \subseteq Nat \ {0}
    /\ MaxCrashes \in Nat

VARIABLES
    files,      \* the files created as HISTORY.jsonl so far, with their lines
    current,    \* the one the name stands for, 0 if there is none
    archives,   \* HISTORY-<ts>.jsonl.gz by time
    at,         \* writer -> where append_history is
    fd,         \* writer -> the file it has open
    stamp,      \* writer -> the archive it writes
    written,    \* number of records written
    exposed,    \* history: records that met another writer's rotation
    crashes     \* counter for the bound

vars == <<files, current, archives, at, fd, stamp, written, exposed, crashes>>

\* An archive: its lines, whether gzip can read it to its end, the file it was opened
\* for last, who opened it, and whether one did while another was writing it.
Archive == [lines : Seq(1 .. MaxRecords), whole : BOOLEAN, of : Nat, by : SUBSET Writer, shared : BOOLEAN]

TypeOK ==
    /\ files \in Seq(Seq(1 .. MaxRecords))
    /\ current \in 0 .. Len(files)
    /\ archives \in Seq(Archive)
    /\ at \in [Writer -> {"idle", "open", "full", "copying", "copied"}]
    /\ fd \in [Writer -> 0 .. Len(files)]
    /\ stamp \in [Writer -> 0 .. Len(archives)]
    /\ written \in 0 .. MaxRecords
    /\ exposed \subseteq 1 .. written
    /\ crashes \in 0 .. MaxCrashes

Init ==
    /\ files = <<>>
    /\ current = 0
    /\ archives = <<>>
    /\ at = [w \in Writer |-> "idle"]
    /\ fd = [w \in Writer |-> 0]
    /\ stamp = [w \in Writer |-> 0]
    /\ written = 0
    /\ exposed = {}
    /\ crashes = 0
----------------------------------------------------------------------------
\* os.open with O_CREAT: the file the name stands for, or a new one.
Open(w) ==
    /\ at[w] = "idle"
    /\ at' = [at EXCEPT ![w] = "open"]
    /\ IF current # 0
       THEN fd' = [fd EXCEPT ![w] = current] /\ UNCHANGED <<files, current>>
       ELSE /\ files' = Append(files, <<>>)
            /\ current' = Len(files) + 1
            /\ fd' = [fd EXCEPT ![w] = Len(files) + 1]
    /\ UNCHANGED <<archives, stamp, written, exposed, crashes>>

\* new_size >= rotate_bytes
MustRotate(n) == n >= RotateAt

\* w is between the first line of a rotation and its last.
Rotating(w) == at[w] \in {"copying", "copied"}

\* Under the flock: the line is written and the size is read.  The file may have lost
\* its name since it was opened, or be about to lose it.
Write(w) ==
    /\ at[w] = "open"
    /\ written < MaxRecords
    /\ written' = written + 1
    /\ files' = [files EXCEPT ![fd[w]] = Append(@, written + 1)]
    /\ at' = [at EXCEPT ![w] = IF MustRotate(Len(files[fd[w]]) + 1) THEN "full" ELSE "idle"]
    /\ exposed' = IF fd[w] = current /\ \A v \in Writer \ {w} : ~Rotating(v)
                  THEN exposed ELSE exposed \cup {written + 1}
    /\ UNCHANGED <<current, archives, fd, stamp, crashes>>

\* gzip.open(rotated, "wb") on a name of its own.
NewArchive(w) ==
    /\ archives' = Append(archives, [lines |-> <<>>, whole |-> FALSE, of |-> current,
                                     by |-> {w}, shared |-> FALSE])
    /\ stamp' = [stamp EXCEPT ![w] = Len(archives) + 1]
    /\ UNCHANGED exposed

\* The same in the second in which another writer opened the last archive: it is
\* truncated.  To fill a file takes more than a second, and so does a writer's next
\* append: w filled no later file than that archive was opened for, and opens it once.
SameArchive(w) ==
    LET n == Len(archives)
        others == {v \in Writer \ {w} : at[v] = "copying" /\ stamp[v] = n}
    IN  /\ n # 0 /\ w \notin archives[n].by /\ fd[w] <= archives[n].of
        /\ archives' = [archives EXCEPT ![n] =
              [lines |-> <<>>, whole |-> FALSE, of |-> current,
               by |-> @.by \cup {w}, shared |-> @.shared \/ others # {}]]
        /\ stamp' = [stamp EXCEPT ![w] = n]
        /\ exposed' = exposed \cup Range(archives[n].lines) \cup Range(files[current])
                         \cup (UNION {Range(files[fd[v]]) : v \in others})

\* The file is opened by name and the archive by the second; nothing to do if another
\* process has rotated already.
BeginRotation(w) ==
    /\ at[w] = "full"
    /\ \/ /\ current = 0
          /\ at' = [at EXCEPT ![w] = "idle"]
          /\ UNCHANGED <<archives, fd, stamp, exposed>>
       \/ /\ current # 0
          /\ at' = [at EXCEPT ![w] = "copying"]
          /\ fd' = [fd EXCEPT ![w] = current]
          /\ NewArchive(w) \/ SameArchive(w)
    /\ UNCHANGED <<files, current, written, crashes>>

\* The file is unlinked before it is copied, and the copy finds nothing.
CopyAfterUnlink(w) ==
    /\ at[w] = "copying"
    /\ archives' = [archives EXCEPT ![stamp[w]].lines = <<>>, ![stamp[w]].whole = TRUE]
    /\ at' = [at EXCEPT ![w] = "copied"]
    /\ UNCHANGED <<files, current, fd, stamp, written, exposed, crashes>>

\* copyfileobj, to the end of the file as it is then; the archive is closed.  Two that
\* write one archive at once may leave bytes that are neither's.
Copy(w) ==
    /\ at[w] = "copying"
    /\ \E intact \in BOOLEAN :
          /\ intact \/ archives[stamp[w]].shared
          /\ archives' = [archives EXCEPT ![stamp[w]].lines = IF intact THEN files[fd[w]] ELSE <<>>,
                                          ![stamp[w]].whole = intact]
    /\ at' = [at EXCEPT ![w] = "copied"]
    /\ UNCHANGED <<files, current, fd, stamp, written, exposed, crashes>>

\* path.unlink(): whatever file has the name now.
Unlink(w) ==
    /\ at[w] = "copied"
    /\ at' = [at EXCEPT ![w] = "idle"]
    /\ current' = 0
    /\ UNCHANGED <<files, archives, fd, stamp, written, exposed, crashes>>

\* The process dies, or an OSError ends the rotation and is swallowed.
Crash(w) ==
    /\ at[w] # "idle"
    /\ crashes < MaxCrashes
    /\ crashes' = crashes + 1
    /\ at' = [at EXCEPT ![w] = "idle"]
    /\ UNCHANGED <<files, current, archives, fd, stamp, written, exposed>>

Next ==
    \E w \in Writer : \/ Open(w) \/ Write(w) \/ BeginRotation(w)
                      \/ Copy(w) \/ Unlink(w) \/ Crash(w)

Spec == Init /\ [][Next]_vars
----------------------------------------------------------------------------
\* The records that can be read somewhere: in an archive, or in the file that has the
\* name.  Their order does not matter to a reader that keeps the best of them.
Lines(n) == Range(archives[n].lines)
Held == IF current = 0 THEN {} ELSE Range(files[current])
Recorded == (UNION {Lines(n) : n \in DOMAIN archives}) \cup Held

\* replay_from_history: an archive that was cut short raises EOFError, and the caller
\* gets nothing.
Raises == \E n \in DOMAIN archives : ~archives[n].whole
Replay == IF Raises THEN {} ELSE Recorded

\* append_history with several writers: a record whose append returned is lost only if
\* another writer was rotating when it was written, its file had been unlinked by
\* one, or two writers opened its archive in one second.  No crash loses one, wherever
\* the writer dies.
LostOnlyIfExposed == (1 .. written) \ exposed \subseteq Recorded

\* "append-only journal, one line per experiment": through rotations, crashes and
\* restarts of any number of writers the file and its archives implement a log that
\* grows by one record at a time and loses none that was not exposed.
L == INSTANCE AppendLog WITH safe <- Recorded \ exposed, count <- written
ImplementsLog == L!LogSpec

\* "the gz files retain full history for replay": no record whose append returned is
\* lost, at any point of a rotation.
NothingLost == 1 .. written \subseteq Recorded

\* "Walk every HISTORY*.jsonl(.gz) and return parsed records": between appends every
\* archive can be read to its end, and the replay holds whatever was not exposed.
ReplaySucceeds ==
    (\A w \in Writer : at[w] = "idle") => (1 .. written) \ exposed \subseteq Replay
=============================================================================
