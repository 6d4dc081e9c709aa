------------------------------- MODULE Disk -------------------------------
(***************************************************************************)
(* The private object store scripts/local_media_store.py: one file per     *)
(* object and an SQLite index beside them.  The index and the files cannot *)
(* change together, so a write is the file first and its row afterwards,   *)
(* and a deletion is a tombstone row first and the unlink afterwards; a    *)
(* crash or an I/O error may come between.  One lock serves one request at *)
(* a time.  GET and HEAD change nothing and are the operator Served.       *)
(* Compact is the part of scripts/compact_local_media.py that touches this *)
(* store.  Names, directories and their permissions are left out.          *)
(***************************************************************************)
EXTENDS Naturals, FiniteSets, FiniteSetsExt

CONSTANTS
    Keys, Contents, None, Gone,
    Pending,   \* keys ending in /pending: placeholders, never written
    Size,      \* the length of each content
    MaxBytes,  \* maximum, the budget of both buckets together
    MaxRows    \* the limit of the index, 4096

ASSUME DiskAssumption ==
    /\ IsFiniteSet(Keys)  \* KEY bounds the length of a key
    /\ Pending \subseteq Keys
    /\ Size \in [Contents -> Nat]
    /\ MaxBytes \in Nat /\ MaxRows \in Nat
    /\ None \notin Contents \cup [size : Nat, deleted : BOOLEAN]
    /\ None \notin [op : {"put", "delete"}, key : Keys]
    /\ Gone \notin Contents \cup {None}

VARIABLES
    rows,    \* the table objects
    files,   \* what the file of each key holds, or None
    io,      \* the request the process has half done, or None
    online,  \* the process runs
    body     \* history: the content the last writer of each key sent

vars == <<rows, files, io, online, body>>

Rows == [size : Nat, deleted : BOOLEAN]

TypeOK ==
    /\ rows \in [Keys -> Rows \cup {None}]
    /\ files \in [Keys -> Contents \cup {None}]
    /\ io \in [op : {"put", "delete"}, key : Keys] \cup {None}
    /\ online \in BOOLEAN
    /\ body \in [Keys -> Contents \cup {None}]

Live(k) == rows[k] # None /\ ~rows[k].deleted

\* GET finds the row and a file of the recorded size.
Served(k) == Live(k) /\ files[k] # None /\ Size[files[k]] = rows[k].size

FileSize(k) == IF files[k] = None THEN 0 ELSE Size[files[k]]

\* _usage counts files, whether the index knows them or not.
Usage == MapThenSumSet(FileSize, Keys)

\* _capacity: a row that exists may always be rewritten.
Capacity(k) == rows[k] # None \/ Cardinality({l \in Keys : rows[l] # None}) < MaxRows

-----------------------------------------------------------------------------

Init ==
    /\ rows = [k \in Keys |-> None]
    /\ files = [k \in Keys |-> None]
    /\ io = None
    /\ online = TRUE
    /\ body = [k \in Keys |-> None]

Free == online /\ io = None

\* Mutants: indexed before the file is on disk; only what is there is counted;
\* a tombstone does not stop a late upload.
WriteFileIndexed(k, c) ==
    /\ Free
    /\ k \notin Pending
    /\ rows[k] = None /\ files[k] = None
    /\ Capacity(k)
    /\ Size[c] > 0
    /\ Usage + Size[c] <= MaxBytes
    /\ rows' = [rows EXCEPT ![k] = [size |-> Size[c], deleted |-> FALSE]]
    /\ files' = [files EXCEPT ![k] = c]
    /\ body' = [body EXCEPT ![k] = c]
    /\ io' = [op |-> "put", key |-> k]
    /\ UNCHANGED online

WriteFileUncounted(k, c) ==
    /\ Free
    /\ k \notin Pending
    /\ rows[k] = None /\ files[k] = None
    /\ Capacity(k)
    /\ Size[c] > 0
    /\ Usage <= MaxBytes
    /\ files' = [files EXCEPT ![k] = c]
    /\ body' = [body EXCEPT ![k] = c]
    /\ io' = [op |-> "put", key |-> k]
    /\ UNCHANGED <<rows, online>>

WriteFileAgain(k, c) ==
    /\ Free
    /\ k \notin Pending
    /\ ~Live(k) /\ files[k] = None
    /\ Capacity(k)
    /\ Size[c] > 0
    /\ Usage + Size[c] <= MaxBytes
    /\ files' = [files EXCEPT ![k] = c]
    /\ body' = [body EXCEPT ![k] = c]
    /\ io' = [op |-> "put", key |-> k]
    /\ UNCHANGED <<rows, online>>

\* PUT up to the synced file.  A row, also a tombstone, and a file without a
\* row are answered with 412; the other refusals change nothing either.
WriteFile(k, c) ==
    /\ Free
    /\ k \notin Pending
    /\ rows[k] = None /\ files[k] = None
    /\ Capacity(k)
    /\ Size[c] > 0
    /\ Usage + Size[c] <= MaxBytes
    /\ files' = [files EXCEPT ![k] = c]
    /\ body' = [body EXCEPT ![k] = c]
    /\ io' = [op |-> "put", key |-> k]
    /\ UNCHANGED <<rows, online>>

InsertRow ==
    /\ io # None /\ io.op = "put"
    /\ rows' = [rows EXCEPT ![io.key] = [size |-> Size[files[io.key]], deleted |-> FALSE]]
    /\ io' = None
    /\ UNCHANGED <<files, online, body>>

Tombstone(k) ==
    /\ Free
    /\ Capacity(k)
    /\ rows' = [rows EXCEPT ![k] = [size |-> IF rows[k] = None THEN 0 ELSE rows[k].size,
                                    deleted |-> TRUE]]
    /\ io' = [op |-> "delete", key |-> k]
    /\ UNCHANGED <<files, online, body>>

Unlink ==
    /\ io # None /\ io.op = "delete"
    /\ files' = [files EXCEPT ![io.key] = None]
    /\ io' = None
    /\ UNCHANGED <<rows, online, body>>

\* What an interrupted request leaves: of a file that was being written
\* nothing, a part, or bytes that never reached the platter.
Interrupted ==
    /\ io' = None
    /\ IF io # None /\ io.op = "put"
       THEN \E c \in {d \in Contents : Size[d] <= Size[files[io.key]]} \cup {None} :
              files' = [files EXCEPT ![io.key] = c]
       ELSE UNCHANGED files
    /\ UNCHANGED <<rows, body>>

\* An error of the file system or of SQLite: the request ends, the process not.
Fail ==
    /\ io # None
    /\ Interrupted
    /\ UNCHANGED online

Crash ==
    /\ online
    /\ online' = FALSE
    /\ Interrupted

Start ==
    /\ ~online
    /\ online' = TRUE
    /\ UNCHANGED <<rows, files, io, body>>

\* Offline compaction: tombstones go, once no byte is left behind them and
\* everything live reads well.
Compact ==
    /\ ~online
    /\ \A k \in Keys : IF Live(k) THEN Served(k) ELSE rows[k] # None => files[k] = None
    /\ rows' = [k \in Keys |-> IF Live(k) THEN rows[k] ELSE None]
    /\ UNCHANGED <<files, io, online, body>>

Next ==
    \/ \E k \in Keys : Tombstone(k) \/ \E c \in Contents : WriteFile(k, c)
    \/ InsertRow
    \/ Unlink
    \/ Fail
    \/ Crash
    \/ Start
    \/ Compact

Spec == Init /\ [][Next]_vars

-----------------------------------------------------------------------------

\* What is served is a whole upload, never what an interrupted one left: the
\* row is written after the file is on disk, and a file found without a row is
\* neither indexed nor replaced (local_media_store.py:99-109).
ServedIsWhole == \A k \in Keys : Served(k) => files[k] = body[k]

\* Everything on the disk stays within the budget, also the remains of
\* interrupted uploads and of deletions, and the index within its limit
\* (local_media_store.py:57-65, 96-98, 126-128).
WithinBudget ==
    /\ Usage <= MaxBytes
    /\ Cardinality({k \in Keys : rows[k] # None}) <= MaxRows

Writing(k) == io # None /\ io.op = "put" /\ io.key = k

View(k) ==
    IF Served(k) THEN files[k]
    ELSE IF rows[k] = None /\ (files[k] = None \/ Writing(k)) THEN None
    ELSE Gone

\* The store is a write-once store: in spite of crashes between file and index,
\* what was served does not change until it is withdrawn, and a withdrawn or
\* half-written key is never served again (local_media_store.py:78-110).
Abstract == INSTANCE WriteOnce WITH
    object <- [k \in Keys |-> View(k)], Absent <- None

ImplementsWriteOnce == Abstract!Spec
=============================================================================
