------------------------------ MODULE SqliteFile ------------------------------
(***************************************************************************)
(* The database file as PassKeeper's commands use it: one SQLite file with *)
(* a rollback journal, opened by several processes with no busy handler,   *)
(* so that a lock that is not free is an error at once.                    *)
(*                                                                         *)
(* This is the library, not code of the repository: what each call does to *)
(* the file, the journal and the locks, at the grain at which processes    *)
(* interleave.  PENDING is left out: it delays new readers, which no call  *)
(* here waits for.                                                         *)
(***************************************************************************)
EXTENDS FiniteSets, Sequences, Naturals

CONSTANTS
    Procs,      \* the processes, each with one connection
    Rows,       \* the rows they can insert
    NoJournal   \* nothing at <database>-journal

VARIABLES
    disk,     \* the rows in the database file
    journal,  \* whose journal is at the journal path, or NoJournal
    image,    \* process -> the rows its journal restores, through its own descriptor
    cache,    \* process -> rows inserted and not yet written to the file
    lock      \* process -> the lock its connection holds

db == <<disk, journal, image, cache, lock>>

Locks == {"none", "shared", "reserved", "exclusive"}

Others(p) == Procs \ {p}

Writing == {"reserved", "exclusive"}

(* A journal whose writer is gone: the next reader has to play it back. *)
IsHot == journal # NoJournal /\ \A q \in Procs : lock[q] \notin Writing

(* May p become a reader?  Not beside a process writing pages, and a hot
   journal is played back alone. *)
CanRead(p) ==
    /\ \A q \in Others(p) : lock[q] # "exclusive"
    /\ IsHot => \A q \in Others(p) : lock[q] = "none"

(* What the file holds once p is a reader. *)
RolledBack == IF IsHot THEN image[journal] ELSE disk

CanWrite(p) == CanRead(p) /\ \A q \in Others(p) : lock[q] \notin Writing

SetLock(p, mode) == lock' = [lock EXCEPT ![p] = mode]

(* A statement that only reads takes SHARED. *)
TakeShared(p) ==
    /\ CanRead(p)
    /\ disk' = RolledBack
    /\ journal' = IF IsHot THEN NoJournal ELSE journal
    /\ SetLock(p, "shared")
    /\ UNCHANGED <<image, cache>>

DropShared(p) ==
    /\ SetLock(p, "none")
    /\ UNCHANGED <<disk, journal, image, cache>>

(* The first INSERT of a transaction takes RESERVED and opens the journal. *)
FirstInsert(p, row) ==
    /\ CanWrite(p)
    /\ disk' = RolledBack
    /\ journal' = p
    /\ image' = [image EXCEPT ![p] = disk']
    /\ cache' = [cache EXCEPT ![p] = {row}]
    /\ SetLock(p, "reserved")

NextInsert(p, row) ==
    /\ lock[p] = "reserved"
    /\ cache' = [cache EXCEPT ![p] = @ \cup {row}]
    /\ UNCHANGED <<disk, journal, image, lock>>

(* COMMIT: wait-free or fail on readers, write the pages one by one, unlink
   the journal. *)
TakeExclusive(p) ==
    /\ \A q \in Others(p) : lock[q] = "none"
    /\ SetLock(p, "exclusive")
    /\ UNCHANGED <<disk, journal, image, cache>>

WritePage(p) ==
    /\ lock[p] = "exclusive"
    /\ \E row \in cache[p] :
          /\ disk' = disk \cup {row}
          /\ cache' = [cache EXCEPT ![p] = @ \ {row}]
    /\ UNCHANGED <<journal, image, lock>>

UnlinkJournal(p) ==
    /\ lock[p] = "exclusive" /\ cache[p] = {}
    /\ journal' = NoJournal
    /\ SetLock(p, "none")
    /\ UNCHANGED <<disk, image, cache>>

(* A failed write is rolled back from the journal p has open. *)
Rollback(p) ==
    /\ lock[p] = "exclusive"
    /\ disk' = image[p]
    /\ journal' = NoJournal
    /\ cache' = [cache EXCEPT ![p] = {}]
    /\ SetLock(p, "none")
    /\ UNCHANGED image

(* A process ends: its locks and its cache are gone, its journal stays. *)
Vanish(p) ==
    /\ SetLock(p, "none")
    /\ cache' = [cache EXCEPT ![p] = {}]
    /\ UNCHANGED <<disk, journal, image>>

(* What the next reader would find if every process ended now. *)
Recovered == IF journal = NoJournal THEN disk ELSE image[journal]

DbInit ==
    /\ disk = {} /\ journal = NoJournal
    /\ image = [p \in Procs |-> {}]
    /\ cache = [p \in Procs |-> {}]
    /\ lock = [p \in Procs |-> "none"]

DbTypeOK ==
    /\ disk \subseteq Rows
    /\ journal \in Procs \cup {NoJournal}
    /\ image \in [Procs -> SUBSET Rows]
    /\ cache \in [Procs -> SUBSET Rows]
    /\ lock \in [Procs -> Locks]
===============================================================================
