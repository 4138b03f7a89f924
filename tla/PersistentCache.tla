-------------------------- MODULE PersistentCache --------------------------
(***************************************************************************)
(* One file-backed cache: BasePersistentCache in                           *)
(* hahomematic/caches/persistent.py.                                       *)
(*                                                                         *)
(* The dictionary lives on the event loop; the file is read, written and   *)
(* deleted by jobs of a thread pool.  _sema_save_or_load lets one save or  *)
(* load at a time near the file, but neither the code that changes the     *)
(* dictionary nor clear() takes it.  A hash is that of the repr of the     *)
(* content, so it stands for the content, and for what a dump and a load   *)
(* make of it only where Stored leaves the content as it is.  use_caches   *)
(* is on and the directory can be created.                                 *)
(***************************************************************************)
CONSTANTS
  Content,   \* what the dictionary may hold
  Empty,     \* the dictionary of a new process
  Users,     \* the coroutines that save, load or clear
  Stored(_)  \* what is loaded of a content that was dumped

VARIABLES
  mem,    \* _persistant_cache
  saved,  \* last_hash_saved
  disk,   \* the file: missing, cut short, or whole with a content
  io,     \* per coroutine, where in save() or load() it is
  hash    \* per coroutine, the cache_hash its save() computed

vars == <<mem, saved, disk, io, hash>>

Stages   == {"idle", "wait", "open", "write", "read"}
Absent   == [file |-> "missing", of |-> Empty]
Cut      == [file |-> "cut", of |-> Empty]
Whole(c) == [file |-> "whole", of |-> c]

TypeOK ==
  /\ mem \in Content
  /\ saved \in Content
  /\ disk \in {Absent, Cut} \cup {Whole(c) : c \in Content}
  /\ io \in [Users -> Stages]
  /\ hash \in [Users -> Content]

Fresh ==
  /\ mem = Empty
  /\ saved = Empty
  /\ io = [p \in Users |-> "idle"]
  /\ hash = [p \in Users |-> Empty]

Init == Fresh /\ disk = Absent

\* The coroutines past the semaphore; there is at most one.
Holders == {p \in Users : io[p] \in {"open", "write", "read"}}

OneHolder == \A p, q \in Holders : p = q

Change(c) ==
  /\ mem' = c
  /\ UNCHANGED <<saved, disk, io, hash>>

\* data_changed
Dirty == mem # saved

\* save(), up to its first await: the hash is taken before the semaphore.
SaveBegin(p) ==
  /\ io[p] = "idle"
  /\ Dirty
  /\ io' = [io EXCEPT ![p] = IF Holders = {} THEN "open" ELSE "wait"]
  /\ hash' = [hash EXCEPT ![p] = mem]
  /\ UNCHANGED <<mem, saved, disk>>

SaveWake(p) ==
  /\ io[p] = "wait"
  /\ Holders = {}
  /\ io' = [io EXCEPT ![p] = "open"]
  /\ UNCHANGED <<mem, saved, disk, hash>>

\* _save() in the pool: opening with mode "wb" cuts the file to nothing.
SaveOpen(p) ==
  /\ io[p] = "open"
  /\ disk' = Cut
  /\ io' = [io EXCEPT ![p] = "write"]
  /\ UNCHANGED <<mem, saved, hash>>

\* A variant in which the hash is taken after the write, of a content dumped before it
SaveWriteStale(p) ==
  /\ io[p] = "write"
  /\ disk' = IF disk = Absent THEN disk ELSE Whole(Stored(hash[p]))
  /\ saved' = mem
  /\ io' = [io EXCEPT ![p] = "idle"] /\ hash' = [hash EXCEPT ![p] = Empty]
  /\ UNCHANGED mem

\* What is dumped is the dictionary of this moment.  A file deleted since it
\* was opened stays deleted.
SaveWrite(p) ==
  /\ io[p] = "write"
  /\ disk' = IF disk = Absent THEN disk ELSE Whole(Stored(mem))
  /\ saved' = hash[p]
  /\ io' = [io EXCEPT ![p] = "idle"]
  /\ hash' = [hash EXCEPT ![p] = Empty]
  /\ UNCHANGED mem

\* load(), where the file exists and nobody is near it.
LoadBegin(p) ==
  /\ io[p] = "idle"
  /\ disk # Absent
  /\ Holders = {}
  /\ io' = [io EXCEPT ![p] = "read"]
  /\ UNCHANGED <<mem, saved, disk, hash>>

\* A variant in which the semaphore is not released where the file does not parse
LoadReadLeaks(p) ==
  /\ io[p] = "read" /\ disk.file # "cut"
  /\ mem' = disk.of /\ saved' = disk.of
  /\ io' = [io EXCEPT ![p] = "idle"]
  /\ UNCHANGED <<disk, hash>>

\* _load() in the pool: a file cut short does not parse (JSONDecodeError), one
\* deleted meanwhile cannot be opened; both leave the dictionary alone.
LoadRead(p) ==
  /\ io[p] = "read"
  /\ IF disk.file = "whole" /\ disk.of # saved
       THEN mem' = disk.of /\ saved' = disk.of
       ELSE UNCHANGED <<mem, saved>>
  /\ io' = [io EXCEPT ![p] = "idle"]
  /\ UNCHANGED <<disk, hash>>

\* clear(): the file and the dictionary go, last_hash_saved stays.
Clear ==
  /\ mem' = Empty
  /\ disk' = Absent
  /\ UNCHANGED <<saved, io, hash>>

\* The process dies: what was not in the file is gone.
Crash ==
  /\ mem' = Empty
  /\ saved' = Empty
  /\ io' = [p \in Users |-> "idle"]
  /\ hash' = [p \in Users |-> Empty]
  /\ UNCHANGED disk

Next ==
  \/ \E c \in Content : Change(c)
  \/ \E p \in Users :
       \/ SaveBegin(p) \/ SaveWake(p) \/ SaveOpen(p) \/ SaveWrite(p)
       \/ LoadBegin(p) \/ LoadRead(p)
  \/ Clear
  \/ Crash

Spec == Init /\ [][Next]_vars
=============================================================================
