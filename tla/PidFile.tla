------------------------------ MODULE PidFile ------------------------------
(***************************************************************************)
(* The guard of the single worker (app/pidfile.py) as app/main_worker.py   *)
(* and the status commands use it: an exclusive flock on the file          *)
(* data/worker.pid for the life of the process.                            *)
(*                                                                         *)
(* A lock is on an open file (an inode), the name leads to one inode at    *)
(* most, and each call of the operating system is a step: opening,         *)
(* locking, writing, unlinking and unlocking can be interleaved with those *)
(* of other starters, of a worker that stops and of status commands.       *)
(***************************************************************************)
EXTENDS Naturals, FiniteSets

CONSTANTS
  Process,   \* workers being started, running or stopping
  Observer,  \* status commands and health checks
  Inode,     \* files; one that has neither the name nor a reader can come anew
  NoInode, NoProcess

ASSUME PidFileAssumption ==
  /\ NoInode \notin Inode
  /\ NoProcess \notin Process \union Observer
  /\ Process \intersect Observer = {}

VARIABLES
  pidPath,   \* the inode that data/worker.pid names
  locker,    \* who holds the flock on each inode
  pidText,   \* the process whose PID each inode records
  handle,    \* the open file of each process and observer
  stage,     \* where each of them is
  raced      \* (history) a file was unlinked while somebody else had it open

pidVars == <<pidPath, locker, pidText, handle, stage, raced>>

PidActor == Process \union Observer

PidInit ==
  /\ pidPath = NoInode
  /\ locker = [i \in Inode |-> NoProcess]
  /\ pidText = [i \in Inode |-> NoProcess]
  /\ handle = [p \in PidActor |-> NoInode]
  /\ stage = [p \in PidActor |-> "out"]
  /\ raced = FALSE

\* A worker is at work from the lock on until it unlinks the file.
Working == {p \in Process : stage[p] \in {"locked", "running"}}

-----------------------------------------------------------------------------
(* acquire *)

\* Opening for appending creates the file if the name leads nowhere.
OpenPidFile(p) ==
  /\ stage[p] = "out"
  /\ IF pidPath # NoInode
     THEN handle' = [handle EXCEPT ![p] = pidPath] /\ UNCHANGED <<pidPath, pidText>>
     ELSE \E i \in Inode \ {handle[q] : q \in PidActor} :
            /\ pidPath' = i
            /\ pidText' = [pidText EXCEPT ![i] = NoProcess]
            /\ handle' = [handle EXCEPT ![p] = i]
  /\ stage' = [stage EXCEPT ![p] = "open"]
  /\ UNCHANGED <<locker, raced>>

\* (slip) A file whose worker is not alive under its PID is taken over, although
\* a worker that has not written its PID yet holds the lock.
LockableByPid(i) == locker[i] = NoProcess \/ pidText[i] = NoProcess

\* flock without waiting
Lockable(i) == locker[i] = NoProcess

LockPidFile(p) ==
  /\ stage[p] = "open"
  /\ Lockable(handle[p])
  /\ locker' = [locker EXCEPT ![handle[p]] = p]
  /\ stage' = [stage EXCEPT ![p] = "locked"]
  /\ UNCHANGED <<pidPath, pidText, handle, raced>>

\* (slip) The file stays open.
LeftOpen(p) == handle

Closed(p) == [handle EXCEPT ![p] = NoInode]

\* WorkerAlreadyRunningError: the process logs it and exits.
RefuseStart(p) ==
  /\ stage[p] = "open"
  /\ ~Lockable(handle[p])
  /\ handle' = Closed(p)
  /\ stage' = [stage EXCEPT ![p] = "out"]
  /\ UNCHANGED <<pidPath, locker, pidText, raced>>

WritePid(p) ==
  /\ stage[p] = "locked"
  /\ pidText' = [pidText EXCEPT ![handle[p]] = p]
  /\ stage' = [stage EXCEPT ![p] = "running"]
  /\ UNCHANGED <<pidPath, locker, handle, raced>>

-----------------------------------------------------------------------------
(* release, and the end without it *)

\* The file of that name goes, whichever process made it.
UnlinkPidFile(p) ==
  /\ stage[p] = "running"
  /\ pidPath' = NoInode
  /\ raced' = (raced \/ \E q \in PidActor \ {p} : handle[q] # NoInode)
  /\ stage' = [stage EXCEPT ![p] = "stopping"]
  /\ UNCHANGED <<locker, pidText, handle>>

UnlockPidFile(p) ==
  /\ stage[p] = "stopping"
  /\ locker' = [locker EXCEPT ![handle[p]] =
                  IF @ = p THEN NoProcess ELSE @]
  /\ handle' = Closed(p)
  /\ stage' = [stage EXCEPT ![p] = "out"]
  /\ UNCHANGED <<pidPath, pidText, raced>>

\* A death, or an exception before the try of main(): the kernel closes the file
\* and frees the lock, the name stays.
EndWithoutRelease(p) ==
  /\ stage[p] # "out"
  /\ locker' = [i \in Inode |-> IF locker[i] = p THEN NoProcess ELSE locker[i]]
  /\ handle' = Closed(p)
  /\ stage' = [stage EXCEPT ![p] = "out"]
  /\ UNCHANGED <<pidPath, pidText, raced>>

-----------------------------------------------------------------------------
(* get_status *)

StatusOpens(o) ==
  /\ stage[o] = "out" /\ pidPath # NoInode
  /\ handle' = [handle EXCEPT ![o] = pidPath]
  /\ stage' = [stage EXCEPT ![o] = "open"]
  /\ UNCHANGED <<pidPath, locker, pidText, raced>>

\* Nobody has the lock: the probe itself holds it for a moment.
StatusLocks(o) ==
  /\ stage[o] = "open" /\ locker[handle[o]] = NoProcess
  /\ locker' = [locker EXCEPT ![handle[o]] = o]
  /\ stage' = [stage EXCEPT ![o] = "idle"]
  /\ UNCHANGED <<pidPath, pidText, handle, raced>>

StatusFindsLock(o) ==
  /\ stage[o] = "open" /\ locker[handle[o]] # NoProcess
  /\ stage' = [stage EXCEPT ![o] = "busy"]
  /\ UNCHANGED <<pidPath, locker, pidText, handle, raced>>

\* The verdict, "running" or "stale", and the end of the probe.
StatusEnds(o) ==
  /\ stage[o] \in {"idle", "busy"}
  /\ locker' = IF stage[o] = "idle" THEN [locker EXCEPT ![handle[o]] = NoProcess]
                                    ELSE locker
  /\ handle' = Closed(o)
  /\ stage' = [stage EXCEPT ![o] = "out"]
  /\ UNCHANGED <<pidPath, pidText, raced>>

PidNext ==
  \/ \E p \in Process :
       \/ OpenPidFile(p) \/ LockPidFile(p) \/ RefuseStart(p) \/ WritePid(p)
       \/ UnlinkPidFile(p) \/ UnlockPidFile(p) \/ EndWithoutRelease(p)
  \/ \E o \in Observer :
       StatusOpens(o) \/ StatusLocks(o) \/ StatusFindsLock(o) \/ StatusEnds(o)

PidSpec == PidInit /\ [][PidNext]_pidVars

-----------------------------------------------------------------------------
(* Properties *)

\* The types of the state; who holds a lock has the file open.
PidTypeOK ==
  /\ pidPath \in Inode \union {NoInode}
  /\ locker \in [Inode -> PidActor \union {NoProcess}]
  /\ pidText \in [Inode -> Process \union {NoProcess}]
  /\ handle \in [PidActor -> Inode \union {NoInode}]
  /\ stage \in [PidActor -> {"out", "open", "locked", "running", "stopping", "idle",
                          "busy"}]
  /\ raced \in BOOLEAN
  /\ \A p \in PidActor : stage[p] = "out" <=> handle[p] = NoInode
  /\ \A i \in Inode : locker[i] # NoProcess => handle[locker[i]] = i

\* Two workers never work at once, deaths, stale files and status commands
\* included, unless a worker removed the file while somebody else had it open:
\* release() unlinks before it unlocks (app/pidfile.py).
OneWorkerUnlessRaced == ~raced => \A p, q \in Working : p = q
=============================================================================
