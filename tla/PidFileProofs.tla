--------------------------- MODULE PidFileProofs ---------------------------
(***************************************************************************)
(* Proofs about PidFile, for any number of workers, status commands and    *)
(* files: as long as no file is removed under somebody's open handle, all  *)
(* the handles lead to the one file of that name, and its lock has one     *)
(* holder.                                                                 *)
(***************************************************************************)
EXTENDS PidFile, TLAPS

ProcessStage  == {"out", "open", "locked", "running", "stopping"}
ObserverStage == {"out", "open", "idle", "busy"}

PidTypes ==
  /\ pidPath \in Inode \union {NoInode}
  /\ locker \in [Inode -> PidActor \union {NoProcess}]
  /\ pidText \in [Inode -> Process \union {NoProcess}]
  /\ handle \in [PidActor -> Inode \union {NoInode}]
  /\ stage \in [PidActor -> ProcessStage \union ObserverStage]
  /\ raced \in BOOLEAN

\* Workers do not probe, and status commands do not work.
StagesFit ==
  /\ \A p \in Process : stage[p] \in ProcessStage
  /\ \A o \in Observer : stage[o] \in ObserverStage

OpenWhileIn == \A p \in PidActor : stage[p] = "out" <=> handle[p] = NoInode

Holding == {"locked", "running", "stopping", "idle"}

\* A lock is that of an open file, whose opener knows of it.
LocksAreOpen ==
  \A i \in Inode :
    locker[i] # NoProcess => handle[locker[i]] = i /\ stage[locker[i]] \in Holding

\* Whoever got a lock has it until the end.
HoldersHold ==
  \A p \in PidActor :
    stage[p] \in Holding => locker[handle[p]] = p

\* Without the race, every open file is the one of that name, but for the one that
\* a stopping worker has just removed.
OneFile ==
  ~raced => \A p \in PidActor :
              stage[p] \notin {"out", "stopping"} => handle[p] = pidPath

PidInv ==
  PidTypes /\ StagesFit /\ OpenWhileIn /\ LocksAreOpen /\ HoldersHold /\ OneFile

\* A file is nobody's at first.
LEMMA PidInvInit == PidInit => PidInv
BY PidFileAssumption
DEF PidInit, PidInv, PidTypes, StagesFit, OpenWhileIn, LocksAreOpen, HoldersHold,
    OneFile, PidActor, ProcessStage, ObserverStage, Holding

\* What the invariant says is kept by each call of acquire, release and get_status.
LEMMA PidInvStep == PidInv /\ [PidNext]_pidVars => PidInv'
<1> USE PidFileAssumption
<1> SUFFICES ASSUME PidInv, [PidNext]_pidVars PROVE PidInv'
  OBVIOUS
<1> USE DEF PidInv, Holding
<1>1. ASSUME NEW p \in Process, OpenPidFile(p) PROVE PidInv'
  <2>1. PidTypes' /\ StagesFit'
    BY <1>1 DEF OpenPidFile, PidTypes, StagesFit, PidActor, ProcessStage, ObserverStage
  <2>2. OpenWhileIn'
    BY <1>1 DEF OpenPidFile, PidTypes, OpenWhileIn, PidActor
  <2>3. LocksAreOpen' /\ HoldersHold'
    BY <1>1 DEF OpenPidFile, PidTypes, OpenWhileIn, LocksAreOpen, HoldersHold, PidActor
  <2>4. OneFile'
    BY <1>1 DEF OpenPidFile, PidTypes, OpenWhileIn, OneFile, PidActor
  <2> QED BY <2>1, <2>2, <2>3, <2>4
<1>2. ASSUME NEW p \in Process, LockPidFile(p) PROVE PidInv'
  <2>1. PidTypes' /\ StagesFit'
    BY <1>2 DEF LockPidFile, PidTypes, StagesFit, PidActor, ProcessStage, ObserverStage
  <2>2. OpenWhileIn' /\ LocksAreOpen' /\ OneFile'
    BY <1>2 DEF LockPidFile, PidTypes, OpenWhileIn, LocksAreOpen, OneFile, PidActor
  <2>3. HoldersHold'
    BY <1>2 DEF LockPidFile, Lockable, PidTypes, OpenWhileIn, HoldersHold, PidActor
  <2> QED BY <2>1, <2>2, <2>3
<1>3. ASSUME NEW p \in Process, RefuseStart(p) PROVE PidInv'
  <2>1. p \in PidActor /\ locker[handle[p]] # p
    BY <1>3 DEF RefuseStart, Lockable, PidTypes, StagesFit, OpenWhileIn, LocksAreOpen,
                PidActor
  <2>2. PidTypes' /\ StagesFit' /\ OpenWhileIn' /\ OneFile'
    BY <1>3 DEF RefuseStart, Closed, PidTypes, StagesFit, OpenWhileIn, OneFile,
                PidActor, ProcessStage, ObserverStage
  <2>3. LocksAreOpen' /\ HoldersHold'
    BY <1>3, <2>1 DEF RefuseStart, Closed, PidTypes, OpenWhileIn, LocksAreOpen,
                      HoldersHold, PidActor
  <2> QED BY <2>2, <2>3
<1>4. ASSUME NEW p \in Process, WritePid(p) PROVE PidInv'
  BY <1>4 DEF WritePid, PidTypes, StagesFit, OpenWhileIn, LocksAreOpen, HoldersHold,
              OneFile, PidActor, ProcessStage, ObserverStage
<1>5. ASSUME NEW p \in Process, UnlinkPidFile(p) PROVE PidInv'
  <2>1. PidTypes' /\ StagesFit' /\ OpenWhileIn'
    BY <1>5 DEF UnlinkPidFile, PidTypes, StagesFit, OpenWhileIn, PidActor,
                ProcessStage, ObserverStage
  <2>2. LocksAreOpen' /\ HoldersHold'
    BY <1>5 DEF UnlinkPidFile, PidTypes, OpenWhileIn, LocksAreOpen, HoldersHold, PidActor
  <2>3. OneFile'
    BY <1>5 DEF UnlinkPidFile, PidTypes, OpenWhileIn, OneFile, PidActor
  <2> QED BY <2>1, <2>2, <2>3
<1>6. ASSUME NEW p \in Process, UnlockPidFile(p) PROVE PidInv'
  <2>1. PidTypes' /\ StagesFit' /\ OpenWhileIn' /\ OneFile'
    BY <1>6 DEF UnlockPidFile, Closed, PidTypes, StagesFit, OpenWhileIn, OneFile,
                PidActor, ProcessStage, ObserverStage
  <2>2. LocksAreOpen' /\ HoldersHold'
    BY <1>6 DEF UnlockPidFile, Closed, PidTypes, OpenWhileIn, LocksAreOpen,
                HoldersHold, PidActor
  <2> QED BY <2>1, <2>2
<1>7. ASSUME NEW p \in Process, EndWithoutRelease(p) PROVE PidInv'
  <2>1. PidTypes' /\ StagesFit' /\ OpenWhileIn' /\ OneFile'
    BY <1>7 DEF EndWithoutRelease, Closed, PidTypes, StagesFit, OpenWhileIn, OneFile,
                PidActor, ProcessStage, ObserverStage
  <2>2. LocksAreOpen' /\ HoldersHold'
    BY <1>7 DEF EndWithoutRelease, Closed, PidTypes, OpenWhileIn, LocksAreOpen,
                HoldersHold, PidActor
  <2> QED BY <2>1, <2>2
<1>8. ASSUME NEW o \in Observer, StatusOpens(o) PROVE PidInv'
  BY <1>8 DEF StatusOpens, PidTypes, StagesFit, OpenWhileIn, LocksAreOpen, HoldersHold,
              OneFile, PidActor, ProcessStage, ObserverStage
<1>9. ASSUME NEW o \in Observer, StatusLocks(o) PROVE PidInv'
  <2>1. PidTypes' /\ StagesFit'
    BY <1>9 DEF StatusLocks, PidTypes, StagesFit, PidActor, ProcessStage, ObserverStage
  <2>2. OpenWhileIn' /\ LocksAreOpen' /\ HoldersHold' /\ OneFile'
    BY <1>9 DEF StatusLocks, PidTypes, OpenWhileIn, LocksAreOpen, HoldersHold,
                OneFile, PidActor
  <2> QED BY <2>1, <2>2
<1>10. ASSUME NEW o \in Observer, StatusFindsLock(o) PROVE PidInv'
  BY <1>10 DEF StatusFindsLock, PidTypes, StagesFit, OpenWhileIn, LocksAreOpen,
               HoldersHold, OneFile, PidActor, ProcessStage, ObserverStage
<1>11. ASSUME NEW o \in Observer, StatusEnds(o) PROVE PidInv'
  <2>1. PidTypes' /\ StagesFit' /\ OpenWhileIn' /\ OneFile'
    BY <1>11 DEF StatusEnds, Closed, PidTypes, StagesFit, OpenWhileIn, OneFile,
                 PidActor, ProcessStage, ObserverStage
  <2>2. LocksAreOpen' /\ HoldersHold'
    BY <1>11 DEF StatusEnds, Closed, PidTypes, OpenWhileIn, LocksAreOpen,
                 HoldersHold, PidActor
  <2> QED BY <2>1, <2>2
<1>12. ASSUME UNCHANGED pidVars PROVE PidInv'
  BY <1>12 DEF pidVars, PidTypes, StagesFit, OpenWhileIn, LocksAreOpen, HoldersHold,
               OneFile
<1> QED
  BY <1>1, <1>2, <1>3, <1>4, <1>5, <1>6, <1>7, <1>8, <1>9, <1>10, <1>11, <1>12
  DEF PidNext

\* Without a race on the file, two workers that hold the lock hold the same one.
LEMMA PidInvImplies == PidInv => PidTypeOK /\ OneWorkerUnlessRaced
<1> SUFFICES ASSUME PidInv PROVE PidTypeOK /\ OneWorkerUnlessRaced
  OBVIOUS
<1>1. PidTypeOK
  BY DEF PidInv, PidTypes, OpenWhileIn, LocksAreOpen, PidTypeOK, ProcessStage,
         ObserverStage
<1>2. ASSUME ~raced, NEW p \in Working, NEW q \in Working PROVE p = q
  <2>1. p \in PidActor /\ q \in PidActor
    BY DEF Working, PidActor
  <2>2. handle[p] = pidPath /\ handle[q] = pidPath
    BY <1>2, <2>1 DEF PidInv, OneFile, Working
  <2>3. locker[handle[p]] = p /\ locker[handle[q]] = q
    BY <2>1 DEF PidInv, HoldersHold, Holding, Working
  <2> QED BY <2>2, <2>3
<1> QED BY <1>1, <1>2 DEF OneWorkerUnlessRaced

\* The types of app/pidfile.py's state, for any number of actors and files.
THEOREM PidTypesHold == PidSpec => []PidTypeOK
<1>1. PidInv => PidTypeOK
  BY PidInvImplies
<1> QED BY PidInvInit, PidInvStep, <1>1, PTL DEF PidSpec

\* Two workers never work at once unless a worker removed the pid file while
\* somebody else had it open (app/pidfile.py::acquire, release, get_status).
THEOREM OneWorker == PidSpec => []OneWorkerUnlessRaced
<1>1. PidInv => OneWorkerUnlessRaced
  BY PidInvImplies
<1> QED BY PidInvInit, PidInvStep, <1>1, PTL DEF PidSpec
=============================================================================
