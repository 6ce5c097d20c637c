------------------------------- MODULE Thread -------------------------------
(***************************************************************************)
(* The Thread class of webservice/src/thread.cpp, base of the writers, of  *)
(* the memory pool's collector and of the tests' consumers: an owner calls *)
(* start and join on one object, any number of times, and each successful  *)
(* start creates a POSIX thread that runs _launcher.  A detached thread    *)
(* cannot be joined through pthread_join; join waits for it on _cond.      *)
(*                                                                         *)
(* start is one step: it holds _mutex, and after pthread_create it only    *)
(* unlocks it.  join runs without the mutex except around its wait.        *)
(***************************************************************************)
EXTENDS Integers

CONSTANTS
  MaxStarts,      \* bound: the POSIX threads that are ever created
  CreateMayFail,  \* may pthread_create fail?
  DetachMayFail,  \* may pthread_detach fail?
  Nobody          \* the holder of a free mutex

ASSUME ThreadAssumption ==
  /\ MaxStarts \in Nat
  /\ CreateMayFail \in BOOLEAN
  /\ DetachMayFail \in BOOLEAN
  /\ Nobody \notin 1 .. MaxStarts

Posix == 1 .. MaxStarts

VARIABLES
  status,     \* _status: TS_READY, TS_RUNNING, TS_FINISHED
  isRunning,  \* _isRunning
  detached,   \* _detached
  thread,     \* _thread, 0 before the first start
  mutex,      \* the POSIX thread that holds _mutex at the end of _launcher
  owner,      \* where the owner is in join
  at,         \* where each POSIX thread is in _launcher
  kind        \* whether a POSIX thread is still to be joined or detached

ownerVars  == <<detached, thread, owner>>
threadVars == <<status, isRunning, mutex, ownerVars, at, kind>>

ThreadTypeOK ==
  /\ status \in {"ready", "running", "finished"}
  /\ isRunning \in BOOLEAN
  /\ detached \in BOOLEAN
  /\ thread \in 0 .. MaxStarts
  /\ mutex \in Posix \cup {Nobody}
  /\ owner \in {"idle", "joining", "locking", "waiting", "leaving"}
  /\ at \in [Posix -> {"none", "launched", "main", "finishing", "unlocking", "ended"}]
  /\ kind \in [Posix -> {"none", "joinable", "joined", "detached", "undetachable"}]

ThreadInit ==
  /\ status = "ready"
  /\ isRunning = FALSE
  /\ detached = FALSE
  /\ thread = 0
  /\ mutex = Nobody
  /\ owner = "idle"
  /\ at = [k \in Posix |-> "none"]
  /\ kind = [k \in Posix |-> "none"]

-----------------------------------------------------------------------------
(* The owner: start.                                                       *)

\* The test at the top of start.
NotFinished == status # "finished"  \* (mistake: tests for the wrong status)
MayStart == status = "ready"

\* start(detached) creates a POSIX thread ...
Start(d) ==
  /\ owner = "idle"
  /\ mutex = Nobody
  /\ MayStart
  /\ thread < MaxStarts
  /\ detached' = d
  /\ status' = "running"
  /\ isRunning' = TRUE
  /\ thread' = thread + 1
  /\ at' = [at EXCEPT ![thread'] = "launched"]
  /\ kind' = [kind EXCEPT ![thread'] = "joinable"]
  /\ UNCHANGED <<mutex, owner>>

\* ... or fails to (E_FAIL_CREATE), which takes status and isRunning back;
\* with MayStart false (E_ALREADY_RUNNING) start changes nothing.
StartFails(d) ==
  /\ CreateMayFail
  /\ owner = "idle"
  /\ mutex = Nobody
  /\ MayStart
  /\ detached' = d
  /\ status' = "ready"
  /\ isRunning' = FALSE
  /\ UNCHANGED <<thread, mutex, owner, at, kind>>

-----------------------------------------------------------------------------
(* The owner: join.  On a thread that is not started it returns            *)
(* E_NOT_RUNNING and changes nothing.                                      *)

\* join looks at _status and asks the thread to stop, without the mutex.
JoinBegin ==
  /\ owner = "idle"
  /\ status # "ready"
  /\ isRunning' = FALSE
  /\ owner' = IF detached THEN "locking" ELSE "joining"
  /\ UNCHANGED <<status, detached, thread, mutex, at, kind>>

\* pthread_join returns.
PthreadJoin ==
  /\ owner = "joining"
  /\ at[thread] = "ended"
  /\ kind[thread] = "joinable"
  /\ kind' = [kind EXCEPT ![thread] = "joined"]
  /\ owner' = "locking"
  /\ UNCHANGED <<status, isRunning, detached, thread, mutex, at>>

\* The loop around pthread_cond_wait: entered with the mutex locked, which
\* both of its ways out give back.
NeverWaits == FALSE  \* (mistake: the status is not looked at)
StillRunning == status = "running"

JoinWait ==
  /\ owner = "locking"
  /\ mutex = Nobody
  /\ owner' = IF StillRunning THEN "waiting" ELSE "leaving"
  /\ UNCHANGED <<status, isRunning, detached, thread, mutex, at, kind>>

\* pthread_cond_wait may return without a broadcast.
SpuriousWakeup ==
  /\ owner = "waiting"
  /\ owner' = "locking"
  /\ UNCHANGED <<status, isRunning, detached, thread, mutex, at, kind>>

\* The status is reset after the mutex was given back.
JoinEnd ==
  /\ owner = "leaving"
  /\ status' = "ready"
  /\ owner' = "idle"
  /\ UNCHANGED <<isRunning, detached, thread, mutex, at, kind>>

-----------------------------------------------------------------------------
(* A POSIX thread: _launcher.                                              *)

\* A thread that is not detached goes straight to _main; the other detaches
\* itself first and, if that fails, does not run _main at all.
Launch(k) ==
  /\ at[k] = "launched"
  /\ \/ /\ ~ detached
        /\ at' = [at EXCEPT ![k] = "main"]
        /\ UNCHANGED kind
     \/ /\ detached
        /\ at' = [at EXCEPT ![k] = "main"]
        /\ kind' = [kind EXCEPT ![k] = "detached"]
     \/ /\ detached
        /\ DetachMayFail
        /\ at' = [at EXCEPT ![k] = "finishing"]
        /\ kind' = [kind EXCEPT ![k] = "undetachable"]
  /\ UNCHANGED <<status, isRunning, mutex, ownerVars>>

\* _main sees isRunning() false ...
MainStops(k) ==
  /\ at[k] = "main"
  /\ ~ isRunning
  /\ at' = [at EXCEPT ![k] = "finishing"]
  /\ UNCHANGED <<status, isRunning, mutex, ownerVars, kind>>

\* ... or returns by itself, as the writers do without a storage.
MainReturns(k) ==
  /\ at[k] = "main"
  /\ isRunning
  /\ at' = [at EXCEPT ![k] = "finishing"]
  /\ UNCHANGED <<status, isRunning, mutex, ownerVars, kind>>

\* pthread_cond_broadcast wakes the owner if it waits.
Unheard == UNCHANGED owner  \* (mistake: no broadcast)
Broadcast == owner' = IF owner = "waiting" THEN "locking" ELSE owner

\* The end of _launcher locks, reports and wakes the owner ...
Finish(k) ==
  /\ at[k] = "finishing"
  /\ mutex = Nobody
  /\ mutex' = k
  /\ status' = "finished"
  /\ isRunning' = FALSE
  /\ Broadcast
  /\ at' = [at EXCEPT ![k] = "unlocking"]
  /\ UNCHANGED <<detached, thread, kind>>

\* ... and unlocks; from here on it does not touch the object.
Unlock(k) ==
  /\ at[k] = "unlocking"
  /\ mutex' = Nobody
  /\ at' = [at EXCEPT ![k] = "ended"]
  /\ UNCHANGED <<status, isRunning, ownerVars, kind>>

JoinStep == PthreadJoin \/ JoinWait \/ JoinEnd
PosixStep(k) == Launch(k) \/ MainStops(k) \/ Finish(k) \/ Unlock(k)

\* All starts are used up and the last thread has been joined.
Over == thread = MaxStarts /\ status = "ready" /\ owner = "idle" /\ UNCHANGED threadVars

ThreadNext ==
  \/ \E d \in BOOLEAN : Start(d) \/ StartFails(d)
  \/ JoinBegin
  \/ JoinStep
  \/ SpuriousWakeup
  \/ \E k \in Posix : PosixStep(k) \/ MainReturns(k)
  \/ Over

ThreadSpec == ThreadInit /\ [][ThreadNext]_threadVars

\* The threads of the program are scheduled, and a _main looks at
\* isRunning() again and again (the loops of the writers and the collector).
ThreadFairSpec ==
  /\ ThreadSpec
  /\ WF_threadVars(JoinStep)
  /\ \A k \in Posix : WF_threadVars(PosixStep(k))
-----------------------------------------------------------------------------
(* Properties.                                                             *)

\* The POSIX threads that still use the object.
Alive == {k \in Posix : at[k] \notin {"none", "ended"}}

\* When join has returned the object can be destroyed or started again: no
\* POSIX thread will touch it any more, and each one has been joined or
\* detached unless pthread_detach failed (~MemoryPool deletes its GCThread,
\* and StoragePool::destroy its writers, right after join).
ReadyIsQuiet ==
  status = "ready" =>
    /\ Alive = {}
    /\ \A k \in Posix : kind[k] # "joinable"

\* One object never runs its _main in two threads.
OneThreadAlive == \A j, k \in Alive : j = k

\* join returns, whether the thread was just created, inside _main, or
\* already finished.
JoinReturns == owner # "idle" ~> owner = "idle"
=============================================================================
