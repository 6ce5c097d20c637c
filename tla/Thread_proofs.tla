---------------------------- MODULE Thread_proofs ---------------------------
(***************************************************************************)
(* What join promises, for any number of starts and whatever pthread_create *)
(* and pthread_detach do: ReadyIsQuiet and OneThreadAlive.                  *)
(***************************************************************************)
EXTENDS Thread, TLAPS

\* Only the last POSIX thread created can be alive.
AliveInv == \A k \in Posix : at[k] \notin {"none", "ended"} => k = thread

\* The status follows the last thread through _launcher.
StatusInv ==
  /\ status = "ready" => owner = "idle" /\ \A k \in Posix : at[k] \in {"none", "ended"}
  /\ status = "running" =>
       thread \in Posix /\ at[thread] \in {"launched", "main", "finishing"}
  /\ status = "finished" => thread \in Posix /\ at[thread] \in {"unlocking", "ended"}

\* The mutex is held by the thread between its report and its unlock.
MutexInv ==
  /\ \A k \in Posix : at[k] = "unlocking" => mutex = k
  /\ mutex # Nobody => at[mutex] = "unlocking"

\* How far the owner is in join tells how far the thread is.
OwnerInv ==
  /\ owner = "joining" => ~ detached
  /\ owner \in {"locking", "waiting", "leaving"} /\ ~ detached => kind[thread] = "joined"
  /\ owner = "leaving" => status = "finished" /\ at[thread] = "ended"

\* The last thread alone can still be joined, and a detached one only until
\* it has detached itself.
KindInv ==
  \A k \in Posix : kind[k] = "joinable" =>
    /\ k = thread
    /\ status # "ready"
    /\ detached => at[k] = "launched"

ThreadInv == ThreadTypeOK /\ AliveInv /\ StatusInv /\ MutexInv /\ OwnerInv /\ KindInv

\* The constructor establishes the invariant.
LEMMA ThreadInitInv == ThreadInit => ThreadInv
<1> SUFFICES ASSUME ThreadInit PROVE ThreadInv
  OBVIOUS
<1>1. ThreadTypeOK
  <2>1. thread \in 0 .. MaxStarts
    BY ThreadAssumption DEF ThreadInit
  <2>2. /\ at \in [Posix -> {"none", "launched", "main", "finishing", "unlocking", "ended"}]
        /\ kind \in [Posix -> {"none", "joinable", "joined", "detached", "undetachable"}]
    BY DEF ThreadInit
  <2>3. QED  BY <2>1, <2>2 DEF ThreadInit, ThreadTypeOK
<1>2. AliveInv /\ StatusInv /\ MutexInv /\ OwnerInv /\ KindInv
  BY DEF ThreadInit, AliveInv, StatusInv, MutexInv, OwnerInv, KindInv
<1>3. QED  BY <1>1, <1>2 DEF ThreadInv

\* start keeps the invariant: the thread it replaces has ended.
LEMMA StartInv ==
  ASSUME ThreadInv, NEW d \in BOOLEAN, Start(d) \/ StartFails(d)
  PROVE  ThreadInv'
<1> USE ThreadAssumption
    DEF ThreadInv, ThreadTypeOK, AliveInv, StatusInv, MutexInv, OwnerInv, KindInv, Posix,
        MayStart
<1>1. CASE Start(d)
  BY <1>1 DEF Start
<1>2. CASE StartFails(d)
  BY <1>2 DEF StartFails
<1>3. QED  BY <1>1, <1>2

\* The steps of join keep the invariant.
LEMMA JoinInv ==
  ASSUME ThreadInv, JoinBegin \/ JoinStep \/ SpuriousWakeup
  PROVE  ThreadInv'
<1> USE ThreadAssumption
    DEF ThreadInv, ThreadTypeOK, AliveInv, StatusInv, MutexInv, OwnerInv, KindInv, Posix
<1>1. CASE JoinBegin
  BY <1>1 DEF JoinBegin
<1>2. CASE PthreadJoin
  BY <1>2 DEF PthreadJoin
<1>3. CASE JoinWait
  BY <1>3 DEF JoinWait, StillRunning
<1>4. CASE JoinEnd
  BY <1>4 DEF JoinEnd
<1>5. CASE SpuriousWakeup
  BY <1>5 DEF SpuriousWakeup
<1>6. QED  BY <1>1, <1>2, <1>3, <1>4, <1>5 DEF JoinStep

\* The steps of _launcher keep the invariant.
LEMMA PosixInv ==
  ASSUME ThreadInv, NEW k \in Posix, PosixStep(k) \/ MainReturns(k)
  PROVE  ThreadInv'
<1> USE ThreadAssumption
    DEF ThreadInv, ThreadTypeOK, AliveInv, StatusInv, MutexInv, OwnerInv, KindInv, Posix,
        ownerVars
<1>1. CASE Launch(k)
  BY <1>1 DEF Launch
<1>2. CASE MainStops(k) \/ MainReturns(k)
  BY <1>2 DEF MainStops, MainReturns
<1>3. CASE Finish(k)
  BY <1>3 DEF Finish, Broadcast
<1>4. CASE Unlock(k)
  BY <1>4 DEF Unlock
<1>5. QED  BY <1>1, <1>2, <1>3, <1>4 DEF PosixStep

\* The invariant holds in every reachable state.
THEOREM ThreadInvariant == ThreadSpec => []ThreadInv
<1>1. ThreadInv /\ [ThreadNext]_threadVars => ThreadInv'
  <2> SUFFICES ASSUME ThreadInv, [ThreadNext]_threadVars PROVE ThreadInv'
    OBVIOUS
  <2>1. CASE \E d \in BOOLEAN : Start(d) \/ StartFails(d)
    BY <2>1, StartInv
  <2>2. CASE JoinBegin \/ JoinStep \/ SpuriousWakeup
    BY <2>2, JoinInv
  <2>3. CASE \E k \in Posix : PosixStep(k) \/ MainReturns(k)
    BY <2>3, PosixInv
  <2>4. CASE Over \/ UNCHANGED threadVars
    BY <2>4 DEF Over, threadVars, ownerVars, ThreadInv, ThreadTypeOK, AliveInv, StatusInv,
                MutexInv, OwnerInv, KindInv
  <2>5. QED  BY <2>1, <2>2, <2>3, <2>4 DEF ThreadNext
<1>2. QED  BY <1>1, ThreadInitInv, PTL DEF ThreadSpec

\* Once join has returned, no POSIX thread uses the object and none is left
\* to be joined (Thread::join on attached and on detached threads).
THEOREM ReadyQuiet == ThreadSpec => []ReadyIsQuiet
<1>1. ThreadInv => ReadyIsQuiet
  BY DEF ThreadInv, StatusInv, KindInv, ReadyIsQuiet, Alive
<1>2. QED  BY <1>1, ThreadInvariant, PTL

\* One object never has two threads inside _launcher (the test of _status in
\* Thread::start).
THEOREM OneAlive == ThreadSpec => []OneThreadAlive
<1>1. ThreadInv => OneThreadAlive
  BY DEF ThreadInv, AliveInv, OneThreadAlive, Alive
<1>2. QED  BY <1>1, ThreadInvariant, PTL
=============================================================================
