-------------------------- MODULE InstanceLockProofs --------------------------
(***************************************************************************)
(* Proofs about the instance lock, for any number of processes and pids.   *)
(***************************************************************************)
EXTENDS InstanceLock, TLAPS

USE LockAssumption

------------------------------------------------------------------------------
(* The inductive invariant *)

\* Processes that are alive have pids, no two of them the same.
PidsApart ==
    /\ \A p \in Procs : Running(p) => pid[p] \in Pids
    /\ \A p, q \in Procs : Running(p) /\ Running(q) /\ pid[p] = pid[q] => p = q

\* Of the processes that want one lock, at most one is between reading the file
\* and writing it.
OneAcquires ==
    \A p \in Procs : Acquiring(p) /\ LockOf[p] \notin raced
        => \A q \in Rivals(p) : ~Acquiring(q)

\* The file names its owner, and a rival has read that name or not read yet.
OwnerRespected ==
    \A p \in Procs : Owner(p) /\ LockOf[p] \notin raced =>
        /\ file[LockOf[p]] = pid[p]
        /\ \A q \in Rivals(p) : /\ at[q] \in {"down", "launched", "probing"}
                                /\ at[q] = "probing" => seen[q] = pid[p]

LockInv == LockTypeOK /\ PidsApart /\ OneAcquires /\ OwnerRespected

\* Being a rival is mutual, and rivals share their lock.
LEMMA RivalsMutual ==
    \A p \in Procs : \A q \in Rivals(p) :
        q \in Procs /\ q # p /\ LockOf[q] = LockOf[p] /\ p \in Rivals(q)
  BY DEF Rivals

\* Initially every process is down.
LEMMA InitLock == LockInit => LockInv
  BY DEF LockInit, LockInv, LockTypeOK, Places, PidsApart, OneAcquires, OwnerRespected,
         Running, Acquiring, Owner

------------------------------------------------------------------------------
(* One lemma per action *)

\* A new process takes a pid that nobody has.
LEMMA LaunchKeeps ==
    ASSUME LockInv, NEW p \in Procs, NEW i \in Pids, Launch(p, i)
    PROVE  LockInv'
  <1>1. /\ at' = [at EXCEPT ![p] = "launched"] /\ pid' = [pid EXCEPT ![p] = i]
        /\ UNCHANGED <<file, seen, raced>> /\ at[p] = "down"
        /\ \A q \in Procs : Running(q) => pid[q] # i
    BY DEF Launch, Free, Alive, Running
  <1>2. LockTypeOK'
    BY <1>1 DEF LockInv, LockTypeOK, Places
  <1>3. PidsApart'
    BY <1>1 DEF LockInv, LockTypeOK, PidsApart, Running
  <1>4. OneAcquires'
    BY <1>1, RivalsMutual DEF LockInv, LockTypeOK, OneAcquires, Acquiring
  <1>5. OwnerRespected'
    BY <1>1, RivalsMutual DEF LockInv, LockTypeOK, OwnerRespected, Owner
  <1> QED
    BY <1>2, <1>3, <1>4, <1>5 DEF LockInv

\* A process that ends and leaves the files alone disturbs nobody.
LEMMA GoneKeeps ==
    ASSUME LockInv, NEW p \in Procs, Gone(p), UNCHANGED <<file, raced>>
    PROVE  LockInv'
  <1>1. /\ at' = [at EXCEPT ![p] = "down"] /\ pid' = [pid EXCEPT ![p] = NoPid]
        /\ seen' = [seen EXCEPT ![p] = NoPid] /\ UNCHANGED <<file, raced>>
    BY DEF Gone
  <1>2. LockTypeOK'
    BY <1>1 DEF LockInv, LockTypeOK, Places
  <1>3. PidsApart'
    BY <1>1 DEF LockInv, LockTypeOK, PidsApart, Running
  <1>4. OneAcquires'
    BY <1>1, RivalsMutual DEF LockInv, LockTypeOK, OneAcquires, Acquiring
  <1>5. OwnerRespected'
    BY <1>1, RivalsMutual DEF LockInv, LockTypeOK, OwnerRespected, Owner
  <1> QED
    BY <1>2, <1>3, <1>4, <1>5 DEF LockInv

\* Reading next to another acquire is a race; next to an owner it finds its pid.
LEMMA ReadFileKeeps ==
    ASSUME LockInv, NEW p \in Procs, ReadFile(p)
    PROVE  LockInv'
  <1>1. /\ at' = [at EXCEPT ![p] = "probing"] /\ seen' = [seen EXCEPT ![p] = file[LockOf[p]]]
        /\ UNCHANGED <<file, pid>> /\ at[p] = "launched"
        /\ raced \subseteq raced'
        /\ LockOf[p] \notin raced' => \A q \in Rivals(p) : ~Acquiring(q)
    BY DEF ReadFile
  <1>2. LockTypeOK'
    <2>1. raced' \subseteq Locks
      BY DEF ReadFile, LockInv, LockTypeOK
    <2> QED
      BY <1>1, <2>1 DEF LockInv, LockTypeOK, Places
  <1>3. PidsApart'
    BY <1>1 DEF LockInv, LockTypeOK, PidsApart, Running
  <1>4. OneAcquires'
    <2> SUFFICES ASSUME NEW x \in Procs, Acquiring(x)', LockOf[x] \notin raced',
                        NEW y \in Rivals(x)
                 PROVE  ~Acquiring(y)'
      BY DEF OneAcquires, Rivals
    <2>1. y \in Procs /\ y # x /\ LockOf[y] = LockOf[x] /\ x \in Rivals(y)
      BY RivalsMutual
    <2>2. CASE x = p
      BY <1>1, <2>1, <2>2 DEF LockInv, LockTypeOK, Acquiring
    <2>3. CASE y = p
      BY <1>1, <2>1, <2>3 DEF LockInv, LockTypeOK, Acquiring
    <2>4. CASE x # p /\ y # p
      BY <1>1, <2>1, <2>4 DEF LockInv, LockTypeOK, OneAcquires, Acquiring
    <2> QED
      BY <2>2, <2>3, <2>4
  <1>5. OwnerRespected'
    BY <1>1, RivalsMutual DEF LockInv, LockTypeOK, OwnerRespected, Owner
  <1> QED
    BY <1>2, <1>3, <1>4, <1>5 DEF LockInv

\* The probe lets nobody pass while a rival owns the lock: the rival is alive.
LEMMA PassKeeps ==
    ASSUME LockInv, NEW p \in Procs, Pass(p)
    PROVE  LockInv'
  <1>1. /\ at' = [at EXCEPT ![p] = "writing"] /\ seen' = [seen EXCEPT ![p] = NoPid]
        /\ UNCHANGED <<file, pid, raced>> /\ at[p] = "probing" /\ ~Foreign(p)
    BY DEF Pass
  <1>2. LockTypeOK'
    BY <1>1 DEF LockInv, LockTypeOK, Places
  <1>3. PidsApart'
    BY <1>1 DEF LockInv, LockTypeOK, PidsApart, Running
  <1>4. OneAcquires'
    BY <1>1, RivalsMutual DEF LockInv, LockTypeOK, OneAcquires, Acquiring
  <1>5. ASSUME NEW q \in Rivals(p), Owner(q), LockOf[q] \notin raced PROVE FALSE
    <2>1. q \in Procs /\ q # p /\ p \in Rivals(q)
      BY RivalsMutual
    <2>2. seen[p] = pid[q]
      BY <1>1, <1>5, <2>1 DEF LockInv, OwnerRespected
    <2>3. Running(q) /\ Running(p)
      BY <1>1, <1>5 DEF Owner, Running
    <2>4. pid[q] \in Pids /\ pid[q] # pid[p]
      BY <2>1, <2>3 DEF LockInv, PidsApart
    <2>5. Foreign(p)
      BY <2>1, <2>2, <2>3, <2>4 DEF Foreign, Alive
    <2> QED
      BY <1>1, <2>5
  <1>6. OwnerRespected'
    <2> SUFFICES ASSUME NEW x \in Procs, Owner(x)', LockOf[x] \notin raced
                 PROVE  /\ file[LockOf[x]] = pid[x]
                        /\ \A y \in Rivals(x) : /\ at'[y] \in {"down", "launched", "probing"}
                                                /\ at'[y] = "probing" => seen'[y] = pid[x]
      BY <1>1 DEF OwnerRespected, Rivals
    <2>1. x # p /\ Owner(x)
      BY <1>1 DEF Owner, LockInv, LockTypeOK
    <2>2. p \notin Rivals(x)
      BY <1>5, <2>1, RivalsMutual
    <2>3. \A y \in Rivals(x) : at'[y] = at[y] /\ seen'[y] = seen[y]
      BY <1>1, <2>2, RivalsMutual DEF LockInv, LockTypeOK
    <2> QED
      BY <2>1, <2>3 DEF LockInv, OwnerRespected
  <1> QED
    BY <1>2, <1>3, <1>4, <1>6 DEF LockInv

\* Whoever writes a file does so while nobody owns that lock.
LEMMA NoOwnerMeanwhile ==
    ASSUME LockInv, NEW p \in Procs, at[p] \in {"writing", "truncated"},
           NEW q \in Procs, q # p, Owner(q), LockOf[q] \notin raced
    PROVE  LockOf[q] # LockOf[p]
  BY DEF LockInv, OwnerRespected, Rivals

\* Emptying the file.
LEMMA TruncateKeeps ==
    ASSUME LockInv, NEW p \in Procs, Truncate(p)
    PROVE  LockInv'
  <1>1. /\ at' = [at EXCEPT ![p] = "truncated"] /\ file' = [file EXCEPT ![LockOf[p]] = NoPid]
        /\ UNCHANGED <<pid, seen, raced>> /\ at[p] = "writing"
    BY DEF Truncate
  <1>2. LockTypeOK'
    BY <1>1 DEF LockInv, LockTypeOK, Places
  <1>3. PidsApart'
    BY <1>1 DEF LockInv, LockTypeOK, PidsApart, Running
  <1>4. OneAcquires'
    BY <1>1, RivalsMutual DEF LockInv, LockTypeOK, OneAcquires, Acquiring
  <1>5. OwnerRespected'
    <2> SUFFICES ASSUME NEW x \in Procs, Owner(x)', LockOf[x] \notin raced
                 PROVE  /\ file'[LockOf[x]] = pid[x]
                        /\ \A y \in Rivals(x) : /\ at'[y] \in {"down", "launched", "probing"}
                                                /\ at'[y] = "probing" => seen[y] = pid[x]
      BY <1>1 DEF OwnerRespected, Rivals
    <2>1. x # p /\ Owner(x)
      BY <1>1 DEF Owner, LockInv, LockTypeOK
    <2>2. LockOf[x] # LockOf[p]
      BY <1>1, <2>1, NoOwnerMeanwhile
    <2>3. file'[LockOf[x]] = file[LockOf[x]]
      BY <1>1, <2>2 DEF LockInv, LockTypeOK
    <2>4. \A y \in Rivals(x) : at'[y] = at[y]
      BY <1>1, <2>2, RivalsMutual DEF LockInv, LockTypeOK
    <2> QED
      BY <2>1, <2>3, <2>4 DEF LockInv, OwnerRespected
  <1> QED
    BY <1>2, <1>3, <1>4, <1>5 DEF LockInv

\* Writing the pid makes an owner, whose rivals have yet to read.
LEMMA WritePidKeeps ==
    ASSUME LockInv, NEW p \in Procs, WritePid(p)
    PROVE  LockInv'
  <1>1. /\ at' = [at EXCEPT ![p] = "holding"] /\ file' = [file EXCEPT ![LockOf[p]] = pid[p]]
        /\ UNCHANGED <<pid, seen, raced>> /\ at[p] = "truncated"
    BY DEF WritePid
  <1>2. LockTypeOK'
    BY <1>1 DEF LockInv, LockTypeOK, Places
  <1>3. PidsApart'
    BY <1>1 DEF LockInv, LockTypeOK, PidsApart, Running
  <1>4. OneAcquires'
    BY <1>1, RivalsMutual DEF LockInv, LockTypeOK, OneAcquires, Acquiring
  <1>5. OwnerRespected'
    <2> SUFFICES ASSUME NEW x \in Procs, Owner(x)', LockOf[x] \notin raced
                 PROVE  /\ file'[LockOf[x]] = pid[x]
                        /\ \A y \in Rivals(x) : /\ at'[y] \in {"down", "launched", "probing"}
                                                /\ at'[y] = "probing" => seen[y] = pid[x]
      BY <1>1 DEF OwnerRespected, Rivals
    <2>1. CASE x = p
      <3>1. file'[LockOf[x]] = pid[x]
        BY <1>1, <2>1 DEF LockInv, LockTypeOK
      <3>2. ASSUME NEW y \in Rivals(x) PROVE at'[y] \in {"down", "launched"}
        <4>1. y \in Procs /\ y # p /\ at'[y] = at[y] /\ LockOf[y] = LockOf[p]
          BY <1>1, <2>1, RivalsMutual DEF LockInv, LockTypeOK
        <4>2. ~Acquiring(y)
          BY <1>1, <2>1 DEF LockInv, OneAcquires, Acquiring
        <4>3. ~Owner(y)
          BY <1>1, <2>1, <4>1, NoOwnerMeanwhile
        <4> QED
          BY <4>1, <4>2, <4>3 DEF LockInv, LockTypeOK, Places, Acquiring, Owner
      <3> QED
        BY <3>1, <3>2
    <2>2. CASE x # p
      <3>1. Owner(x)
        BY <1>1, <2>2 DEF Owner, LockInv, LockTypeOK
      <3>2. LockOf[x] # LockOf[p]
        BY <1>1, <2>2, <3>1, NoOwnerMeanwhile
      <3>3. file'[LockOf[x]] = file[LockOf[x]]
        BY <1>1, <3>2 DEF LockInv, LockTypeOK
      <3>4. \A y \in Rivals(x) : at'[y] = at[y]
        BY <1>1, <3>2, RivalsMutual DEF LockInv, LockTypeOK
      <3> QED
        BY <3>1, <3>3, <3>4 DEF LockInv, OwnerRespected
    <2> QED
      BY <2>1, <2>2
  <1> QED
    BY <1>2, <1>3, <1>4, <1>5 DEF LockInv

\* release() has found its own pid: it stays the owner.
LEMMA ReadOwnKeeps ==
    ASSUME LockInv, NEW p \in Procs, ReadOwn(p)
    PROVE  LockInv'
  <1>1. /\ at' = [at EXCEPT ![p] = "unlinking"] /\ UNCHANGED <<file, pid, seen, raced>>
        /\ at[p] = "holding"
    BY DEF ReadOwn
  <1>2. LockTypeOK'
    BY <1>1 DEF LockInv, LockTypeOK, Places
  <1>3. PidsApart'
    BY <1>1 DEF LockInv, LockTypeOK, PidsApart, Running
  <1>4. OneAcquires'
    BY <1>1, RivalsMutual DEF LockInv, LockTypeOK, OneAcquires, Acquiring
  <1>5. OwnerRespected'
    BY <1>1, RivalsMutual DEF LockInv, LockTypeOK, OwnerRespected, Owner
  <1> QED
    BY <1>2, <1>3, <1>4, <1>5 DEF LockInv

\* Removing the file: no rival owned the lock, so no owner loses its name.
LEMMA UnlinkKeeps ==
    ASSUME LockInv, NEW p \in Procs, Unlink(p)
    PROVE  LockInv'
  <1>1. /\ at' = [at EXCEPT ![p] = "down"] /\ pid' = [pid EXCEPT ![p] = NoPid]
        /\ seen' = [seen EXCEPT ![p] = NoPid]
        /\ file' = [file EXCEPT ![LockOf[p]] = NoPid] /\ UNCHANGED raced
        /\ at[p] = "unlinking"
    BY DEF Unlink, Gone
  <1>2. LockTypeOK'
    BY <1>1 DEF LockInv, LockTypeOK, Places
  <1>3. PidsApart'
    BY <1>1 DEF LockInv, LockTypeOK, PidsApart, Running
  <1>4. OneAcquires'
    BY <1>1, RivalsMutual DEF LockInv, LockTypeOK, OneAcquires, Acquiring
  <1>5. OwnerRespected'
    <2> SUFFICES ASSUME NEW x \in Procs, Owner(x)', LockOf[x] \notin raced
                 PROVE  /\ file'[LockOf[x]] = pid'[x]
                        /\ \A y \in Rivals(x) : /\ at'[y] \in {"down", "launched", "probing"}
                                                /\ at'[y] = "probing" => seen'[y] = pid'[x]
      BY <1>1 DEF OwnerRespected, Rivals
    <2>1. x # p /\ Owner(x) /\ pid'[x] = pid[x]
      BY <1>1 DEF Owner, LockInv, LockTypeOK
    <2>2. LockOf[x] # LockOf[p]
      BY <1>1, <2>1 DEF LockInv, OwnerRespected, Rivals
    <2>3. file'[LockOf[x]] = file[LockOf[x]]
      BY <1>1, <2>2 DEF LockInv, LockTypeOK
    <2>4. \A y \in Rivals(x) : at'[y] = at[y] /\ seen'[y] = seen[y]
      BY <1>1, <2>2, RivalsMutual DEF LockInv, LockTypeOK
    <2> QED
      BY <2>1, <2>3, <2>4 DEF LockInv, OwnerRespected
  <1> QED
    BY <1>2, <1>3, <1>4, <1>5 DEF LockInv

------------------------------------------------------------------------------
(* The theorems *)

\* Every step keeps the invariant.
LEMMA NextLock == LockInv /\ [LockNext]_lockVars => LockInv'
  <1> SUFFICES ASSUME LockInv, [LockNext]_lockVars PROVE LockInv'
    OBVIOUS
  <1>1. ASSUME NEW p \in Procs, NEW i \in Pids, Launch(p, i) PROVE LockInv'
    BY <1>1, LaunchKeeps
  <1>2. ASSUME NEW p \in Procs, Acquire(p) PROVE LockInv'
    <2>1. CASE Refuse(p)
      BY <2>1, GoneKeeps DEF Refuse
    <2> QED
      BY <1>2, <2>1, ReadFileKeeps, PassKeeps, TruncateKeeps, WritePidKeeps DEF Acquire
  <1>3. ASSUME NEW p \in Procs, Release(p) PROVE LockInv'
    <2>1. CASE LeaveFile(p)
      BY <2>1, GoneKeeps DEF LeaveFile
    <2> QED
      BY <1>3, <2>1, ReadOwnKeeps, UnlinkKeeps DEF Release
  <1>4. ASSUME NEW p \in Procs, Die(p) PROVE LockInv'
    BY <1>4, GoneKeeps DEF Die
  <1>5. CASE UNCHANGED lockVars
    BY <1>5 DEF lockVars, LockInv, LockTypeOK, PidsApart, OneAcquires, OwnerRespected,
                Running, Acquiring, Owner
  <1> QED
    BY <1>1, <1>2, <1>3, <1>4, <1>5 DEF LockNext

\* The inductive invariant holds in every behaviour of the lock.
THEOREM LockSafe == LockSpec => []LockInv
  BY InitLock, NextLock, PTL DEF LockSpec

\* Any number of processes that crash, restart with reused pids and release in
\* any order: without overlapping acquires at most one of them has the lock.
THEOREM LockExcludes == LockSpec => []SerialMutex
  <1>1. LockInv => SerialMutex
    BY RivalsMutual DEF LockInv, OwnerRespected, SerialMutex, Alone, Owner
  <1> QED
    BY <1>1, LockSafe, PTL

\* Under the same condition the file names the owner for as long as it owns.
THEOREM LockNamesOwner == LockSpec => []OwnerNamed
  <1>1. LockInv => OwnerNamed
    BY DEF LockInv, OwnerRespected, OwnerNamed
  <1> QED
    BY <1>1, LockSafe, PTL
=============================================================================
