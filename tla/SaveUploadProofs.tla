-------------------------- MODULE SaveUploadProofs --------------------------
(***************************************************************************)
(* Proofs about the upload API (SaveUpload), for any saves, contents,      *)
(* requests, backup limit and number of crashes: the per-save lock and its *)
(* registry, the .part files, the backups, and that the handlers implement *)
(* the compare-and-swap register of SaveStore.                             *)
(***************************************************************************)
EXTENDS SaveUpload, FiniteSetTheorems, TLAPS

Queued == Holding \cup {"wait"}

\* A handler past the lock is the owner of the lock it found.
LockHeld == \A r \in Reqs : pc[r] \in Holding => owner[lockOf[r]] = r

\* What the mutual exclusion of writers rests on.
LockInv == TypeOK /\ LockHeld /\ RegistryExact

-----------------------------------------------------------------------------
(* The lock registry                                                         *)

\* A registered request found the lock that is in the registry.
LEMMA RegisteredLock ==
  ASSUME TypeOK, RegistryExact, NEW r \in Reqs, pc[r] \in Queued
  PROVE  /\ lockOf[r] = registry[save[r]] /\ lockOf[r] \in Reqs
         /\ r \in Registered(save[r])
<1>1. save[r] \in Saves /\ r \in Registered(save[r])
  BY DEF TypeOK, Registered, Queued
<1>2. registry[save[r]] # None /\ lockOf[r] = registry[save[r]]
  BY <1>1 DEF RegistryExact
<1>3. QED
  BY <1>1, <1>2 DEF TypeOK

LEMMA RegisteredFinite ==
  ASSUME NEW s PROVE IsFiniteSet(Registered(s))
<1>1. Registered(s) \subseteq Reqs
  BY DEF Registered
<1>2. QED
  BY <1>1, ReqsAssumption, FS_Subset

\* While nobody joins or leaves, the registry stays exact.
LEMMA RegistryKept ==
  ASSUME RegistryExact, UNCHANGED <<registry, refs, lockOf, save>>,
         \A q \in Reqs : (pc'[q] \in Queued) = (pc[q] \in Queued)
  PROVE  RegistryExact'
<1>1. \A s \in Saves : Registered(s)' = Registered(s)
  BY DEF Registered, Queued
<1>2. QED
  BY <1>1 DEF RegistryExact

LEMMA ArriveRegistry ==
  ASSUME TypeOK, RegistryExact, NEW r \in Reqs, Arrive(r)
  PROVE  RegistryExact'
<1> DEFINE s0 == save[r]
<1>1. /\ s0 \in Saves /\ save' = save /\ r \notin Registered(s0)
      /\ LockFor(r) \in Reqs
  BY DEF Arrive, TypeOK, Registered, Holding, LockFor, arguments
<1>2. /\ registry' = [registry EXCEPT ![s0] = LockFor(r)]
      /\ refs' = [refs EXCEPT ![s0] = refs[s0] + 1]
      /\ lockOf' = [lockOf EXCEPT ![r] = LockFor(r)]
  BY DEF Arrive
<1>3. \E next \in Queued : pc' = [pc EXCEPT ![r] = next]
  BY DEF Arrive, Runs, Queued, Holding
<1>4. ASSUME NEW s \in Saves, s # s0 PROVE Registered(s)' = Registered(s)
  BY <1>1, <1>3, <1>4 DEF Registered, TypeOK
<1>5. Registered(s0)' = Registered(s0) \cup {r}
  BY <1>1, <1>3 DEF Registered, TypeOK, Queued
<1>6. Cardinality(Registered(s0)') = Cardinality(Registered(s0)) + 1
  BY <1>1, <1>5, RegisteredFinite, FS_AddElement
<1>7. \A q \in Registered(s0) : lockOf[q] = LockFor(r)
  BY <1>1 DEF RegistryExact, LockFor, Registered
<1>8. ASSUME NEW s \in Saves
      PROVE  /\ refs'[s] = Cardinality(Registered(s)')
             /\ (registry'[s] = None) = (Registered(s)' = {})
             /\ \A q \in Registered(s)' : lockOf'[q] = registry'[s]
  <2>1. CASE s = s0
    <3>1. refs'[s] = Cardinality(Registered(s)')
      BY <1>1, <1>2, <1>6, <2>1 DEF RegistryExact, TypeOK
    <3>2. registry'[s] # None /\ Registered(s)' # {}
      BY <1>1, <1>2, <1>5, <2>1, NoneAssumption DEF TypeOK
    <3>3. \A q \in Registered(s)' : lockOf'[q] = registry'[s]
      <4>1. TAKE q \in Registered(s)'
      <4>2. q \in Reqs
        BY DEF Registered
      <4>3. registry'[s] = LockFor(r)
        BY <1>2, <2>1 DEF TypeOK
      <4>4. CASE q = r
        BY <1>2, <4>3, <4>4 DEF TypeOK
      <4>5. CASE q # r
        BY <1>1, <1>2, <1>5, <1>7, <2>1, <4>2, <4>3, <4>5 DEF TypeOK
      <4>6. QED
        BY <4>4, <4>5
    <3>4. QED
      BY <3>1, <3>2, <3>3
  <2>2. CASE s # s0
    <3>1. refs'[s] = refs[s] /\ registry'[s] = registry[s]
      BY <1>2, <2>2 DEF TypeOK
    <3>2. r \notin Registered(s)
      BY <2>2 DEF Registered
    <3>3. \A q \in Registered(s) : lockOf'[q] = lockOf[q]
      BY <1>2, <3>2 DEF TypeOK, Registered
    <3>4. QED
      BY <1>4, <2>2, <3>1, <3>3 DEF RegistryExact
  <2>3. QED
    BY <2>1, <2>2
<1>9. QED
  BY <1>8 DEF RegistryExact

LEMMA ReleaseRegistry ==
  ASSUME TypeOK, RegistryExact, NEW r \in Reqs, Release(r)
  PROVE  RegistryExact' /\ refs' \in [Saves -> Nat]
<1> DEFINE s0 == save[r]
<1>1. /\ s0 \in Saves /\ save' = save /\ lockOf' = lockOf /\ r \in Registered(s0)
  BY DEF Release, TypeOK, Registered, Holding, arguments, handlerVars
<1>2. /\ refs' = [refs EXCEPT ![s0] = refs[s0] - 1]
      /\ registry' = [registry EXCEPT ![s0] = IF refs[s0] <= 1 THEN None
                                              ELSE registry[s0]]
      /\ pc' = [pc EXCEPT ![r] = "done"]
  BY DEF Release, DropEntry
<1>3. ASSUME NEW s \in Saves, s # s0 PROVE Registered(s)' = Registered(s)
  BY <1>1, <1>2, <1>3 DEF Registered, TypeOK
<1>4. Registered(s0)' = Registered(s0) \ {r}
  BY <1>1, <1>2 DEF Registered, TypeOK, Holding
<1>5. /\ IsFiniteSet(Registered(s0)') /\ IsFiniteSet(Registered(s0))
      /\ Cardinality(Registered(s0)') = Cardinality(Registered(s0)) - 1
  BY <1>1, <1>4, RegisteredFinite, FS_RemoveElement
<1>6. Cardinality(Registered(s0)') \in Nat
  BY <1>5, FS_CardinalityType
<1>7. /\ refs[s0] = Cardinality(Registered(s0))
      /\ refs'[s0] = Cardinality(Registered(s0)')
  BY <1>1, <1>2, <1>5 DEF RegistryExact, TypeOK
<1>8. (refs'[s0] = 0) = (Registered(s0)' = {})
  BY <1>5, <1>7, FS_EmptySet
<1>9. registry[s0] # None
  BY <1>1 DEF RegistryExact
<1>10. (registry'[s0] = None) = (refs'[s0] = 0)
  BY <1>1, <1>2, <1>5, <1>6, <1>7, <1>9 DEF TypeOK
<1>11. ASSUME NEW q \in Registered(s0)' PROVE lockOf'[q] = registry'[s0]
  <2>1. q \in Registered(s0) /\ Registered(s0)' # {}
    BY <1>4, <1>11
  <2>2. registry'[s0] = registry[s0]
    BY <1>1, <1>2, <1>8, <1>10, <2>1 DEF TypeOK
  <2>3. QED
    BY <1>1, <2>1, <2>2 DEF RegistryExact
<1>12. ASSUME NEW s \in Saves
       PROVE  /\ refs'[s] = Cardinality(Registered(s)')
              /\ (registry'[s] = None) = (Registered(s)' = {})
              /\ \A q \in Registered(s)' : lockOf'[q] = registry'[s]
  <2>1. CASE s = s0
    BY <1>1, <1>7, <1>8, <1>10, <1>11, <2>1
  <2>2. CASE s # s0
    <3>1. refs'[s] = refs[s] /\ registry'[s] = registry[s]
      BY <1>2, <2>2 DEF TypeOK
    <3>2. QED
      BY <1>1, <1>3, <2>2, <3>1 DEF RegistryExact
  <2>3. QED
    BY <2>1, <2>2
<1>13. refs' \in [Saves -> Nat]
  BY <1>1, <1>2, <1>6, <1>7 DEF TypeOK
<1>14. QED
  BY <1>12, <1>13 DEF RegistryExact

-----------------------------------------------------------------------------
(* Type correctness                                                          *)

\* The steps of a handler between taking the lock and releasing it.
UnderLock(r) ==
  \/ ForcedLoad(r) \/ LoadFails(r)
  \/ RejectMismatch(r) \/ RejectSuffix(r) \/ RejectExpected(r) \/ RejectStale(r)
  \/ BeginWrite(r) \/ Commit(r) \/ WriteFails(r)
  \/ Reload(r) \/ ReloadFails(r)

LEMMA HandlerSteps ==
  ASSUME NEW r \in Reqs
  PROVE  Handler(r) = (Wake(r) \/ UnderLock(r) \/ Release(r))
  BY DEF Handler, UnderLock

LEMMA AnswerType ==
  ASSUME TypeOK, NEW r \in Reqs, NEW code \in Statuses, NEW reported \in Optional,
         Answer(r, code, reported)
  PROVE  /\ status' \in [Reqs -> Statuses \cup {None}]
         /\ current' \in [Reqs -> Optional]
         /\ pc' \in [Reqs -> {"idle", "wait", "done"} \cup Holding]
         /\ UNCHANGED <<indexVars, lockVars, arguments, lockOf, seen, applied,
                        counters>>
  BY DEF Answer, TypeOK, Holding

LEMMA BackupType ==
  ASSUME TypeOK, NEW s \in Saves, Backup(s)
  PROVE  backups' \in [Saves -> Seq(Contents)] /\ burst' \in [Saves -> Nat]
<1>1. CASE files[s] = None
  BY <1>1 DEF Backup, TypeOK, copies
<1>2. CASE files[s] # None
  <2> DEFINE all == <<files[s]>> \o backups[s]
  <2>1. all \in Seq(Contents) /\ burst[s] + 1 \in Nat
    BY <1>2 DEF TypeOK, Optional
  <2>2. Newest(all, KeepLimit) \in Seq(Contents)
    BY <2>1, LimitsAssumption DEF Newest
  <2>3. PICK n \in {1, burst[s] + 1} :
          /\ burst' = [burst EXCEPT ![s] = n]
          /\ backups' = [backups EXCEPT ![s] =
               IF FitsInSecond(n) THEN Newest(all, KeepLimit) ELSE @]
    BY <1>2 DEF Backup
  <2>4. burst' \in [Saves -> Nat]
    BY <2>1, <2>3 DEF TypeOK
  <2>5. CASE FitsInSecond(n)
    BY <2>2, <2>3, <2>4, <2>5 DEF TypeOK
  <2>6. CASE ~FitsInSecond(n)
    BY <2>3, <2>4, <2>6 DEF TypeOK
  <2>7. QED
    BY <2>5, <2>6
<1>3. QED
  BY <1>1, <1>2

LEMMA UnderLockType ==
  ASSUME TypeOK, NEW r \in Reqs, UnderLock(r)
  PROVE  TypeOK'
<1> USE DEF diskVars, copies, indexVars, lockVars, arguments, handlerVars, counters
<1>1. /\ "ok" \in Statuses /\ "conflict" \in Statuses /\ "error" \in Statuses
      /\ None \in Optional
  BY DEF Statuses, Optional
<1>2. seen[r] \in Optional /\ save[r] \in Saves /\ files[save[r]] \in Optional
      /\ content[r] \in Optional
  BY DEF TypeOK, Optional
<1>3. CASE ForcedLoad(r)
  BY <1>2, <1>3 DEF ForcedLoad, Reindex, TypeOK, Holding
<1>4. CASE LoadFails(r)
  BY <1>1, <1>4, AnswerType DEF LoadFails, TypeOK
<1>5. CASE RejectMismatch(r)
  BY <1>1, <1>2, <1>5, AnswerType DEF RejectMismatch, TypeOK
<1>6. CASE RejectSuffix(r)
  BY <1>1, <1>6, AnswerType DEF RejectSuffix, TypeOK
<1>7. CASE RejectExpected(r)
  BY <1>1, <1>7, AnswerType DEF RejectExpected, TypeOK
<1>8. CASE RejectStale(r)
  BY <1>1, <1>2, <1>8, AnswerType DEF RejectStale, TypeOK
<1>9. CASE BeginWrite(r)
  <2>1. backups' \in [Saves -> Seq(Contents)] /\ burst' \in [Saves -> Nat]
    BY <1>2, <1>9, BackupType DEF BeginWrite, TypeOK
  <2>2. QED
    BY <1>2, <1>9, <2>1 DEF BeginWrite, TypeOK, Holding
<1>10. CASE Commit(r)
  BY <1>2, <1>10 DEF Commit, Runs, TypeOK, Holding
<1>11. CASE WriteFails(r)
  BY <1>1, <1>11, AnswerType DEF WriteFails, RemovePart, TypeOK
<1>12. CASE Reload(r)
  BY <1>1, <1>12 DEF Reload, Reindex, TypeOK, Holding
<1>13. CASE ReloadFails(r)
  BY <1>1, <1>13, AnswerType DEF ReloadFails, TypeOK
<1>14. QED
  BY <1>3, <1>4, <1>5, <1>6, <1>7, <1>8, <1>9, <1>10, <1>11, <1>12, <1>13
  DEF UnderLock

LEMMA ArriveType ==
  ASSUME TypeOK, NEW r \in Reqs, Arrive(r)
  PROVE  TypeOK'
<1> DEFINE l == LockFor(r)
<1>1. save[r] \in Saves /\ l \in Reqs /\ waiters[l] \in Seq(Reqs)
  BY DEF TypeOK, LockFor
<1>2. /\ registry' \in [Saves -> Reqs \cup {None}] /\ refs' \in [Saves -> Nat]
      /\ lockOf' \in [Reqs -> Reqs \cup {None}]
  BY <1>1 DEF Arrive, TypeOK
<1>3. /\ owner' \in [Reqs -> Reqs \cup {None}] /\ loop' \in Reqs \cup {None}
      /\ pc' \in [Reqs -> {"idle", "wait", "done"} \cup Holding]
  BY <1>1 DEF Arrive, Runs, TypeOK, Holding
<1>4. waiters' \in [Reqs -> Seq(Reqs)]
  <2>1. Append(waiters[l], r) \in Seq(Reqs)
    BY <1>1
  <2>2. waiters' = waiters \/ waiters' = [waiters EXCEPT ![l] = Append(waiters[l], r)]
    BY DEF Arrive
  <2>3. QED
    BY <2>1, <2>2 DEF TypeOK
<1>5. QED
  BY <1>2, <1>3, <1>4 DEF Arrive, TypeOK, diskVars, copies, indexVars, arguments, counters

LEMMA WakeType ==
  ASSUME TypeOK, NEW r \in Reqs, Wake(r)
  PROVE  TypeOK'
<1> DEFINE l == lockOf[r]
<1>1. owner' = [owner EXCEPT ![l] = r] /\ owner' \in [Reqs -> Reqs \cup {None}]
  BY DEF Wake, TypeOK
<1>2. waiters' \in [Reqs -> Seq(Reqs)]
  <2>1. /\ waiters[l] # <<>> /\ waiters' = [waiters EXCEPT ![l] = Tail(waiters[l])]
    BY DEF Wake
  <2>2. CASE l \in Reqs
    <3>1. Tail(waiters[l]) \in Seq(Reqs)
      BY <2>1, <2>2 DEF TypeOK
    <3>2. QED
      BY <2>1, <3>1 DEF TypeOK
  <2>3. CASE l \notin Reqs
    BY <2>1, <2>3 DEF TypeOK
  <2>4. QED
    BY <2>2, <2>3
<1>3. QED
  BY <1>1, <1>2
  DEF Wake, Runs, TypeOK, Holding, diskVars, copies, indexVars, arguments, handlerVars, counters

LEMMA ReleaseType ==
  ASSUME TypeOK, RegistryExact, NEW r \in Reqs, Release(r)
  PROVE  TypeOK'
  BY ReleaseRegistry
  DEF Release, DropEntry, TypeOK, diskVars, copies, indexVars, arguments, handlerVars, counters

LEMMA EnvironmentType ==
  ASSUME TypeOK, Poll \/ Crash \/ \E s \in Saves : OperatorEdit(s)
  PROVE  TypeOK'
<1> USE DEF diskVars, copies, indexVars, lockVars, arguments, handlerVars, counters
<1>1. CASE Poll
  BY <1>1 DEF Poll, Reindex, TypeOK
<1>2. CASE Crash
  <2>1. crashes' \in 0 .. MaxCrashes
    BY <1>2, LimitsAssumption DEF Crash, TypeOK
  <2>2. /\ pc' \in [Reqs -> {"idle", "wait", "done"} \cup Holding]
        /\ status' \in [Reqs -> Statuses \cup {None}]
    BY <1>2 DEF Crash, TypeOK, Statuses
  <2>3. /\ registry' \in [Saves -> Reqs \cup {None}] /\ refs' \in [Saves -> Nat]
        /\ owner' \in [Reqs -> Reqs \cup {None}] /\ waiters' \in [Reqs -> Seq(Reqs)]
        /\ loop' \in Reqs \cup {None}
    BY <1>2 DEF Crash
  <2>4. QED
    BY <1>2, <2>1, <2>2, <2>3 DEF Crash, Reindex, TypeOK
<1>3. ASSUME NEW s \in Saves, OperatorEdit(s) PROVE TypeOK'
  <2>1. edits' \in 0 .. MaxEdits
    BY <1>3, LimitsAssumption DEF OperatorEdit, TypeOK
  <2>2. QED
    BY <1>3, <2>1 DEF OperatorEdit, TypeOK
<1>4. QED
  BY <1>1, <1>2, <1>3

LEMMA StepType ==
  ASSUME TypeOK, RegistryExact, [Next]_vars
  PROVE  TypeOK'
<1>1. ASSUME NEW r \in Reqs, Arrive(r) \/ Handler(r) PROVE TypeOK'
  BY <1>1, ArriveType, HandlerSteps, WakeType, UnderLockType, ReleaseType
<1>2. CASE UNCHANGED vars
  BY <1>2 DEF TypeOK, vars, diskVars, copies, indexVars, lockVars, arguments, handlerVars, counters
<1>3. QED
  BY <1>1, <1>2, EnvironmentType DEF Next

-----------------------------------------------------------------------------
(* Mutual exclusion                                                          *)

\* Under the lock a handler goes from one stage to the next and touches neither
\* the locks nor the registry.
LEMMA UnderLockMoves ==
  ASSUME NEW r \in Reqs, UnderLock(r)
  PROVE  /\ UNCHANGED <<lockVars, arguments, lockOf>> /\ pc[r] \in Holding
         /\ \E next \in Holding : pc' = [pc EXCEPT ![r] = next]
<1> USE DEF Holding, handlerVars, Answer, Runs
<1>1. CASE ForcedLoad(r) \/ LoadFails(r)
  BY <1>1 DEF ForcedLoad, LoadFails
<1>2. CASE RejectMismatch(r) \/ RejectSuffix(r) \/ RejectExpected(r) \/ RejectStale(r)
  BY <1>2 DEF RejectMismatch, RejectSuffix, RejectExpected, RejectStale, Consistent
<1>3. CASE BeginWrite(r)
  BY <1>3 DEF BeginWrite, Accepts, Consistent
<1>4. CASE Commit(r) \/ WriteFails(r) \/ Reload(r) \/ ReloadFails(r)
  BY <1>4 DEF Commit, WriteFails, Reload, ReloadFails
<1>5. QED
  BY <1>1, <1>2, <1>3, <1>4 DEF UnderLock

LEMMA UnderLockKeeps ==
  ASSUME TypeOK, LockHeld, RegistryExact, NEW r \in Reqs, UnderLock(r)
  PROVE  LockHeld' /\ RegistryExact'
<1>1. /\ UNCHANGED <<registry, refs, owner, save, lockOf>> /\ pc[r] \in Holding
      /\ \E next \in Holding : pc' = [pc EXCEPT ![r] = next]
  BY UnderLockMoves DEF lockVars, arguments
<1>2. \A q \in Reqs : /\ (pc'[q] \in Queued) = (pc[q] \in Queued)
                      /\ (pc'[q] \in Holding) = (pc[q] \in Holding)
  BY <1>1 DEF TypeOK, Queued
<1>3. QED
  BY <1>1, <1>2, RegistryKept DEF LockHeld

LEMMA ArriveKeeps ==
  ASSUME TypeOK, LockHeld, RegistryExact, NEW r \in Reqs, Arrive(r)
  PROVE  LockHeld'
<1> DEFINE l == LockFor(r)
<1>1. /\ lockOf' = [lockOf EXCEPT ![r] = l] /\ save' = save
      /\ l \in Reqs
  BY DEF Arrive, arguments, TypeOK, LockFor
<1>2. CASE owner[l] = None /\ waiters[l] = <<>>
  <2>1. owner' = [owner EXCEPT ![l] = r] /\ pc' = [pc EXCEPT ![r] = "load"]
    BY <1>2 DEF Arrive, Runs
  <2>2. SUFFICES ASSUME NEW q \in Reqs, pc'[q] \in Holding
                 PROVE  owner'[lockOf'[q]] = q
    BY DEF LockHeld
  <2>3. CASE q = r
    BY <1>1, <2>1, <2>3 DEF TypeOK
  <2>4. CASE q # r
    <3>1. owner[lockOf[q]] = q /\ lockOf'[q] = lockOf[q]
      BY <1>1, <2>1, <2>2, <2>4 DEF LockHeld, TypeOK
    <3>2. lockOf[q] # l
      BY <1>2, <3>1, NoneAssumption
    <3>3. QED
      BY <2>1, <3>1, <3>2 DEF TypeOK
  <2>5. QED
    BY <2>3, <2>4
<1>3. CASE ~(owner[l] = None /\ waiters[l] = <<>>)
  <2>1. owner' = owner /\ pc' = [pc EXCEPT ![r] = "wait"]
    BY <1>3 DEF Arrive
  <2>2. \A q \in Reqs : pc'[q] \in Holding => pc[q] \in Holding /\ q # r
    BY <2>1 DEF TypeOK, Holding
  <2>3. QED
    BY <1>1, <2>1, <2>2 DEF LockHeld, TypeOK
<1>4. QED
  BY <1>2, <1>3

LEMMA WakeKeeps ==
  ASSUME TypeOK, LockHeld, RegistryExact, NEW r \in Reqs, Wake(r)
  PROVE  LockHeld' /\ RegistryExact'
<1> DEFINE l == lockOf[r]
<1>1. /\ pc[r] = "wait" /\ owner[l] = None /\ owner' = [owner EXCEPT ![l] = r]
      /\ pc' = [pc EXCEPT ![r] = "load"]
      /\ UNCHANGED <<registry, refs, lockOf, save>>
  BY DEF Wake, Runs, arguments, handlerVars
<1>2. l \in Reqs
  BY <1>1, RegisteredLock DEF Queued
<1>3. \A q \in Reqs : (pc'[q] \in Queued) = (pc[q] \in Queued)
  BY <1>1 DEF TypeOK, Queued, Holding
<1>4. ASSUME NEW q \in Reqs, pc'[q] \in Holding PROVE owner'[lockOf'[q]] = q
  <2>1. CASE q = r
    BY <1>1, <1>2, <2>1 DEF TypeOK
  <2>2. CASE q # r
    <3>1. owner[lockOf[q]] = q
      BY <1>1, <1>4, <2>2 DEF LockHeld, TypeOK
    <3>2. lockOf[q] # l
      BY <1>1, <3>1, NoneAssumption
    <3>3. QED
      BY <1>1, <3>1, <3>2 DEF TypeOK
  <2>3. QED
    BY <2>1, <2>2
<1>5. QED
  BY <1>1, <1>3, <1>4, RegistryKept DEF LockHeld

LEMMA ReleaseKeeps ==
  ASSUME TypeOK, LockHeld, RegistryExact, NEW r \in Reqs, Release(r)
  PROVE  LockHeld' /\ RegistryExact'
<1>1. /\ pc[r] = "release" /\ owner' = [owner EXCEPT ![lockOf[r]] = None]
      /\ pc' = [pc EXCEPT ![r] = "done"] /\ lockOf' = lockOf
  BY DEF Release, handlerVars
<1>2. ASSUME NEW q \in Reqs, pc'[q] \in Holding PROVE owner'[lockOf'[q]] = q
  <2>1. q # r /\ pc[q] \in Holding
    BY <1>1, <1>2 DEF TypeOK, Holding
  <2>2. owner[lockOf[q]] = q /\ owner[lockOf[r]] = r
    BY <1>1, <2>1 DEF LockHeld, Holding
  <2>3. lockOf[q] # lockOf[r]
    BY <2>1, <2>2
  <2>4. QED
    BY <1>1, <2>2, <2>3 DEF TypeOK
<1>3. QED
  BY <1>2, ReleaseRegistry DEF LockHeld

LEMMA CrashKeeps ==
  ASSUME TypeOK, Crash
  PROVE  LockHeld' /\ RegistryExact'
<1>1. \A q \in Reqs : pc'[q] \in {"idle", "done"}
  BY DEF Crash
<1>2. \A s \in Saves : Registered(s)' = {}
  BY <1>1 DEF Registered, Holding
<1>3. RegistryExact'
  BY <1>2, FS_EmptySet DEF RegistryExact, Crash
<1>4. LockHeld'
  BY <1>1 DEF LockHeld, Holding
<1>5. QED
  BY <1>3, <1>4

LEMMA LockStep ==
  ASSUME LockInv, [Next]_vars
  PROVE  LockInv'
<1>1. TypeOK /\ LockHeld /\ RegistryExact /\ TypeOK'
  BY StepType DEF LockInv
<1>2. ASSUME NEW r \in Reqs, Arrive(r) \/ Handler(r) PROVE LockHeld' /\ RegistryExact'
  BY <1>1, <1>2, ArriveKeeps, ArriveRegistry, HandlerSteps, WakeKeeps, UnderLockKeeps,
     ReleaseKeeps
<1>3. CASE Crash
  BY <1>1, <1>3, CrashKeeps DEF LockInv
<1>4. CASE Poll \/ UNCHANGED vars \/ \E s \in Saves : OperatorEdit(s)
  <2>1. UNCHANGED <<registry, refs, owner, save, pc, lockOf>>
    BY <1>4 DEF Poll, OperatorEdit, vars, lockVars, arguments, handlerVars
  <2>2. QED
    BY <1>1, <2>1, RegistryKept DEF LockHeld, LockInv
<1>5. QED
  BY <1>1, <1>2, <1>3, <1>4 DEF Next, LockInv

LEMMA LockInit == Init => LockInv
<1> SUFFICES ASSUME Init PROVE LockInv
  OBVIOUS
<1>1. TypeOK
  BY LimitsAssumption DEF Init, TypeOK, Optional
<1>2. \A s \in Saves : Registered(s) = {}
  BY DEF Init, Registered, Holding
<1>3. RegistryExact
  BY <1>2, FS_EmptySet DEF Init, RegistryExact
<1>4. LockHeld
  BY DEF Init, LockHeld, Holding
<1>5. QED
  BY <1>1, <1>3, <1>4 DEF LockInv

\* The inductive invariant behind mutual exclusion: types, the owner of a lock is
\* the handler past it, and the registry maps a save to the lock that all its
\* registered requests found.
THEOREM LocksInvariant == Spec => []LockInv
  BY LockInit, LockStep, PTL DEF Spec

\* Every variable of the upload API keeps its type: in particular the reference
\* count of a lock never goes below zero.
THEOREM TypeCorrect == Spec => []TypeOK
<1>1. LockInv => TypeOK
  BY DEF LockInv
<1>2. QED
  BY <1>1, LocksInvariant, PTL

\* An entry of the lock registry exists exactly while requests of that save wait
\* for or hold its lock, and its count is their number: for any number of
\* requests, in any order, and after any crash (_save_upload_lock).
THEOREM RegistryIsExact == Spec => []RegistryExact
<1>1. LockInv => RegistryExact
  BY DEF LockInv
<1>2. QED
  BY <1>1, LocksInvariant, PTL

LEMMA HoldersExclude == LockInv => OneWriterPerSave
<1> SUFFICES ASSUME LockInv, NEW r1 \in Reqs, NEW r2 \in Reqs,
                    pc[r1] \in Holding, pc[r2] \in Holding, save[r1] = save[r2]
             PROVE  r1 = r2
  BY DEF OneWriterPerSave
<1>1. lockOf[r1] = registry[save[r1]] /\ lockOf[r2] = registry[save[r2]]
  BY RegisteredLock DEF LockInv, Queued
<1>2. owner[lockOf[r1]] = r1 /\ owner[lockOf[r2]] = r2
  BY DEF LockInv, LockHeld
<1>3. QED
  BY <1>1, <1>2

\* Two handlers of one save are never both past its lock (put_save).
THEOREM WritersExclude == Spec => []OneWriterPerSave
  BY HoldersExclude, LocksInvariant, PTL

-----------------------------------------------------------------------------
(* Temporary files                                                           *)

LEMMA UnderLockParts ==
  ASSUME TypeOK, PartsCleanedUp, NEW r \in Reqs, UnderLock(r)
  PROVE  PartsCleanedUp'
<1>1. UNCHANGED <<save, crashes>> /\ \E next \in Holding : pc' = [pc EXCEPT ![r] = next]
  <2>1. crashes' = crashes
    BY DEF UnderLock, ForcedLoad, LoadFails, RejectMismatch, RejectSuffix, RejectExpected,
           RejectStale, BeginWrite, Commit, WriteFails, Reload, ReloadFails, Answer, counters
  <2>2. QED
    BY <2>1, UnderLockMoves DEF arguments
<1>2. CASE BeginWrite(r)
  <2>1. parts' = parts \cup {save[r]} /\ pc' = [pc EXCEPT ![r] = "write"]
    BY <1>2 DEF BeginWrite
  <2>2. QED
    BY <1>1, <2>1 DEF PartsCleanedUp, TypeOK
<1>3. CASE Commit(r) \/ WriteFails(r)
  <2>1. parts' = parts \ {save[r]}
    BY <1>3 DEF Commit, WriteFails, RemovePart
  <2>2. \A q \in Reqs : q # r => pc'[q] = pc[q]
    BY <1>1 DEF TypeOK
  <2>3. QED
    BY <1>1, <2>1, <2>2 DEF PartsCleanedUp
<1>4. CASE ~(BeginWrite(r) \/ Commit(r) \/ WriteFails(r))
  <2>1. parts' = parts /\ pc[r] # "write"
    BY <1>4
    DEF UnderLock, ForcedLoad, LoadFails, RejectMismatch, RejectSuffix, RejectExpected,
        RejectStale, Reload, ReloadFails, Consistent, diskVars, copies
  <2>2. \A q \in Reqs : pc[q] = "write" => pc'[q] = "write"
    BY <1>1, <2>1 DEF TypeOK
  <2>3. QED
    BY <1>1, <2>1, <2>2 DEF PartsCleanedUp
<1>5. QED
  BY <1>2, <1>3, <1>4

LEMMA PartsStep ==
  ASSUME TypeOK, PartsCleanedUp, [Next]_vars
  PROVE  PartsCleanedUp'
<1> USE DEF diskVars, copies, arguments, counters
<1>1. ASSUME NEW r \in Reqs, Arrive(r) \/ Wake(r) \/ Release(r) PROVE PartsCleanedUp'
  <2>1. UNCHANGED <<parts, save, crashes>>
    BY <1>1 DEF Arrive, Wake, Release
  <2>2. \A q \in Reqs : pc[q] = "write" => pc'[q] = "write"
    BY <1>1 DEF Arrive, Wake, Release, Runs, TypeOK
  <2>3. QED
    BY <2>1, <2>2 DEF PartsCleanedUp
<1>2. CASE Crash
  BY <1>2 DEF Crash, PartsCleanedUp, TypeOK
<1>3. CASE Poll \/ UNCHANGED vars \/ \E s \in Saves : OperatorEdit(s)
  BY <1>3 DEF Poll, OperatorEdit, PartsCleanedUp, vars
<1>4. QED
  BY <1>1, <1>2, <1>3, HandlerSteps, UnderLockParts DEF Next

\* Until the server crashes, every .part file has a handler that will replace or
\* remove it, whichever way each upload ends (_write_save_upload).
THEOREM PartsHaveWriters == Spec => []PartsCleanedUp
<1>1. Init => PartsCleanedUp
  BY DEF Init, PartsCleanedUp
<1>2. QED
  BY <1>1, TypeCorrect, PartsStep, PTL DEF Spec

\* The lock registry, the exclusion of writers and the temporary files, for any
\* number of requests and saves.
THEOREM WritersOrdered == Spec => []WritersAreOrdered
  BY WritersExclude, RegistryIsExact, PartsHaveWriters, PTL DEF WritersAreOrdered

-----------------------------------------------------------------------------
(* The compare-and-swap, while no operator edits saves/                      *)

\* The newest backup is the save's content, or too many fell into its second.
BackedUp(s, c) == \/ backups[s] # <<>> /\ Head(backups[s]) = c
                  \/ burst[s] > KeepLimit + 1

\* A handler past its load works on the content that is there, and has backed up
\* what it is about to replace.
WorksOnCurrent(r) ==
  /\ pc[r] \in {"decide", "write"} => seen[r] = files[save[r]]
  /\ pc[r] = "write" => expected[r] = seen[r]
  /\ pc[r] = "write" /\ seen[r] # None => BackedUp(save[r], seen[r])

\* The response of a handler agrees with what it did.
RespondsTruly(r) ==
  /\ pc[r] \in {"idle", "wait", "load", "decide", "write"} =>
       applied[r] = FALSE /\ current[r] = None /\ status[r] = None
  /\ pc[r] = "reload" => applied[r] = TRUE /\ current[r] = None /\ status[r] = None
  /\ pc[r] \in {"release", "done"} => status[r] # None
  /\ status[r] = "ok" => applied[r] = TRUE
  /\ status[r] = "conflict" => current[r] # None /\ applied[r] = FALSE

StoreInv == \A r \in Reqs : WorksOnCurrent(r) /\ RespondsTruly(r)

UploadInv == LockInv /\ StoreInv

LEMMA BackupHead ==
  ASSUME TypeOK, NEW s \in Saves, Backup(s), files[s] # None
  PROVE  /\ \/ backups'[s] # <<>> /\ Head(backups'[s]) = files[s]
            \/ burst'[s] > KeepLimit + 1
         /\ \A t \in Saves : t # s => backups'[t] = backups[t] /\ burst'[t] = burst[t]
<1> DEFINE all == <<files[s]>> \o backups[s]
<1>1. all \in Seq(Contents) /\ Len(all) >= 1 /\ all[1] = files[s]
  BY DEF TypeOK, Optional
<1>2. /\ Newest(all, KeepLimit) \in Seq(Contents) /\ Len(Newest(all, KeepLimit)) >= 1
      /\ Newest(all, KeepLimit)[1] = files[s]
  BY <1>1, LimitsAssumption DEF Newest
<1>3. PICK n \in {1, burst[s] + 1} :
        /\ burst' = [burst EXCEPT ![s] = n]
        /\ backups' = [backups EXCEPT ![s] =
             IF FitsInSecond(n) THEN Newest(all, KeepLimit) ELSE @]
  BY DEF Backup
<1>4. burst'[s] = n /\ n \in Nat
  BY <1>3 DEF TypeOK
<1>5. CASE FitsInSecond(n)
  BY <1>2, <1>3, <1>5 DEF TypeOK
<1>6. CASE ~FitsInSecond(n)
  BY <1>3, <1>4, <1>6, LimitsAssumption DEF TypeOK, FitsInSecond
<1>7. QED
  BY <1>5, <1>6

\* Another handler under a lock is one of another save.
LEMMA OthersElsewhere ==
  ASSUME LockInv, NEW r \in Reqs, NEW q \in Reqs, q # r,
         pc[r] \in Holding, pc[q] \in Holding
  PROVE  save[q] # save[r]
  BY HoldersExclude DEF OneWriterPerSave

\* A step of one handler does not concern what another one works on.
LEMMA OthersUnaffected ==
  ASSUME UploadInv, NEW r \in Reqs, UnderLock(r), NEW q \in Reqs, q # r
  PROVE  WorksOnCurrent(q)' /\ RespondsTruly(q)'
<1>1. TypeOK /\ WorksOnCurrent(q) /\ RespondsTruly(q)
  BY DEF UploadInv, LockInv, StoreInv
<1>2. /\ UNCHANGED <<save, expected>> /\ pc[r] \in Holding /\ pc'[q] = pc[q]
  BY <1>1, UnderLockMoves DEF arguments, TypeOK
<1>3. UNCHANGED <<seen[q], applied[q], status[q], current[q]>>
  BY <1>1
  DEF UnderLock, ForcedLoad, LoadFails, RejectMismatch, RejectSuffix, RejectExpected,
      RejectStale, BeginWrite, Commit, WriteFails, Reload, ReloadFails, Answer,
      handlerVars, TypeOK
<1>4. ASSUME pc[q] \in Holding
      PROVE  UNCHANGED <<files[save[q]], backups[save[q]], burst[save[q]]>>
  <2>1. save[q] # save[r] /\ save[q] \in Saves /\ save[r] \in Saves
    BY <1>1, <1>2, <1>4, OthersElsewhere DEF UploadInv, TypeOK
  <2>2. CASE BeginWrite(r)
    <3>1. files' = files /\ (UNCHANGED <<backups, burst>> \/ Backup(save[r]))
      BY <2>2 DEF BeginWrite, copies
    <3>2. backups'[save[q]] = backups[save[q]] /\ burst'[save[q]] = burst[save[q]]
      BY <1>1, <2>1, <3>1 DEF Backup, TypeOK, copies
    <3>3. QED
      BY <1>2, <3>1, <3>2
  <2>3. CASE Commit(r)
    BY <1>1, <1>2, <2>1, <2>3 DEF Commit, TypeOK, copies
  <2>4. CASE ~(BeginWrite(r) \/ Commit(r))
    BY <1>2, <2>4
    DEF UnderLock, ForcedLoad, LoadFails, RejectMismatch, RejectSuffix, RejectExpected,
        RejectStale, WriteFails, Reload, ReloadFails, diskVars, copies
  <2>5. QED
    BY <2>2, <2>3, <2>4
<1>5. WorksOnCurrent(q)'
  BY <1>1, <1>2, <1>3, <1>4 DEF WorksOnCurrent, BackedUp, Holding
<1>6. RespondsTruly(q)'
  BY <1>1, <1>2, <1>3 DEF RespondsTruly
<1>7. QED
  BY <1>5, <1>6

LEMMA AnswerResponds ==
  ASSUME TypeOK, NEW r \in Reqs, NEW code \in {"conflict", "error"},
         NEW reported, Answer(r, code, reported),
         code = "conflict" => reported # None /\ applied[r] = FALSE
  PROVE  WorksOnCurrent(r)' /\ RespondsTruly(r)'
<1>1. /\ pc'[r] = "release" /\ status'[r] = code /\ current'[r] = reported
      /\ applied' = applied
  BY DEF Answer, TypeOK
<1>2. code # None
  BY NoneAssumption DEF Statuses
<1>3. QED
  BY <1>1, <1>2 DEF WorksOnCurrent, RespondsTruly

LEMMA OwnStep ==
  ASSUME UploadInv, NEW r \in Reqs, UnderLock(r)
  PROVE  WorksOnCurrent(r)' /\ RespondsTruly(r)'
<1>1. /\ TypeOK /\ WorksOnCurrent(r) /\ RespondsTruly(r) /\ UNCHANGED <<save, expected>>
      /\ save[r] \in Saves
  BY UnderLockMoves DEF UploadInv, LockInv, StoreInv, TypeOK, arguments
<1>2. CASE ForcedLoad(r)
  <2>1. /\ pc'[r] = "decide" /\ seen'[r] = files[save[r]] /\ files' = files
        /\ UNCHANGED <<applied, current, status>> /\ pc[r] = "load"
    BY <1>1, <1>2 DEF ForcedLoad, TypeOK, diskVars, copies
  <2>2. QED
    BY <1>1, <2>1 DEF WorksOnCurrent, RespondsTruly
<1>3. CASE LoadFails(r)
  BY <1>1, <1>3, AnswerResponds DEF LoadFails
<1>4. CASE RejectMismatch(r)
  BY <1>1, <1>4 DEF RejectMismatch, Exists, WorksOnCurrent
<1>5. CASE RejectSuffix(r) \/ RejectExpected(r)
  BY <1>1, <1>5, AnswerResponds DEF RejectSuffix, RejectExpected
<1>6. CASE RejectStale(r)
  <2>1. seen[r] # None /\ applied[r] = FALSE
    BY <1>1, <1>6 DEF RejectStale, Consistent, RespondsTruly
  <2>2. QED
    BY <1>1, <1>6, <2>1, AnswerResponds DEF RejectStale
<1>7. CASE BeginWrite(r)
  <2>1. /\ pc[r] = "decide" /\ expected[r] = seen[r] /\ pc'[r] = "write"
        /\ UNCHANGED <<files, seen, applied, current, status>>
    BY <1>1, <1>7 DEF BeginWrite, Accepts, Consistent, handlerVars, TypeOK
  <2>2. seen[r] = files[save[r]]
    BY <1>1, <2>1 DEF WorksOnCurrent
  <2>3. seen[r] # None => \/ backups'[save[r]] # <<>> /\ Head(backups'[save[r]]) = seen[r]
                          \/ burst'[save[r]] > KeepLimit + 1
    BY <1>1, <1>7, <2>2, BackupHead DEF BeginWrite
  <2>4. QED
    BY <1>1, <2>1, <2>2, <2>3 DEF WorksOnCurrent, BackedUp, RespondsTruly
<1>8. CASE Commit(r)
  <2>1. /\ pc[r] = "write" /\ pc'[r] = "reload" /\ applied'[r] = TRUE
        /\ UNCHANGED <<current, status>>
    BY <1>1, <1>8 DEF Commit, Runs, TypeOK
  <2>2. QED
    BY <1>1, <2>1, NoneAssumption DEF WorksOnCurrent, RespondsTruly, Statuses
<1>9. CASE WriteFails(r)
  BY <1>1, <1>9, AnswerResponds DEF WriteFails
<1>10. CASE Reload(r)
  <2>1. /\ pc[r] = "reload" /\ pc'[r] = "release" /\ status'[r] \in {"ok", "error"}
        /\ UNCHANGED <<current, applied>>
    BY <1>1, <1>10 DEF Reload, TypeOK
  <2>2. QED
    BY <1>1, <2>1, NoneAssumption DEF WorksOnCurrent, RespondsTruly, Statuses
<1>11. CASE ReloadFails(r)
  BY <1>1, <1>11, AnswerResponds DEF ReloadFails
<1>12. QED
  BY <1>2, <1>3, <1>4, <1>5, <1>6, <1>7, <1>8, <1>9, <1>10, <1>11 DEF UnderLock

\* The steps of a handler outside the lock, and those of the server around it,
\* leave the saves and what handlers have seen of them alone.
LEMMA OutsideKeeps ==
  ASSUME UploadInv, NEW r \in Reqs, Arrive(r) \/ Wake(r) \/ Release(r)
  PROVE  StoreInv'
<1>1. /\ UNCHANGED <<files, backups, burst, save, expected, seen, status, current, applied>>
      /\ TypeOK
  BY DEF Arrive, Wake, Release, diskVars, copies, arguments, handlerVars, UploadInv, LockInv
<1>2. \E next \in {"wait", "load", "done"} :
        /\ pc' = [pc EXCEPT ![r] = next]
        /\ next = "done" => pc[r] = "release"
        /\ next # "done" => pc[r] \in {"idle", "wait"}
  BY DEF Arrive, Wake, Release, Runs
<1>3. ASSUME NEW q \in Reqs PROVE WorksOnCurrent(q)' /\ RespondsTruly(q)'
  <2>1. WorksOnCurrent(q) /\ RespondsTruly(q)
    BY DEF UploadInv, StoreInv
  <2>2. CASE q = r
    BY <1>1, <1>2, <2>1, <2>2 DEF WorksOnCurrent, BackedUp, RespondsTruly, TypeOK
  <2>3. CASE q # r
    <3>1. pc'[q] = pc[q]
      BY <1>1, <1>2, <2>3 DEF TypeOK
    <3>2. QED
      BY <1>1, <2>1, <3>1 DEF WorksOnCurrent, BackedUp, RespondsTruly
  <2>4. QED
    BY <2>2, <2>3
<1>4. QED
  BY <1>3 DEF StoreInv

LEMMA CrashResponds ==
  ASSUME UploadInv, Crash
  PROVE  StoreInv'
<1>1. SUFFICES ASSUME NEW q \in Reqs PROVE WorksOnCurrent(q)' /\ RespondsTruly(q)'
  BY DEF StoreInv
<1>2. RespondsTruly(q)
  BY DEF UploadInv, StoreInv
<1>3. /\ pc'[q] = IF pc[q] = "idle" THEN "idle" ELSE "done"
      /\ status'[q] = IF pc[q] \in {"idle", "done"} THEN status[q] ELSE "error"
      /\ UNCHANGED <<applied, current>>
  BY DEF Crash
<1>4. QED
  BY <1>2, <1>3, NoneAssumption DEF WorksOnCurrent, RespondsTruly, Statuses

LEMMA UploadStep ==
  ASSUME AllowEdits = FALSE, UploadInv, [Next]_vars
  PROVE  UploadInv'
<1>1. LockInv'
  BY LockStep DEF UploadInv
<1>2. ASSUME NEW r \in Reqs, Arrive(r) \/ Handler(r) PROVE StoreInv'
  <2>1. CASE UnderLock(r)
    BY <2>1, OwnStep, OthersUnaffected DEF StoreInv
  <2>2. QED
    BY <1>2, <2>1, HandlerSteps, OutsideKeeps
<1>3. CASE Poll \/ UNCHANGED vars
  <2>1. UNCHANGED <<files, copies, save, expected, pc, seen, status, current, applied>>
    BY <1>3 DEF Poll, vars, diskVars, copies, arguments, handlerVars
  <2>2. QED
    BY <1>1, <2>1 DEF UploadInv, StoreInv, WorksOnCurrent, BackedUp, RespondsTruly, copies
<1>4. ASSUME NEW s \in Saves, OperatorEdit(s) PROVE FALSE
  BY <1>4 DEF OperatorEdit
<1>5. QED
  BY <1>1, <1>2, <1>3, <1>4, CrashResponds DEF Next, UploadInv

LEMMA UploadInit == Init => UploadInv
<1> SUFFICES ASSUME Init PROVE UploadInv
  OBVIOUS
<1>1. StoreInv
  BY NoneAssumption DEF Init, StoreInv, WorksOnCurrent, RespondsTruly, Statuses
<1>2. QED
  BY <1>1, LockInit DEF UploadInv

\* The inductive invariant of the compare-and-swap: on top of the locks, what a
\* handler has seen is what is there, and its response is what it did.
THEOREM UploadsInvariant == ASSUME AllowEdits = FALSE PROVE Spec => []UploadInv
  BY UploadInit, UploadStep, PTL DEF Spec

\* While no operator edits saves/, the newest backup of a save that an upload
\* replaces is what it replaces (_backup_existing_save, _write_save_upload), unless
\* it is the (KeepLimit + 2)-th backup of that save within one second, or a later
\* one: that one takes the freed number 0 and is pruned as it is made.
THEOREM BackupsAreCurrent == ASSUME AllowEdits = FALSE PROVE Spec => ReplacedIsBackedUp
<1>1. ASSUME UploadInv, NEW r \in Reqs, Commit(r), files[save[r]] # None
      PROVE  \/ backups[save[r]] # <<>> /\ Head(backups[save[r]]) = files[save[r]]
             \/ burst[save[r]] > KeepLimit + 1
  BY <1>1 DEF UploadInv, StoreInv, WorksOnCurrent, BackedUp, Commit
<1>2. UploadInv /\ [Next]_vars =>
        [\A r \in Reqs : Commit(r) /\ files[save[r]] # None =>
           \/ backups[save[r]] # <<>> /\ Head(backups[save[r]]) = files[save[r]]
           \/ burst[save[r]] > KeepLimit + 1]_vars
  BY <1>1
<1>3. QED
  BY <1>2, UploadsInvariant, PTL DEF Spec, ReplacedIsBackedUp

-----------------------------------------------------------------------------
(* Refinement of SaveStore                                                   *)

\* The abstract state and reply of a request.
LEMMA StateOf ==
  ASSUME UploadInv, NEW r \in Reqs
  PROVE  /\ pc[r] = "idle" => AbsState[r] = "new"
         /\ pc[r] \in {"wait", "load", "decide", "write"} => AbsState[r] = "pending"
         /\ pc[r] = "reload" => AbsState[r] = "applied"
         /\ pc[r] = "release" =>
              \/ AbsState[r] = "applied" /\ status[r] \in {"ok", "error"}
              \/ AbsState[r] = "refused" /\ status[r] \in {"conflict", "error"}
              \/ AbsState[r] = "failed" /\ status[r] = "error"
<1>1. TypeOK /\ RespondsTruly(r)
  BY DEF UploadInv, LockInv, StoreInv
<1>2. AbsState[r] = State(r)
  BY DEF AbsState
<1>3. status[r] \in {"ok", "conflict", "error", None} /\ applied[r] \in BOOLEAN
  BY <1>1 DEF TypeOK, Statuses
<1>4. CASE pc[r] # "release"
  BY <1>1, <1>2, <1>3, <1>4, NoneAssumption DEF State, RespondsTruly, Statuses
<1>5. CASE pc[r] = "release" /\ applied[r]
  <2>1. applied[r] = TRUE /\ State(r) = "applied"
    BY <1>3, <1>5 DEF State
  <2>2. status[r] \in {"ok", "error"}
    BY <1>1, <1>3, <1>5, <2>1 DEF RespondsTruly
  <2>3. QED
    BY <1>2, <1>5, <2>1, <2>2
<1>6. CASE pc[r] = "release" /\ ~applied[r]
  <2>1. status[r] \in {"conflict", "error"} /\ (status[r] = "conflict" => current[r] # None)
    BY <1>1, <1>3, <1>6 DEF RespondsTruly
  <2>2. QED
    BY <1>2, <1>6, <2>1 DEF State
<1>7. QED
  BY <1>4, <1>5, <1>6

\* A step of one request changes the abstract state of that request only.
LEMMA OneRequest ==
  ASSUME TypeOK, NEW r \in Reqs, NEW next,
         pc' = [pc EXCEPT ![r] = next],
         \A q \in Reqs : q # r => UNCHANGED <<applied[q], current[q], status[q]>>
  PROVE  /\ AbsState' = [AbsState EXCEPT ![r] = State(r)']
         /\ AbsReply' = [AbsReply EXCEPT ![r] = IF next = "done" THEN status'[r] ELSE None]
<1>1. pc'[r] = next /\ \A q \in Reqs : q # r => pc'[q] = pc[q]
  BY DEF TypeOK
<1>2. \A q \in Reqs : q # r => State(q)' = State(q)
  BY <1>1 DEF State
<1>3. QED
  BY <1>1, <1>2 DEF AbsState, AbsReply

\* What a step of one request does to the abstract variables, given the abstract
\* state it leads to.
LEMMA RequestStep ==
  ASSUME UploadInv, UploadInv', NEW r \in Reqs, NEW next, pc[r] # "done",
         pc' = [pc EXCEPT ![r] = next],
         \A q \in Reqs : q # r => UNCHANGED <<applied[q], current[q], status[q]>>
  PROVE  /\ AbsState' = [AbsState EXCEPT ![r] = AbsState'[r]]
         /\ AbsState'[r] = AbsState[r] => AbsState' = AbsState
         /\ next # "done" => AbsReply' = AbsReply
         /\ next = "done" => AbsReply' = [AbsReply EXCEPT ![r] = status'[r]]
         /\ pc'[r] = next
<1>1. TypeOK
  BY DEF UploadInv, LockInv
<1>2. /\ AbsState' = [AbsState EXCEPT ![r] = State(r)']
      /\ AbsReply' = [AbsReply EXCEPT ![r] = IF next = "done" THEN status'[r] ELSE None]
  BY <1>1, OneRequest
<1>3. AbsState'[r] = State(r)' /\ AbsReply[r] = None /\ pc'[r] = next
  BY <1>1 DEF AbsState, AbsReply, TypeOK
<1>4. /\ AbsState = [q \in Reqs |-> AbsState[q]] /\ AbsReply = [q \in Reqs |-> AbsReply[q]]
  BY DEF AbsState, AbsReply
<1>5. AbsState'[r] = AbsState[r] => AbsState' = AbsState
  BY <1>2, <1>3, <1>4
<1>6. next # "done" => AbsReply' = AbsReply
  BY <1>2, <1>3, <1>4
<1>7. QED
  BY <1>2, <1>3, <1>5, <1>6

\* The abstract steps, on the abstract variables.
LEMMA AbstractSteps ==
  ASSUME NEW r \in Reqs
  PROVE  /\ Abstract!Submit(r) =
              /\ AbsState[r] = "new" /\ AbsState' = [AbsState EXCEPT ![r] = "pending"]
              /\ UNCHANGED <<files, arguments, current, AbsReply>>
         /\ Abstract!Apply(r) =
              /\ AbsState[r] = "pending" /\ files[save[r]] = expected[r]
              /\ files' = [files EXCEPT ![save[r]] = content[r]]
              /\ AbsState' = [AbsState EXCEPT ![r] = "applied"]
              /\ UNCHANGED <<arguments, current, AbsReply>>
         /\ Abstract!Refuse(r) =
              /\ AbsState[r] = "pending" /\ files[save[r]] # expected[r]
              /\ AbsState' = [AbsState EXCEPT ![r] = "refused"]
              /\ current' = [current EXCEPT ![r] = files[save[r]]]
              /\ UNCHANGED <<files, arguments, AbsReply>>
         /\ Abstract!Fail(r) =
              /\ AbsState[r] = "pending" /\ AbsState' = [AbsState EXCEPT ![r] = "failed"]
              /\ UNCHANGED <<files, arguments, current, AbsReply>>
  BY DEF Abstract!Submit, Abstract!Apply, Abstract!Refuse, Abstract!Fail, AbsState, AbsReply,
         Abstract!arguments, arguments

AbsStutter == UNCHANGED <<files, arguments, AbsState, current, AbsReply>>

\* An exit without a write and without a conflict fails the request.
LEMMA AnswerFails ==
  ASSUME UploadInv, UploadInv', NEW r \in Reqs, pc[r] \in {"load", "decide", "write"},
         pc' = [pc EXCEPT ![r] = "release"], status' = [status EXCEPT ![r] = "error"],
         current' = [current EXCEPT ![r] = None], UNCHANGED <<files, arguments, applied>>
  PROVE  Abstract!Fail(r)
<1>1. /\ TypeOK /\ RespondsTruly(r) /\ AbsState[r] = "pending"
  BY StateOf DEF UploadInv, LockInv, StoreInv
<1>2. applied[r] = FALSE /\ current[r] = None
  BY <1>1 DEF RespondsTruly
<1>3. current' = current
  BY <1>1, <1>2 DEF TypeOK
<1>4. \A q \in Reqs : q # r => UNCHANGED <<applied[q], current[q], status[q]>>
  BY <1>1, <1>3 DEF TypeOK
<1>5. AbsState'[r] = "failed"
  <2>1. pc'[r] = "release" /\ status'[r] = "error" /\ applied'[r] = FALSE /\ current'[r] = None
    BY <1>1, <1>2, <1>3 DEF TypeOK
  <2>2. QED
    BY <2>1 DEF AbsState, State
<1>6. AbsState' = [AbsState EXCEPT ![r] = "failed"]
  BY <1>4, <1>5, RequestStep
<1>7. AbsReply' = AbsReply
  <2>1. pc[r] # "done" /\ "release" # "done"
    OBVIOUS
  <2>2. QED
    BY <1>4, <2>1, RequestStep
<1>8. QED
  BY <1>1, <1>3, <1>6, <1>7, AbstractSteps

LEMMA ArriveSubmits ==
  ASSUME UploadInv, UploadInv', NEW r \in Reqs, Arrive(r)
  PROVE  Abstract!Submit(r)
<1>1. /\ pc[r] = "idle" /\ AbsState[r] = "new"
      /\ UNCHANGED <<files, arguments, status, current, applied>>
  BY StateOf DEF Arrive, diskVars, copies
<1>2. \E next \in {"load", "wait"} : pc' = [pc EXCEPT ![r] = next]
  BY DEF Arrive, Runs
<1>3. pc'[r] \in {"load", "wait"}
  BY <1>2 DEF UploadInv, LockInv, TypeOK
<1>4. AbsState'[r] = "pending"
  <2>1. applied[r] = FALSE /\ current[r] = None /\ status[r] = None
    BY <1>1 DEF UploadInv, StoreInv, RespondsTruly
  <2>2. QED
    BY <1>1, <1>3, <2>1, NoneAssumption DEF AbsState, State, Statuses
<1>5. AbsState' = [AbsState EXCEPT ![r] = "pending"] /\ AbsReply' = AbsReply
  BY <1>1, <1>2, <1>4, RequestStep
<1>6. QED
  BY <1>1, <1>5, AbstractSteps

\* Between submission and effect, and between effect and reply, nothing happens
\* to the abstract store.
LEMMA SilentSteps ==
  ASSUME UploadInv, UploadInv', NEW r \in Reqs,
         Wake(r) \/ ForcedLoad(r) \/ BeginWrite(r) \/ Reload(r) \/ ReloadFails(r)
  PROVE  AbsStutter
<1>1. TypeOK /\ RespondsTruly(r)
  BY DEF UploadInv, LockInv, StoreInv
<1>2. \E next \in {"load", "decide", "write", "release"} : pc' = [pc EXCEPT ![r] = next]
  BY DEF Wake, ForcedLoad, BeginWrite, Reload, ReloadFails, Runs, Answer
<1>3. /\ UNCHANGED <<files, arguments, applied>>
      /\ pc[r] \in {"wait", "load", "decide", "reload"}
  BY DEF Wake, ForcedLoad, BeginWrite, Reload, ReloadFails, Answer, Accepts, Consistent,
         diskVars, copies, handlerVars
<1>4. current' = current
  <2>1. CASE ReloadFails(r)
    BY <1>1, <2>1 DEF ReloadFails, Answer, RespondsTruly, TypeOK
  <2>2. CASE ~ReloadFails(r)
    BY <2>2 DEF Wake, ForcedLoad, BeginWrite, Reload, handlerVars
  <2>3. QED
    BY <2>1, <2>2
<1>5. /\ \A q \in Reqs : q # r => UNCHANGED status[q]
      /\ pc[r] # "reload" => UNCHANGED status[r]
  BY <1>1 DEF Wake, ForcedLoad, BeginWrite, Reload, ReloadFails, Answer, handlerVars, TypeOK,
              Accepts, Consistent
<1>6. AbsState'[r] = AbsState[r]
  <2>1. pc'[r] # "idle"
    BY <1>1, <1>2 DEF TypeOK
  <2>2. CASE pc[r] = "reload"
    BY <1>1, <1>3, <2>1, <2>2 DEF AbsState, State, RespondsTruly
  <2>3. CASE pc[r] # "reload"
    BY <1>3, <1>4, <1>5, <2>1, <2>3 DEF AbsState, State
  <2>4. QED
    BY <2>2, <2>3
<1>7. AbsState' = AbsState /\ AbsReply' = AbsReply
  BY <1>2, <1>3, <1>4, <1>5, <1>6, RequestStep
<1>8. QED
  BY <1>3, <1>4, <1>7 DEF AbsStutter

LEMMA CommitApplies ==
  ASSUME UploadInv, UploadInv', NEW r \in Reqs, Commit(r)
  PROVE  Abstract!Apply(r)
<1>1. TypeOK /\ WorksOnCurrent(r)
  BY DEF UploadInv, LockInv, StoreInv
<1>2. /\ pc[r] = "write" /\ pc' = [pc EXCEPT ![r] = "reload"]
      /\ files' = [files EXCEPT ![save[r]] = content[r]]
      /\ UNCHANGED <<arguments, current, status>>
      /\ applied' = [applied EXCEPT ![r] = TRUE]
  BY DEF Commit, Runs
<1>3. files[save[r]] = expected[r]
  BY <1>1, <1>2 DEF WorksOnCurrent
<1>4. AbsState[r] = "pending"
  BY <1>2, StateOf
<1>5. pc'[r] = "reload" /\ \A q \in Reqs : q # r => applied'[q] = applied[q]
  BY <1>1, <1>2 DEF TypeOK
<1>6. AbsState'[r] = "applied"
  <2>1. \A q \in Reqs : pc'[q] = "reload" => applied'[q] = TRUE
    BY DEF UploadInv, StoreInv, RespondsTruly
  <2>2. QED
    BY <1>5, <2>1 DEF AbsState, State
<1>7. AbsState' = [AbsState EXCEPT ![r] = "applied"] /\ AbsReply' = AbsReply
  BY <1>2, <1>5, <1>6, RequestStep
<1>8. QED
  BY <1>2, <1>3, <1>4, <1>7, AbstractSteps

LEMMA StaleRefuses ==
  ASSUME UploadInv, UploadInv', NEW r \in Reqs, RejectStale(r)
  PROVE  Abstract!Refuse(r)
<1>1. TypeOK /\ WorksOnCurrent(r) /\ RespondsTruly(r)
  BY DEF UploadInv, LockInv, StoreInv
<1>2. /\ pc[r] = "decide" /\ seen[r] # None /\ expected[r] # seen[r]
      /\ pc' = [pc EXCEPT ![r] = "release"] /\ current' = [current EXCEPT ![r] = seen[r]]
      /\ status' = [status EXCEPT ![r] = "conflict"]
      /\ UNCHANGED <<files, arguments, applied>>
  BY DEF RejectStale, Consistent, Answer, diskVars, copies
<1>3. seen[r] = files[save[r]] /\ AbsState[r] = "pending" /\ applied[r] = FALSE
  BY <1>1, <1>2, StateOf DEF WorksOnCurrent, RespondsTruly
<1>4. /\ pc'[r] = "release" /\ current'[r] = seen[r] /\ applied'[r] = FALSE
      /\ \A q \in Reqs : q # r => UNCHANGED <<applied[q], current[q], status[q]>>
  BY <1>1, <1>2, <1>3 DEF TypeOK
<1>5. AbsState'[r] = "refused"
  BY <1>2, <1>4 DEF AbsState, State
<1>6. AbsState' = [AbsState EXCEPT ![r] = "refused"] /\ AbsReply' = AbsReply
  BY <1>2, <1>4, <1>5, RequestStep
<1>7. QED
  BY <1>2, <1>3, <1>6, AbstractSteps

LEMMA UnderLockImplements ==
  ASSUME UploadInv, UploadInv', NEW r \in Reqs, UnderLock(r)
  PROVE  Abstract!Next \/ AbsStutter
<1>1. CASE LoadFails(r) \/ RejectSuffix(r) \/ RejectExpected(r) \/ WriteFails(r)
  <2>1. /\ pc[r] \in {"load", "decide", "write"} /\ Answer(r, "error", None)
        /\ UNCHANGED files
    BY <1>1 DEF LoadFails, RejectSuffix, RejectExpected, WriteFails, Consistent, diskVars, copies
  <2>2. Abstract!Fail(r)
    BY <2>1, AnswerFails DEF Answer
  <2>3. QED
    BY <2>2 DEF Abstract!Next
<1>2. CASE RejectMismatch(r)
  BY <1>2 DEF RejectMismatch, Exists, UploadInv, StoreInv, WorksOnCurrent
<1>3. CASE RejectStale(r)
  BY <1>3, StaleRefuses DEF Abstract!Next
<1>4. CASE Commit(r)
  BY <1>4, CommitApplies DEF Abstract!Next
<1>5. CASE ForcedLoad(r) \/ BeginWrite(r) \/ Reload(r) \/ ReloadFails(r)
  BY <1>5, SilentSteps
<1>6. QED
  BY <1>1, <1>2, <1>3, <1>4, <1>5 DEF UnderLock

LEMMA ReleaseReplies ==
  ASSUME UploadInv, UploadInv', NEW r \in Reqs, Release(r)
  PROVE  Abstract!Reply(r)
<1>1. /\ pc[r] = "release" /\ pc' = [pc EXCEPT ![r] = "done"]
      /\ UNCHANGED <<files, arguments, current, applied, status>>
  BY DEF Release, diskVars, copies, handlerVars
<1>2. TypeOK /\ pc'[r] = "done"
  BY <1>1 DEF UploadInv, LockInv, TypeOK
<1>3. AbsState'[r] = AbsState[r]
  BY <1>1, <1>2 DEF AbsState, State
<1>4. AbsState' = AbsState /\ AbsReply' = [AbsReply EXCEPT ![r] = status[r]]
  BY <1>1, <1>3, RequestStep
<1>5. \/ AbsState[r] = "applied" /\ status[r] \in {"ok", "error"}
      \/ AbsState[r] = "refused" /\ status[r] \in {"conflict", "error"}
      \/ AbsState[r] = "failed" /\ status[r] \in {"error"}
  BY <1>1, StateOf
<1>6. status[r] \in Abstract!Replies(r)
  BY <1>5 DEF Abstract!Replies, AbsState
<1>7. AbsReply[r] = None
  BY <1>1 DEF AbsReply
<1>8. QED
  BY <1>1, <1>4, <1>6, <1>7 DEF Abstract!Reply, AbsState, AbsReply, Abstract!arguments, arguments

LEMMA CrashImplements ==
  ASSUME UploadInv, UploadInv', Crash
  PROVE  Abstract!Crash
<1>1. UNCHANGED <<files, arguments, current, applied>>
  BY DEF Crash, diskVars, copies
<1>2. ASSUME NEW r \in Reqs
      PROVE  /\ State(r)' = IF State(r) = "pending" THEN "failed" ELSE State(r)
             /\ (IF pc[r] = "done" THEN status[r] ELSE None)' =
                  IF State(r) # "new" /\ (IF pc[r] = "done" THEN status[r] ELSE None) = None
                  THEN "error" ELSE IF pc[r] = "done" THEN status[r] ELSE None
  <2>1. RespondsTruly(r)
    BY DEF UploadInv, StoreInv
  <2>2. /\ pc'[r] = IF pc[r] = "idle" THEN "idle" ELSE "done"
        /\ status'[r] = IF pc[r] \in {"idle", "done"} THEN status[r] ELSE "error"
        /\ applied'[r] = applied[r] /\ current'[r] = current[r]
    BY DEF Crash
  <2>3. CASE pc[r] = "idle"
    BY <2>2, <2>3 DEF State
  <2>4. CASE pc[r] = "done"
    <3>1. State(r)' = State(r) /\ State(r) # "new" /\ status[r] # None
      BY <2>1, <2>2, <2>4 DEF State, RespondsTruly
    <3>2. State(r) # "pending"
      <4>1. /\ status[r] \in {"ok", "conflict", "error"}
            /\ status[r] = "ok" => applied[r] = TRUE
            /\ status[r] = "conflict" => current[r] # None
        BY <2>1, <3>1 DEF RespondsTruly, UploadInv, LockInv, TypeOK, Statuses
      <4>2. QED
        BY <2>4, <4>1 DEF State
    <3>3. QED
      BY <2>2, <2>4, <3>1, <3>2
  <2>5. CASE pc[r] \notin {"idle", "done"}
    <3>1. pc'[r] = "done" /\ status'[r] = "error"
      BY <2>2, <2>5
    <3>2. State(r)' = IF State(r) = "pending" THEN "failed" ELSE State(r)
      BY <2>2, <2>5, <3>1 DEF State
    <3>3. State(r) # "new"
      BY <2>5 DEF State
    <3>4. QED
      BY <2>5, <3>1, <3>2, <3>3
  <2>6. QED
    BY <2>3, <2>4, <2>5
<1>3. QED
  BY <1>1, <1>2 DEF Abstract!Crash, Abstract!arguments, arguments, AbsState, AbsReply

LEMMA StepImplements ==
  ASSUME AllowEdits = FALSE, UploadInv, [Next]_vars
  PROVE  Abstract!Next \/ AbsStutter
<1>1. UploadInv'
  BY UploadStep
<1>2. ASSUME NEW r \in Reqs, Arrive(r) \/ Handler(r) PROVE Abstract!Next \/ AbsStutter
  <2>1. CASE Arrive(r)
    BY <1>1, <2>1, ArriveSubmits DEF Abstract!Next
  <2>2. CASE Wake(r)
    BY <1>1, <2>2, SilentSteps
  <2>3. CASE UnderLock(r)
    BY <1>1, <2>3, UnderLockImplements
  <2>4. CASE Release(r)
    BY <1>1, <2>4, ReleaseReplies DEF Abstract!Next
  <2>5. QED
    BY <1>2, <2>1, <2>2, <2>3, <2>4, HandlerSteps
<1>3. CASE Poll \/ UNCHANGED vars
  <2>1. UNCHANGED <<files, arguments, pc, status, applied, current>>
    BY <1>3 DEF Poll, vars, diskVars, copies, handlerVars
  <2>2. AbsState' = AbsState /\ AbsReply' = AbsReply
    BY <2>1 DEF AbsState, AbsReply, State
  <2>3. QED
    BY <2>1, <2>2 DEF AbsStutter
<1>4. CASE Crash
  BY <1>1, <1>4, CrashImplements DEF Abstract!Next
<1>5. ASSUME NEW s \in Saves, OperatorEdit(s) PROVE FALSE
  BY <1>5 DEF OperatorEdit
<1>6. QED
  BY <1>2, <1>3, <1>4, <1>5 DEF Next

LEMMA InitImplements == Init => Abstract!Init
<1> SUFFICES ASSUME Init PROVE Abstract!Init
  OBVIOUS
<1>1. AbsState = [r \in Reqs |-> "new"] /\ AbsReply = [r \in Reqs |-> None]
  BY DEF Init, AbsState, AbsReply, State
<1>2. QED
  BY <1>1 DEF Init, Abstract!Init, AbsState, AbsReply, Abstract!Optional, Optional

\* While no operator edits saves/, the handlers with their locks, temporary files,
\* reads of the index, failures and crashes implement an atomic compare-and-swap
\* per save, for any number of saves and concurrent uploads (put_save).
THEOREM UploadsImplementStore == ASSUME AllowEdits = FALSE PROVE Spec => ImplementsStore
<1>1. UploadInv /\ [Next]_vars => [Abstract!Next]_(Abstract!vars)
  BY StepImplements DEF AbsStutter, Abstract!vars, AbsState, AbsReply, Abstract!arguments,
     arguments
<1>2. QED
  BY <1>1, InitImplements, UploadsInvariant, PTL DEF Spec, ImplementsStore, Abstract!Spec

-----------------------------------------------------------------------------
(* What the register promises                                                *)

\* A version that an applied upload replaced is only back because another one
\* brought it back.
RestoredBySomeone ==
  \A r1 \in Reqs :
    AbsState[r1] = "applied" /\ files[save[r1]] = expected[r1]
    => \E r3 \in Reqs : /\ AbsState[r3] = "applied" /\ save[r3] = save[r1]
                        /\ content[r3] = expected[r1]

RegisterType ==
  /\ files \in [Saves -> Optional] /\ save \in [Reqs -> Saves] /\ content \in [Reqs -> Contents]

RegisterInv == RegisterType /\ Abstract!NoLostUpdate /\ RestoredBySomeone

\* The state of a request is a function of the requests.
LEMMA StateDomain ==
  /\ DOMAIN AbsState = Reqs /\ AbsState = [r \in Reqs |-> AbsState[r]]
  BY DEF AbsState

\* Steps that apply nothing keep the invariant.
LEMMA NothingApplied ==
  ASSUME RegisterInv, UNCHANGED <<files, save, expected, content>>,
         \A q \in Reqs : (AbsState'[q] = "applied") = (AbsState[q] = "applied")
  PROVE  RegisterInv'
  BY DEF RegisterInv, RegisterType, Abstract!NoLostUpdate, RestoredBySomeone

LEMMA ApplyKeeps ==
  ASSUME RegisterInv, NEW r \in Reqs, Abstract!Apply(r)
  PROVE  RegisterInv'
<1>1. /\ files[save[r]] = expected[r] /\ files' = [files EXCEPT ![save[r]] = content[r]]
      /\ AbsState' = [AbsState EXCEPT ![r] = "applied"]
      /\ UNCHANGED <<save, expected, content>>
  BY DEF Abstract!Apply, Abstract!arguments
<1>2. \A q \in Reqs : (AbsState'[q] = "applied") = (q = r \/ AbsState[q] = "applied")
  BY <1>1, StateDomain
<1>3. Abstract!NoLostUpdate'
  BY <1>1, <1>2 DEF RegisterInv, Abstract!NoLostUpdate, RestoredBySomeone
<1>4. RestoredBySomeone'
  <2>1. SUFFICES ASSUME NEW r1 \in Reqs, AbsState'[r1] = "applied",
                        files'[save[r1]] = expected[r1]
                 PROVE  \E r3 \in Reqs : /\ AbsState'[r3] = "applied"
                                         /\ save[r3] = save[r1]
                                         /\ content[r3] = expected[r1]
    BY <1>1 DEF RestoredBySomeone
  <2>2. CASE save[r1] = save[r]
    BY <1>1, <1>2, <2>1, <2>2 DEF RegisterInv, RegisterType
  <2>3. CASE save[r1] # save[r]
    <3>1. files'[save[r1]] = files[save[r1]] /\ r1 # r
      BY <1>1, <2>3 DEF RegisterInv, RegisterType
    <3>2. QED
      BY <1>1, <1>2, <2>1, <3>1 DEF RegisterInv, RestoredBySomeone
  <2>4. QED
    BY <2>2, <2>3
<1>5. RegisterType'
  BY <1>1 DEF RegisterInv, RegisterType, Optional
<1>6. QED
  BY <1>3, <1>4, <1>5 DEF RegisterInv

LEMMA RegisterStep ==
  ASSUME RegisterInv, [Abstract!Next]_(Abstract!vars)
  PROVE  RegisterInv'
<1>1. ASSUME NEW r \in Reqs,
             Abstract!Submit(r) \/ Abstract!Refuse(r) \/ Abstract!Fail(r) \/ Abstract!Reply(r)
      PROVE  RegisterInv'
  <2>1. UNCHANGED <<files, save, expected, content>>
    BY <1>1 DEF Abstract!Submit, Abstract!Refuse, Abstract!Fail, Abstract!Reply, Abstract!arguments
  <2>2. \A q \in Reqs : (AbsState'[q] = "applied") = (AbsState[q] = "applied")
    BY <1>1, StateDomain DEF Abstract!Submit, Abstract!Refuse, Abstract!Fail, Abstract!Reply
  <2>3. QED
    BY <2>1, <2>2, NothingApplied
<1>2. CASE Abstract!Crash
  <2>1. /\ UNCHANGED <<files, save, expected, content>>
        /\ \A q \in Reqs : (AbsState'[q] = "applied") = (AbsState[q] = "applied")
    BY <1>2 DEF Abstract!Crash, Abstract!arguments
  <2>2. QED
    BY <2>1, NothingApplied
<1>3. CASE UNCHANGED Abstract!vars
  BY <1>3, NothingApplied DEF Abstract!vars
<1>4. QED
  BY <1>1, <1>2, <1>3, ApplyKeeps DEF Abstract!Next

\* Whatever the order in which uploads arrive, fail and crash, two of them based
\* on the same version are not both applied by the register SaveStore unless a
\* third one restored it.
THEOREM UpdatesAreNotLost == Abstract!Spec => []Abstract!NoLostUpdate
<1>1. Abstract!Init => RegisterInv
  BY DEF Abstract!Init, RegisterInv, RegisterType, Abstract!NoLostUpdate, RestoredBySomeone,
         Abstract!Optional, Optional
<1>2. RegisterInv => Abstract!NoLostUpdate
  BY DEF RegisterInv
<1>3. QED
  BY <1>1, <1>2, RegisterStep, PTL DEF Abstract!Spec

\* Two uploads based on the same version of a save are never both stored, unless
\* another upload restored that version in between.
THEOREM NoUpdateIsLost == ASSUME AllowEdits = FALSE PROVE Spec => []NoLostUpdate
<1>1. NoLostUpdate <=> Abstract!NoLostUpdate
  BY DEF NoLostUpdate
<1>2. QED
  BY <1>1, UpdatesAreNotLost, UploadsImplementStore, PTL DEF ImplementsStore

-----------------------------------------------------------------------------
(* One learned root per binding                                              *)

\* A save of the binding that is stored, or that a handler is writing.
Claimed(s) == files[s] # None \/ s \in parts

SingleClaimedRoot ==
  \A s, t \in Tree : Claimed(s) /\ Claimed(t) => RootOf[s] = RootOf[t]

\* Between its load and its decision a handler keeps the event loop, so it decides
\* on an index that is current; a .part file stands for the save it will become.
RootInv ==
  edits = 0 =>
    /\ \A r \in Reqs : pc[r] = "decide" => loop = r /\ index = files /\ indexParts = parts
    /\ \A r \in Reqs : pc[r] = "write" => save[r] \in parts
    /\ SingleRoot => SingleClaimedRoot

\* No step of the server removes a stored save.
LEMMA FilesStay ==
  ASSUME TypeOK, [Next]_vars, edits' = 0
  PROVE  edits = 0 /\ \A s \in Saves : files[s] # None => files'[s] # None
<1> USE DEF diskVars, copies, counters
<1>1. CASE files' = files /\ edits' = edits
  BY <1>1
<1>2. ASSUME NEW r \in Reqs, Commit(r) PROVE files' # files => edits' = edits /\
        \A s \in Saves : files[s] # None => files'[s] # None
  BY <1>2, NoneAssumption DEF Commit, TypeOK
<1>3. ASSUME NEW s \in Saves, OperatorEdit(s) PROVE FALSE
  BY <1>3 DEF OperatorEdit, TypeOK
<1>4. ASSUME NEW r \in Reqs, Arrive(r) \/ Handler(r), ~Commit(r)
      PROVE  files' = files /\ edits' = edits
  BY <1>4 DEF Arrive, Handler, Wake, ForcedLoad, LoadFails, RejectMismatch, RejectSuffix,
              RejectExpected, RejectStale, BeginWrite, WriteFails, Reload, ReloadFails,
              Release, Answer
<1>5. CASE Poll \/ Crash \/ UNCHANGED vars
  BY <1>5 DEF Poll, Crash, vars
<1>6. edits' = edits
  BY <1>3, <1>4, <1>5 DEF Next, Commit
<1>7. QED
  BY <1>2, <1>3, <1>4, <1>5, <1>6 DEF Next

\* The save that a handler starts to write has the root of all the others.
LEMMA BeginWriteRoot ==
  ASSUME TypeOK, RootInv, edits = 0, SingleRoot, NEW r \in Reqs, BeginWrite(r),
         Tree \subseteq Saves
  PROVE  SingleClaimedRoot'
<1>1. /\ pc[r] = "decide" /\ SuffixAllowed(r) /\ files' = files
      /\ parts' = parts \cup {save[r]}
  BY DEF BeginWrite, Accepts, Consistent
<1>2. index = files /\ indexParts = parts /\ SingleClaimedRoot
  BY <1>1 DEF RootInv
<1>3. ASSUME NEW t \in Tree, Claimed(t), save[r] \in Tree PROVE RootOf[t] = RootOf[save[r]]
  BY <1>1, <1>2, <1>3 DEF SuffixAllowed, IndexedRoots, Claimed
<1>4. QED
  BY <1>1, <1>2, <1>3 DEF SingleClaimedRoot, Claimed

\* SingleRoot does not come back by itself.
LEMMA SingleRootWas ==
  ASSUME TypeOK, [Next]_vars, edits' = 0, SingleRoot'
  PROVE  SingleRoot /\ edits = 0
  BY FilesStay, SavesAssumption DEF SingleRoot

LEMMA RootsKept ==
  ASSUME RootInv, edits = 0, SingleRoot, files' = files, parts' \subseteq parts
  PROVE  SingleClaimedRoot'
  BY DEF RootInv, SingleClaimedRoot, Claimed

\* Every step leaves the claimed saves under one root.
LEMMA RootStep ==
  ASSUME LockInv, RootInv, [Next]_vars, edits' = 0, SingleRoot
  PROVE  SingleClaimedRoot'
<1> USE DEF diskVars, copies
<1>1. TypeOK /\ edits = 0 /\ SingleClaimedRoot
  BY FilesStay DEF LockInv, RootInv
<1>2. ASSUME NEW r \in Reqs, Commit(r) PROVE SingleClaimedRoot'
  <2>1. /\ save[r] \in parts /\ parts' = parts \ {save[r]}
        /\ files' = [files EXCEPT ![save[r]] = content[r]]
    BY <1>1, <1>2 DEF Commit, RootInv
  <2>2. \A s \in Saves : Claimed(s)' => Claimed(s)
    BY <1>1, <2>1 DEF Claimed, TypeOK
  <2>3. QED
    BY <1>1, <2>2, SavesAssumption DEF SingleClaimedRoot
<1>3. ASSUME NEW r \in Reqs, BeginWrite(r) PROVE SingleClaimedRoot'
  BY <1>1, <1>3, BeginWriteRoot, SavesAssumption
<1>4. ASSUME NEW r \in Reqs, Arrive(r) \/ Handler(r), ~Commit(r), ~BeginWrite(r)
      PROVE  SingleClaimedRoot'
  <2>1. files' = files /\ parts' \subseteq parts
    BY <1>4 DEF Arrive, Handler, Wake, ForcedLoad, LoadFails, RejectMismatch, RejectSuffix,
                RejectExpected, RejectStale, WriteFails, RemovePart, Reload, ReloadFails,
                Release
  <2>2. QED
    BY <1>1, <2>1, RootsKept
<1>5. CASE Poll \/ Crash \/ UNCHANGED vars
  BY <1>1, <1>5, RootsKept DEF Poll, Crash, vars
<1>6. ASSUME NEW s \in Saves, OperatorEdit(s) PROVE FALSE
  BY <1>1, <1>6 DEF OperatorEdit
<1>7. QED
  BY <1>2, <1>3, <1>4, <1>5, <1>6 DEF Next

DecidesOnCurrent ==
  \A r \in Reqs : pc[r] = "decide" => loop = r /\ index = files /\ indexParts = parts

WritersHaveParts == \A r \in Reqs : pc[r] = "write" => save[r] \in parts

LEMMA UnderLockDecides ==
  ASSUME LockInv, DecidesOnCurrent, WritersHaveParts, NEW r \in Reqs, UnderLock(r)
  PROVE  DecidesOnCurrent' /\ WritersHaveParts'
<1> USE DEF diskVars, copies, indexVars
<1>1. /\ TypeOK /\ save' = save /\ pc[r] \in Holding
      /\ \E next \in Holding : pc' = [pc EXCEPT ![r] = next]
  BY UnderLockMoves DEF LockInv, arguments
<1>2. \A q \in Reqs : q # r => pc'[q] = pc[q]
  BY <1>1 DEF TypeOK
<1>3. pc'[r] = "decide" => ForcedLoad(r)
  BY <1>1
  DEF UnderLock, ForcedLoad, LoadFails, RejectMismatch, RejectSuffix, RejectExpected,
      RejectStale, BeginWrite, Commit, WriteFails, Reload, ReloadFails, Answer, Runs,
      Accepts, Consistent, TypeOK
<1>4. \A q \in Reqs : q # r => pc'[q] # "decide"
  BY <1>1, <1>2, <1>3, NoneAssumption
  DEF DecidesOnCurrent, UnderLock, ForcedLoad, LoadFails, RejectMismatch, RejectSuffix,
      RejectExpected, RejectStale, BeginWrite, Commit, WriteFails, Reload, ReloadFails,
      Accepts, Consistent
<1>5. DecidesOnCurrent'
  <2>1. ForcedLoad(r) => loop' = r /\ index' = files' /\ indexParts' = parts'
    BY DEF ForcedLoad, Reindex
  <2>2. QED
    BY <1>3, <1>4, <2>1 DEF DecidesOnCurrent
<1>6. ASSUME NEW q \in Reqs, pc'[q] = "write" PROVE save[q] \in parts'
  <2>1. CASE q = r
    BY <1>1, <1>6, <2>1
    DEF UnderLock, ForcedLoad, LoadFails, RejectMismatch, RejectSuffix, RejectExpected,
        RejectStale, BeginWrite, Commit, WriteFails, Reload, ReloadFails, Answer, Runs, TypeOK
  <2>2. CASE q # r
    <3>1. save[q] \in parts /\ save[q] # save[r]
      BY <1>1, <1>2, <1>6, <2>2, OthersElsewhere DEF WritersHaveParts, Holding
    <3>2. parts \ {save[r]} \subseteq parts'
      BY DEF UnderLock, ForcedLoad, LoadFails, RejectMismatch, RejectSuffix, RejectExpected,
             RejectStale, BeginWrite, Commit, WriteFails, RemovePart, Reload, ReloadFails
    <3>3. QED
      BY <3>1, <3>2
  <2>3. QED
    BY <2>1, <2>2
<1>7. QED
  BY <1>1, <1>5, <1>6 DEF WritersHaveParts

LEMMA DecidesStep ==
  ASSUME LockInv, DecidesOnCurrent, WritersHaveParts, [Next]_vars, edits' = edits
  PROVE  DecidesOnCurrent' /\ WritersHaveParts'
<1> USE DEF diskVars, copies, indexVars, arguments, DecidesOnCurrent, WritersHaveParts
<1>1. TypeOK
  BY DEF LockInv
<1>2. ASSUME NEW r \in Reqs, Arrive(r) \/ Wake(r) \/ Release(r)
      PROVE  DecidesOnCurrent' /\ WritersHaveParts'
  <2>1. UNCHANGED <<files, parts, index, indexParts, save>> /\ loop \in {r, None}
    BY <1>2 DEF Arrive, Wake, Release
  <2>2. \E next \in {"load", "wait", "done"} :
          pc' = [pc EXCEPT ![r] = next] /\ pc[r] # "decide"
    BY <1>2 DEF Arrive, Wake, Release, Runs
  <2>3. \A q \in Reqs : /\ pc'[q] = "write" => pc[q] = "write"
                        /\ pc'[q] = "decide" => pc[q] = "decide" /\ q # r
    BY <1>1, <2>2 DEF TypeOK
  <2>4. \A q \in Reqs : pc'[q] # "decide"
    BY <2>1, <2>3, NoneAssumption
  <2>5. QED
    BY <2>1, <2>3, <2>4
<1>3. CASE Crash
  <2>1. \A q \in Reqs : pc'[q] \in {"idle", "done"}
    BY <1>3 DEF Crash
  <2>2. QED
    BY <2>1
<1>4. CASE Poll \/ UNCHANGED vars
  BY <1>4 DEF Poll, Reindex, vars
<1>5. ASSUME NEW s \in Saves, OperatorEdit(s) PROVE FALSE
  BY <1>1, <1>5 DEF OperatorEdit, TypeOK
<1>6. QED
  BY <1>2, <1>3, <1>4, <1>5, HandlerSteps, UnderLockDecides DEF Next

LEMMA RootInvStep ==
  ASSUME LockInv, RootInv, [Next]_vars
  PROVE  RootInv'
<1>1. SUFFICES ASSUME edits' = 0 PROVE RootInv'
  BY DEF RootInv
<1>2. TypeOK /\ edits = 0
  BY <1>1, FilesStay DEF LockInv
<1>3. DecidesOnCurrent /\ WritersHaveParts
  BY <1>2 DEF RootInv, DecidesOnCurrent, WritersHaveParts
<1>4. DecidesOnCurrent' /\ WritersHaveParts'
  BY <1>1, <1>2, <1>3, DecidesStep
<1>5. SingleRoot' => SingleClaimedRoot'
  BY <1>1, <1>2, SingleRootWas, RootStep
<1>6. QED
  BY <1>4, <1>5 DEF RootInv, DecidesOnCurrent, WritersHaveParts

\* Until an operator edits saves/, uploads never put files of two learned roots
\* into one learned_tree binding, although two saves of it have different locks
\* and a handler writes after it has given up the event loop
\* (_validate_binding_suffix).
THEOREM RootsAreConsistent == Spec => RootsStayConsistent
<1>1. Init => RootInv
  BY DEF Init, RootInv, SingleRoot, SingleClaimedRoot, Claimed
<1>2. LockInv /\ RootInv /\ [Next]_vars => [edits' = 0 /\ SingleRoot => SingleRoot']_vars
  <2>1. SingleClaimedRoot' => SingleRoot'
    BY DEF SingleClaimedRoot, SingleRoot, Claimed
  <2>2. QED
    BY <2>1, RootStep
<1>3. QED
  BY <1>1, <1>2, LocksInvariant, RootInvStep, PTL DEF Spec, RootsStayConsistent
=============================================================================
