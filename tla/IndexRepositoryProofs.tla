------------------------ MODULE IndexRepositoryProofs ------------------------
(***************************************************************************)
(* Proofs about the server's index (IndexRepository): type correctness,    *)
(* exclusion of rebuilds, and that snapshots and what readers see only     *)
(* move forward, for any threads, roots, bounds and time windows.          *)
(***************************************************************************)
EXTENDS IndexRepository, TLAPS

LEMMA ZeroVersions == Zero \in Versions
  BY BoundsAssumption DEF Zero, Versions

LEMMA NoneNotVersions == None \notin Versions
  BY NoneAssumption DEF Versions

LEMMA LeaveType ==
  ASSUME TypeOK, NEW t \in Threads, NEW next \in PCs, Leave(t, next)
  PROVE  /\ lock' = None /\ pc' \in [Threads -> PCs]
         /\ reason' \in [Threads -> Reasons] /\ todo' \in [Threads -> SUBSET Roots]
         /\ sig' \in [Threads -> Versions] /\ built' \in [Threads -> Versions]
  BY ZeroVersions DEF Leave, TypeOK, Reasons

LEMMA StartRebuildType ==
  ASSUME TypeOK, NEW t \in Threads, NEW why \in Reasons, StartRebuild(t, why)
  PROVE  /\ lock' \in Threads /\ pc' \in [Threads -> PCs]
         /\ reason' \in [Threads -> Reasons] /\ todo' \in [Threads -> SUBSET Roots]
         /\ sig' \in [Threads -> Versions] /\ built' \in [Threads -> Versions]
         /\ UNCHANGED requestVars
  BY DEF StartRebuild, TypeOK, PCs, requestVars

LEMMA ForgetType ==
  ASSUME TypeOK, NEW t \in Threads, Forget(t)
  PROVE  /\ kind' \in [Threads -> CallKinds]
         /\ obsAge' \in [Threads -> 0 .. MaxDelay]
         /\ floor' \in [Threads -> Versions]
  BY ZeroVersions, BoundsAssumption DEF Forget, TypeOK, CallKinds

\* Every variable keeps its type: the data root, the cached snapshot and its
\* label, the ages, the lock and the locals of every load() in progress.
THEOREM TypeCorrect == Spec => []TypeOK
<1> USE BoundsAssumption, ThreadsAssumption
<1>0. AgeCap \in Nat
  BY DEF AgeCap
<1>1. Init => TypeOK
  <2> SUFFICES ASSUME Init PROVE TypeOK
    OBVIOUS
  <2>1. /\ disk \in Versions /\ valid \in [Roots -> BOOLEAN]
        /\ quiet \in [Roots -> 0 .. Stable]
    BY ZeroVersions DEF Init
  <2>2. /\ sig \in [Threads -> Versions] /\ built \in [Threads -> Versions]
        /\ obsAge \in [Threads -> 0 .. MaxDelay] /\ floor \in [Threads -> Versions]
    BY ZeroVersions DEF Init
  <2>3. /\ pc \in [Threads -> PCs] /\ kind \in [Threads -> CallKinds]
        /\ reason \in [Threads -> Reasons] /\ todo \in [Threads -> SUBSET Roots]
    BY DEF Init, PCs, CallKinds, Reasons
  <2>4. lastError \in BOOLEAN /\ signedAfter \in BOOLEAN
    BY DEF Init
  <2>5. /\ pendingAge \in 0 .. AgeCap /\ loadedAge \in 0 .. AgeCap
        /\ lock \in Threads \cup {None}
        /\ cache \in Versions \cup {None} /\ payload \in Versions \cup {None}
        /\ sourceSig \in Versions \cup {None} /\ pendingSig \in Versions \cup {None}
    BY <1>0 DEF Init
  <2>6. QED
    BY <2>1, <2>2, <2>3, <2>4, <2>5 DEF TypeOK
<1>2. TypeOK /\ [Next]_vars => TypeOK'
  <2> SUFFICES ASSUME TypeOK, [Next]_vars PROVE TypeOK'
    OBVIOUS
  <2> USE DEF repoVars, diskVars, snapshotVars, labelVars, pendingVars,
              threadVars, workVars, requestVars
  <2>1. ASSUME NEW r \in Roots, DiskChange(r) PROVE TypeOK'
    BY <2>1 DEF DiskChange, TypeOK, Versions
  <2>2. CASE Tick
    BY <2>2 DEF Tick, TypeOK, Timed, Capped, AgeCap
  <2>3. ASSUME NEW t \in Threads, NEW k \in CallKinds, Begin(t, k) PROVE TypeOK'
    <3>1. FloorOf(k) \in Versions
      BY ZeroVersions DEF FloorOf, TypeOK
    <3>2. QED
      BY <2>3, <3>1 DEF Begin, TypeOK, PCs
  <2>4. ASSUME NEW t \in Threads, NEW r \in Roots, NEW next \in {"lock", "finish"},
               ReadSignature(t, r, next) PROVE TypeOK'
    <3>1. sig' \in [Threads -> Versions]
      BY <2>4 DEF ReadSignature, TypeOK, Versions
    <3>2. QED
      BY <2>4, <3>1 DEF ReadSignature, TypeOK, PCs
  <2>5. ASSUME NEW t \in Threads, LoadForced(t) \/ LoadInitial(t) \/ LoadCached(t)
        PROVE  TypeOK'
    BY <2>5, StartRebuildType, LeaveType
    DEF LoadForced, LoadInitial, LoadCached, TypeOK, Reasons, PCs
  <2>6. ASSUME NEW t \in Threads, LoadCheck(t) PROVE TypeOK'
    <3>1. pendingSig' \in Versions \cup {None} /\ pendingAge' \in 0 .. AgeCap
      BY <2>6 DEF LoadCheck, ObservePending, TypeOK, AgeCap
    <3>2. QED
      BY <2>6, <3>1, StartRebuildType, LeaveType DEF LoadCheck, TypeOK, Reasons, PCs
  <2>7. ASSUME NEW t \in Threads, NEW r \in Roots, BuildRoot(t, r) PROVE TypeOK'
    <3>1. built' \in [Threads -> Versions]
      BY <2>7 DEF BuildRoot, TypeOK, Versions
    <3>2. QED
      BY <2>7, <3>1 DEF BuildRoot, TypeOK
  <2>8. ASSUME NEW t \in Threads, PublishCache(t) PROVE TypeOK'
    BY <2>8, ZeroVersions DEF PublishCache, TypeOK, PCs
  <2>9. ASSUME NEW t \in Threads, PublishPayload(t) PROVE TypeOK'
    BY <2>9 DEF PublishPayload, Rendered, TypeOK, PCs
  <2>10. ASSUME NEW t \in Threads, FinishRebuild(t) PROVE TypeOK'
    <3>1. signedAfter' \in BOOLEAN
      BY <2>10 DEF FinishRebuild, SignsAfter
    <3>2. sourceSig' \in Versions
      BY <2>10 DEF FinishRebuild, TypeOK
    <3>3. lastError' \in BOOLEAN
      BY <2>10 DEF FinishRebuild
    <3>4. /\ pendingAge' \in 0 .. AgeCap /\ loadedAge' \in 0 .. AgeCap
          /\ pendingSig' = None
      BY <1>0, <2>10 DEF FinishRebuild
    <3>5. Leave(t, "return") /\ "return" \in PCs
      BY <2>10 DEF FinishRebuild, PCs
    <3>6. UNCHANGED <<diskVars, snapshotVars, requestVars>>
      BY <2>10 DEF FinishRebuild
    <3>7. QED
      BY <3>1, <3>2, <3>3, <3>4, <3>5, <3>6, LeaveType DEF TypeOK
  <2>11. ASSUME NEW t \in Threads, RebuildRaises(t) PROVE TypeOK'
    BY <2>11, LeaveType, ForgetType DEF RebuildRaises, TypeOK, PCs
  <2>12. ASSUME NEW t \in Threads, RebuildKeepsCache(t) PROVE TypeOK'
    BY <2>12, LeaveType DEF RebuildKeepsCache, TypeOK, AgeCap, PCs
  <2>13. ASSUME NEW t \in Threads, Return(t) \/ ReturnToPayload(t) \/ Serve(t)
         PROVE  TypeOK'
    BY <2>13, ForgetType DEF Return, ReturnToPayload, Serve, TypeOK, PCs
  <2>14. CASE UNCHANGED vars
    BY <2>14 DEF vars, TypeOK
  <2>15. QED
    BY <2>1, <2>2, <2>3, <2>4, <2>5, <2>6, <2>7, <2>8, <2>9, <2>10, <2>11, <2>12,
       <2>13, <2>14, CallsAssumption
    DEF Next, Step, Poll, Call, WalkRoot, SignRoot, Threads, CallKinds
<1>3. QED
  BY <1>1, <1>2, PTL DEF Spec

-----------------------------------------------------------------------------
(* The inductive invariant, one lemma per group of actions.                  *)

LEMMA ZeroIsLeast ==
  ASSUME NEW v \in Versions
  PROVE  AtLeast(v, Zero) /\ AtLeast(v, v)
  BY BoundsAssumption DEF Versions, Zero, AtLeast

LEMMA AtLeastTransitive ==
  ASSUME NEW u \in Versions, NEW v \in Versions, NEW w \in Versions,
         AtLeast(u, v), AtLeast(v, w)
  PROVE  AtLeast(u, w)
  BY BoundsAssumption DEF Versions, AtLeast

LEMMA PayloadBehindDisk ==
  ASSUME TypeOK, SnapshotInv, payload # None
  PROVE  payload \in Versions /\ cache \in Versions /\ AtLeast(disk, payload)
  BY AtLeastTransitive DEF TypeOK, SnapshotInv

\* With the lock free nothing is half published.
LEMMA FreeLockAgrees ==
  ASSUME TypeOK, RebuildExclusive, SnapshotInv, lock = None, cache # None
  PROVE  /\ payload = cache /\ sourceSig # None
         /\ IF signedAfter THEN AtLeast(sourceSig, cache)
                           ELSE AtLeast(cache, sourceSig)
  BY ThreadsAssumption DEF TypeOK, RebuildExclusive, SnapshotInv

LEMMA DiskStep ==
  ASSUME IInv, TypeOK', NEW r \in Roots, DiskChange(r)
  PROVE  IInv'
<1> USE BoundsAssumption, ThreadsAssumption, NoneNotVersions
    DEF repoVars, diskVars, snapshotVars, labelVars, pendingVars,
        threadVars, workVars, requestVars, IInv, TypeOK, Publishing, DiskChange
<1>1. RebuildExclusive'
  BY DEF RebuildExclusive
<1>2. SnapshotInv'
  <2>1. AtLeast(disk', disk)
    BY DEF AtLeast, Versions
  <2>2. cache # None => AtLeast(disk', cache)
    BY <2>1, AtLeastTransitive DEF SnapshotInv
  <2>3. QED
    BY <2>2 DEF SnapshotInv
<1>3. ASSUME NEW u \in Threads PROVE BuildInv(u)'
  BY DEF BuildInv
<1>4. ASSUME NEW u \in Threads PROVE PublishInv(u)'
  BY DEF PublishInv
<1>5. ASSUME NEW u \in Threads PROVE ReadInv(u)'
  <2>1. (AtLeast(disk, sig[u]) /\ AtLeast(disk, built[u]) /\ AtLeast(disk, floor[u]))'
    BY DEF ReadInv, AtLeast, Versions, Zero
  <2>2. (kind[u] # "forced" =>
           IF payload = None THEN floor[u] = Zero ELSE AtLeast(payload, floor[u]))'
    BY DEF ReadInv
  <2>3. (pc[u] \in {"return", "serve"} =>
           payload # None /\ AtLeast(payload, floor[u]))'
    BY DEF ReadInv
  <2>4. QED
    BY <2>1, <2>2, <2>3 DEF ReadInv
<1>6. QED
  BY <1>1, <1>2, <1>3, <1>4, <1>5

LEMMA TickStep ==
  ASSUME IInv, TypeOK', Tick
  PROVE  IInv'
<1> USE BoundsAssumption, ThreadsAssumption, NoneNotVersions
    DEF repoVars, diskVars, snapshotVars, labelVars, pendingVars,
        threadVars, workVars, requestVars, IInv, TypeOK, Publishing, Tick, Timed
<1>1. RebuildExclusive'
  BY DEF RebuildExclusive
<1>2. SnapshotInv'
  BY DEF SnapshotInv
<1>3. ASSUME NEW u \in Threads PROVE BuildInv(u)'
  BY DEF BuildInv
<1>4. ASSUME NEW u \in Threads PROVE PublishInv(u)'
  BY DEF PublishInv
<1>5. ASSUME NEW u \in Threads PROVE ReadInv(u)'
  <2>1. (AtLeast(disk, sig[u]) /\ AtLeast(disk, built[u]) /\ AtLeast(disk, floor[u]))'
    BY DEF ReadInv, AtLeast, Versions, Zero
  <2>2. (kind[u] # "forced" =>
           IF payload = None THEN floor[u] = Zero ELSE AtLeast(payload, floor[u]))'
    BY DEF ReadInv
  <2>3. (pc[u] \in {"return", "serve"} =>
           payload # None /\ AtLeast(payload, floor[u]))'
    BY DEF ReadInv
  <2>4. QED
    BY <2>1, <2>2, <2>3 DEF ReadInv
<1>6. QED
  BY <1>1, <1>2, <1>3, <1>4, <1>5

LEMMA BeginStep ==
  ASSUME IInv, TypeOK', NEW t \in Threads, NEW k \in CallKinds, Begin(t, k)
  PROVE  IInv'
<1> USE BoundsAssumption, ThreadsAssumption, NoneNotVersions
    DEF repoVars, diskVars, snapshotVars, labelVars, pendingVars,
        threadVars, workVars, requestVars, IInv, TypeOK, Publishing, Begin, FloorOf
<1>1. RebuildExclusive'
  BY DEF RebuildExclusive
<1>2. SnapshotInv'
  BY DEF SnapshotInv
<1>3. ASSUME NEW u \in Threads PROVE BuildInv(u)'
  BY DEF BuildInv
<1>4. ASSUME NEW u \in Threads PROVE PublishInv(u)'
  BY DEF PublishInv
<1>5. ASSUME NEW u \in Threads PROVE ReadInv(u)'
  <2>1. (AtLeast(disk, sig[u]) /\ AtLeast(disk, built[u]) /\ AtLeast(disk, floor[u]))'
    <3>1. AtLeast(disk, FloorOf(k))
      BY PayloadBehindDisk, ZeroIsLeast DEF FloorOf
    <3>2. QED
      BY <3>1 DEF ReadInv
  <2>2. (kind[u] # "forced" =>
           IF payload = None THEN floor[u] = Zero ELSE AtLeast(payload, floor[u]))'
    <3>1. k # "forced" /\ payload # None => AtLeast(payload, FloorOf(k))
      BY ZeroIsLeast DEF FloorOf
    <3>2. QED
      BY <3>1 DEF ReadInv
  <2>3. (pc[u] \in {"return", "serve"} =>
           payload # None /\ AtLeast(payload, floor[u]))'
    BY DEF ReadInv
  <2>4. QED
    BY <2>1, <2>2, <2>3 DEF ReadInv
<1>6. QED
  BY <1>1, <1>2, <1>3, <1>4, <1>5

LEMMA WalkStep ==
  ASSUME IInv, TypeOK', NEW t \in Threads, NEW r \in Roots, WalkRoot(t, r)
  PROVE  IInv'
<1> USE BoundsAssumption, ThreadsAssumption, NoneNotVersions
    DEF repoVars, diskVars, snapshotVars, labelVars, pendingVars,
        threadVars, workVars, requestVars, IInv, TypeOK, Publishing, WalkRoot, ReadSignature
<1>1. RebuildExclusive'
  BY DEF RebuildExclusive
<1>2. SnapshotInv'
  BY DEF SnapshotInv
<1>3. ASSUME NEW u \in Threads PROVE BuildInv(u)'
  BY DEF BuildInv
<1>4. ASSUME NEW u \in Threads PROVE PublishInv(u)'
  BY DEF PublishInv
<1>5. ASSUME NEW u \in Threads PROVE ReadInv(u)'
  <2>1. (AtLeast(disk, sig[u]) /\ AtLeast(disk, built[u]) /\ AtLeast(disk, floor[u]))'
    BY DEF ReadInv, AtLeast, Versions, Zero
  <2>2. (kind[u] # "forced" =>
           IF payload = None THEN floor[u] = Zero ELSE AtLeast(payload, floor[u]))'
    BY DEF ReadInv
  <2>3. (pc[u] \in {"return", "serve"} =>
           payload # None /\ AtLeast(payload, floor[u]))'
    BY DEF ReadInv
  <2>4. QED
    BY <2>1, <2>2, <2>3 DEF ReadInv
<1>6. QED
  BY <1>1, <1>2, <1>3, <1>4, <1>5

LEMMA SignStep ==
  ASSUME IInv, TypeOK', NEW t \in Threads, NEW r \in Roots, SignRoot(t, r)
  PROVE  IInv'
<1> USE BoundsAssumption, ThreadsAssumption, NoneNotVersions
    DEF repoVars, diskVars, snapshotVars, labelVars, pendingVars,
        threadVars, workVars, requestVars, IInv, TypeOK, Publishing, SignRoot, ReadSignature
<1>1. RebuildExclusive'
  BY DEF RebuildExclusive
<1>2. SnapshotInv'
  BY DEF SnapshotInv
<1>3. ASSUME NEW u \in Threads PROVE BuildInv(u)'
  BY DEF BuildInv
<1>4. ASSUME NEW u \in Threads PROVE PublishInv(u)'
  <2>1. CASE u # t
    BY <2>1 DEF PublishInv
  <2>2. CASE u = t
    <3>1. /\ cache \in Versions /\ AtLeast(disk, cache) /\ payload = cache
          /\ kind[t] # "check"
          /\ kind[t] = "forced" => AtLeast(cache, floor[t])
          /\ \A q \in Roots \ todo[t] : sig[t][q] >= cache[q]
      BY DEF PublishInv, SnapshotInv
    <3>2. \A q \in Roots \ todo'[t] : sig'[t][q] >= cache[q]
      BY <3>1 DEF AtLeast, Versions
    <3>3. pc'[t] = "finish" => AtLeast(sig'[t], cache)
      BY <3>2 DEF AtLeast
    <3>4. QED
      BY <2>2, <3>1, <3>2, <3>3 DEF PublishInv
  <2>3. QED
    BY <2>1, <2>2
<1>5. ASSUME NEW u \in Threads PROVE ReadInv(u)'
  <2>1. (AtLeast(disk, sig[u]) /\ AtLeast(disk, built[u]) /\ AtLeast(disk, floor[u]))'
    BY DEF ReadInv, AtLeast, Versions, Zero
  <2>2. (kind[u] # "forced" =>
           IF payload = None THEN floor[u] = Zero ELSE AtLeast(payload, floor[u]))'
    BY DEF ReadInv
  <2>3. (pc[u] \in {"return", "serve"} =>
           payload # None /\ AtLeast(payload, floor[u]))'
    BY DEF ReadInv
  <2>4. QED
    BY <2>1, <2>2, <2>3 DEF ReadInv
<1>6. QED
  BY <1>1, <1>2, <1>3, <1>4, <1>5

LEMMA LoadStep ==
  ASSUME IInv, TypeOK', NEW t \in Threads, LoadForced(t) \/ LoadInitial(t) \/ LoadCached(t)
  PROVE  IInv'
<1> USE BoundsAssumption, ThreadsAssumption, NoneNotVersions
    DEF repoVars, diskVars, snapshotVars, labelVars, pendingVars,
        threadVars, workVars, requestVars, IInv, TypeOK, Publishing, LoadForced, LoadInitial, LoadCached, Enter, StartRebuild, Leave
<1>1. RebuildExclusive'
  BY DEF RebuildExclusive
<1>2. SnapshotInv'
  BY DEF SnapshotInv
<1>3. ASSUME NEW u \in Threads PROVE BuildInv(u)'
  BY DEF BuildInv
<1>4. ASSUME NEW u \in Threads PROVE PublishInv(u)'
  BY DEF PublishInv
<1>5. ASSUME NEW u \in Threads PROVE ReadInv(u)'
  <2>1. (AtLeast(disk, sig[u]) /\ AtLeast(disk, built[u]) /\ AtLeast(disk, floor[u]))'
    BY DEF ReadInv, AtLeast, Versions, Zero
  <2>2. (kind[u] # "forced" =>
           IF payload = None THEN floor[u] = Zero ELSE AtLeast(payload, floor[u]))'
    BY DEF ReadInv
  <2>3. (pc[u] \in {"return", "serve"} =>
           payload # None /\ AtLeast(payload, floor[u]))'
    <3>1. LoadCached(t) => payload # None /\ AtLeast(payload, floor[t])
      BY FreeLockAgrees DEF ReadInv
    <3>2. QED
      BY <3>1 DEF ReadInv
  <2>4. QED
    BY <2>1, <2>2, <2>3 DEF ReadInv
<1>6. QED
  BY <1>1, <1>2, <1>3, <1>4, <1>5

LEMMA CheckStep ==
  ASSUME IInv, TypeOK', NEW t \in Threads, LoadCheck(t)
  PROVE  IInv'
<1> USE BoundsAssumption, ThreadsAssumption, NoneNotVersions
    DEF repoVars, diskVars, snapshotVars, labelVars, pendingVars,
        threadVars, workVars, requestVars, IInv, TypeOK, Publishing, LoadCheck, Enter, ObservePending, StartRebuild, Leave
<1>1. RebuildExclusive'
  BY DEF RebuildExclusive
<1>2. SnapshotInv'
  BY DEF SnapshotInv
<1>3. ASSUME NEW u \in Threads PROVE BuildInv(u)'
  BY DEF BuildInv
<1>4. ASSUME NEW u \in Threads PROVE PublishInv(u)'
  BY DEF PublishInv
<1>5. ASSUME NEW u \in Threads PROVE ReadInv(u)'
  <2>1. (AtLeast(disk, sig[u]) /\ AtLeast(disk, built[u]) /\ AtLeast(disk, floor[u]))'
    BY DEF ReadInv, AtLeast, Versions, Zero
  <2>2. (kind[u] # "forced" =>
           IF payload = None THEN floor[u] = Zero ELSE AtLeast(payload, floor[u]))'
    BY DEF ReadInv
  <2>3. (pc[u] \in {"return", "serve"} =>
           payload # None /\ AtLeast(payload, floor[u]))'
    <3>1. payload # None /\ AtLeast(payload, floor[t])
      BY FreeLockAgrees DEF ReadInv
    <3>2. QED
      BY <3>1 DEF ReadInv
  <2>4. QED
    BY <2>1, <2>2, <2>3 DEF ReadInv
<1>6. QED
  BY <1>1, <1>2, <1>3, <1>4, <1>5

LEMMA BuildStep ==
  ASSUME IInv, TypeOK', NEW t \in Threads, NEW r \in Roots, BuildRoot(t, r)
  PROVE  IInv'
<1> USE BoundsAssumption, ThreadsAssumption, NoneNotVersions
    DEF repoVars, diskVars, snapshotVars, labelVars, pendingVars,
        threadVars, workVars, requestVars, IInv, TypeOK, Publishing, BuildRoot
<1>1. RebuildExclusive'
  BY DEF RebuildExclusive
<1>2. SnapshotInv'
  BY DEF SnapshotInv
<1>3. ASSUME NEW u \in Threads PROVE BuildInv(u)'
  <2>1. CASE u # t
    BY <2>1 DEF BuildInv
  <2>2. CASE u = t
    <3>1. /\ cache # None => disk[r] >= cache[r]
          /\ disk[r] >= floor[t][r] /\ disk[r] >= sig[t][r]
      BY DEF SnapshotInv, ReadInv, AtLeast
    <3>2. built'[t][r] = disk[r] /\ \A q \in Roots \ {r} : built'[t][q] = built[t][q]
      BY DEF Versions
    <3>3. QED
      BY <2>2, <3>1, <3>2 DEF BuildInv
  <2>3. QED
    BY <2>1, <2>2
<1>4. ASSUME NEW u \in Threads PROVE PublishInv(u)'
  BY DEF PublishInv
<1>5. ASSUME NEW u \in Threads PROVE ReadInv(u)'
  <2>1. (AtLeast(disk, sig[u]) /\ AtLeast(disk, built[u]) /\ AtLeast(disk, floor[u]))'
    BY DEF ReadInv, AtLeast, Versions, Zero
  <2>2. (kind[u] # "forced" =>
           IF payload = None THEN floor[u] = Zero ELSE AtLeast(payload, floor[u]))'
    BY DEF ReadInv
  <2>3. (pc[u] \in {"return", "serve"} =>
           payload # None /\ AtLeast(payload, floor[u]))'
    BY DEF ReadInv
  <2>4. QED
    BY <2>1, <2>2, <2>3 DEF ReadInv
<1>6. QED
  BY <1>1, <1>2, <1>3, <1>4, <1>5

LEMMA CacheStep ==
  ASSUME IInv, TypeOK', NEW t \in Threads, PublishCache(t)
  PROVE  IInv'
<1> USE BoundsAssumption, ThreadsAssumption, NoneNotVersions
    DEF repoVars, diskVars, snapshotVars, labelVars, pendingVars,
        threadVars, workVars, requestVars, IInv, TypeOK, Publishing, PublishCache
<1>1. RebuildExclusive'
  BY DEF RebuildExclusive
<1>0. /\ cache' = built[t] /\ lock = t /\ pc[t] = "build" /\ todo[t] = {}
      /\ floor' = floor /\ sig' = sig /\ kind' = kind
  BY DEF RebuildExclusive
<1>a. cache # None => AtLeast(built[t], cache)
  BY <1>0 DEF BuildInv, AtLeast
<1>b. kind[t] = "forced" => AtLeast(built[t], floor[t])
  BY <1>0 DEF BuildInv, AtLeast
<1>c. kind[t] = "check" => AtLeast(built[t], sig[t])
  BY <1>0 DEF BuildInv, AtLeast
<1>2. SnapshotInv'
  <2>1. cache # None => AtLeast(cache', cache)
    BY <1>0, <1>a
  <2>2. payload # None => AtLeast(cache', payload)
    BY <2>1, AtLeastTransitive DEF SnapshotInv
  <2>3. AtLeast(disk, cache') /\ cache' # None
    BY <1>0 DEF ReadInv
  <2>4. pc'[t] \in Publishing
    OBVIOUS
  <2>5. QED
    BY <2>2, <2>3, <2>4 DEF SnapshotInv
<1>3. ASSUME NEW u \in Threads PROVE BuildInv(u)'
  BY <1>0 DEF BuildInv, RebuildExclusive
<1>4. ASSUME NEW u \in Threads PROVE PublishInv(u)'
  <2>1. CASE u # t
    BY <2>1, <1>0 DEF PublishInv, RebuildExclusive
  <2>2. CASE u = t
    BY <2>2, <1>0, <1>b, <1>c DEF PublishInv
  <2>3. QED
    BY <2>1, <2>2
<1>5. ASSUME NEW u \in Threads PROVE ReadInv(u)'
  <2>1. (AtLeast(disk, sig[u]) /\ AtLeast(disk, built[u]) /\ AtLeast(disk, floor[u]))'
    BY DEF ReadInv, AtLeast, Versions, Zero
  <2>2. (kind[u] # "forced" =>
           IF payload = None THEN floor[u] = Zero ELSE AtLeast(payload, floor[u]))'
    BY DEF ReadInv
  <2>3. (pc[u] \in {"return", "serve"} =>
           payload # None /\ AtLeast(payload, floor[u]))'
    BY DEF ReadInv
  <2>4. QED
    BY <2>1, <2>2, <2>3 DEF ReadInv
<1>6. QED
  BY <1>1, <1>2, <1>3, <1>4, <1>5

LEMMA PayloadStep ==
  ASSUME IInv, TypeOK', NEW t \in Threads, PublishPayload(t)
  PROVE  IInv'
<1> USE BoundsAssumption, ThreadsAssumption, NoneNotVersions
    DEF repoVars, diskVars, snapshotVars, labelVars, pendingVars,
        threadVars, workVars, requestVars, IInv, TypeOK, Publishing, PublishPayload, Rendered, SignsAfter
<1>1. RebuildExclusive'
  BY DEF RebuildExclusive
<1>0. payload' = cache /\ cache \in Versions
  BY DEF PublishInv
<1>2. SnapshotInv'
  <2>1. AtLeast(cache, cache)
    BY <1>0, ZeroIsLeast
  <2>2. pc'[t] \in Publishing
    BY DEF SignsAfter
  <2>3. QED
    BY <1>0, <2>1, <2>2 DEF SnapshotInv
<1>3. ASSUME NEW u \in Threads PROVE BuildInv(u)'
  BY DEF BuildInv
<1>4. ASSUME NEW u \in Threads PROVE PublishInv(u)'
  BY DEF PublishInv
<1>5. ASSUME NEW u \in Threads PROVE ReadInv(u)'
  <2>1. (AtLeast(disk, sig[u]) /\ AtLeast(disk, built[u]) /\ AtLeast(disk, floor[u]))'
    BY DEF ReadInv, AtLeast, Versions, Zero
  <2>2. (kind[u] # "forced" =>
           IF payload = None THEN floor[u] = Zero ELSE AtLeast(payload, floor[u]))'
    <3>1. kind[u] # "forced" => AtLeast(cache, floor[u])
      BY <1>0, ZeroIsLeast, AtLeastTransitive DEF ReadInv, SnapshotInv
    <3>2. QED
      BY <1>0, <3>1
  <2>3. (pc[u] \in {"return", "serve"} =>
           payload # None /\ AtLeast(payload, floor[u]))'
    <3>1. pc[u] \in {"return", "serve"} => AtLeast(cache, floor[u])
      BY <1>0, AtLeastTransitive DEF ReadInv, SnapshotInv
    <3>2. QED
      BY <1>0, <3>1
  <2>4. QED
    BY <2>1, <2>2, <2>3 DEF ReadInv
<1>6. QED
  BY <1>1, <1>2, <1>3, <1>4, <1>5

LEMMA FinishStep ==
  ASSUME IInv, TypeOK', NEW t \in Threads, FinishRebuild(t)
  PROVE  IInv'
<1> USE BoundsAssumption, ThreadsAssumption, NoneNotVersions
    DEF repoVars, diskVars, snapshotVars, labelVars, pendingVars,
        threadVars, workVars, requestVars, IInv, TypeOK, Publishing, FinishRebuild, SignsAfter, Leave
<1>1. RebuildExclusive'
  BY DEF RebuildExclusive
<1>2. SnapshotInv'
  <2>1. payload = cache /\ sig[t] # None
    BY DEF PublishInv
  <2>2. IF kind[t] # "check" THEN AtLeast(sig[t], cache) ELSE AtLeast(cache, sig[t])
    BY DEF PublishInv
  <2>3. QED
    BY <2>1, <2>2 DEF SnapshotInv
<1>3. ASSUME NEW u \in Threads PROVE BuildInv(u)'
  BY DEF BuildInv
<1>4. ASSUME NEW u \in Threads PROVE PublishInv(u)'
  BY DEF PublishInv
<1>5. ASSUME NEW u \in Threads PROVE ReadInv(u)'
  <2>1. (AtLeast(disk, sig[u]) /\ AtLeast(disk, built[u]) /\ AtLeast(disk, floor[u]))'
    BY DEF ReadInv, AtLeast, Versions, Zero
  <2>2. (kind[u] # "forced" =>
           IF payload = None THEN floor[u] = Zero ELSE AtLeast(payload, floor[u]))'
    BY DEF ReadInv
  <2>3. (pc[u] \in {"return", "serve"} =>
           payload # None /\ AtLeast(payload, floor[u]))'
    <3>1. payload # None /\ AtLeast(payload, floor[t])
      BY DEF ReadInv, PublishInv
    <3>2. QED
      BY <3>1 DEF ReadInv
  <2>4. QED
    BY <2>1, <2>2, <2>3 DEF ReadInv
<1>6. QED
  BY <1>1, <1>2, <1>3, <1>4, <1>5

LEMMA FailStep ==
  ASSUME IInv, TypeOK', NEW t \in Threads, RebuildRaises(t) \/ RebuildKeepsCache(t)
  PROVE  IInv'
<1> USE BoundsAssumption, ThreadsAssumption, NoneNotVersions
    DEF repoVars, diskVars, snapshotVars, labelVars, pendingVars,
        threadVars, workVars, requestVars, IInv, TypeOK, Publishing, RebuildRaises, RebuildKeepsCache, BuildBreaks, Leave, Forget
<1>1. RebuildExclusive'
  BY DEF RebuildExclusive
<1>2. SnapshotInv'
  BY DEF SnapshotInv
<1>3. ASSUME NEW u \in Threads PROVE BuildInv(u)'
  BY DEF BuildInv
<1>4. ASSUME NEW u \in Threads PROVE PublishInv(u)'
  BY DEF PublishInv
<1>5. ASSUME NEW u \in Threads PROVE ReadInv(u)'
  <2>1. (AtLeast(disk, sig[u]) /\ AtLeast(disk, built[u]) /\ AtLeast(disk, floor[u]))'
    BY ZeroIsLeast DEF ReadInv
  <2>2. (kind[u] # "forced" =>
           IF payload = None THEN floor[u] = Zero ELSE AtLeast(payload, floor[u]))'
    BY ZeroIsLeast DEF ReadInv
  <2>3. (pc[u] \in {"return", "serve"} =>
           payload # None /\ AtLeast(payload, floor[u]))'
    <3>1. CASE RebuildRaises(t)
      BY <3>1 DEF ReadInv
    <3>2. CASE RebuildKeepsCache(t)
      <4>1. cache # None /\ kind[t] = "check"
        BY <3>2 DEF BuildInv
      <4>2. payload = cache
        BY <4>1, <3>2 DEF RebuildExclusive, SnapshotInv
      <4>3. QED
        BY <3>2, <4>1, <4>2 DEF ReadInv
    <3>3. QED
      BY <3>1, <3>2
  <2>4. QED
    BY <2>1, <2>2, <2>3 DEF ReadInv
<1>6. QED
  BY <1>1, <1>2, <1>3, <1>4, <1>5

LEMMA ReturnStep ==
  ASSUME IInv, TypeOK', NEW t \in Threads, Return(t) \/ ReturnToPayload(t) \/ Serve(t)
  PROVE  IInv'
<1> USE BoundsAssumption, ThreadsAssumption, NoneNotVersions
    DEF repoVars, diskVars, snapshotVars, labelVars, pendingVars,
        threadVars, workVars, requestVars, IInv, TypeOK, Publishing, Return, ReturnToPayload, Serve, Forget
<1>1. RebuildExclusive'
  BY DEF RebuildExclusive
<1>2. SnapshotInv'
  BY DEF SnapshotInv
<1>3. ASSUME NEW u \in Threads PROVE BuildInv(u)'
  BY DEF BuildInv
<1>4. ASSUME NEW u \in Threads PROVE PublishInv(u)'
  BY DEF PublishInv
<1>5. ASSUME NEW u \in Threads PROVE ReadInv(u)'
  <2>1. (AtLeast(disk, sig[u]) /\ AtLeast(disk, built[u]) /\ AtLeast(disk, floor[u]))'
    BY DEF ReadInv, AtLeast, Versions, Zero
  <2>2. (kind[u] # "forced" =>
           IF payload = None THEN floor[u] = Zero ELSE AtLeast(payload, floor[u]))'
    BY ZeroIsLeast DEF ReadInv
  <2>3. (pc[u] \in {"return", "serve"} =>
           payload # None /\ AtLeast(payload, floor[u]))'
    BY DEF ReadInv
  <2>4. QED
    BY <2>1, <2>2, <2>3 DEF ReadInv
<1>6. QED
  BY <1>1, <1>2, <1>3, <1>4, <1>5


LEMMA StutterStep ==
  ASSUME IInv, UNCHANGED vars
  PROVE  IInv'
<1> USE DEF vars, repoVars, diskVars, snapshotVars, labelVars, pendingVars,
            threadVars, workVars, requestVars
<1>1. TypeOK' /\ RebuildExclusive' /\ SnapshotInv'
  BY DEF IInv, TypeOK, RebuildExclusive, SnapshotInv, Publishing
<1>2. ASSUME NEW u \in Threads PROVE BuildInv(u)' /\ PublishInv(u)' /\ ReadInv(u)'
  BY DEF IInv, BuildInv, PublishInv, ReadInv, Publishing
<1>3. QED
  BY <1>1, <1>2 DEF IInv

\* The conjunction of exclusion, of the agreement of the published fields and
\* of what a rebuild owes to the versions read before it, is an invariant.
THEOREM InductiveInvariant == Spec => []IInv
<1>1. Init /\ TypeOK => IInv
  <2> SUFFICES ASSUME Init, TypeOK PROVE IInv
    OBVIOUS
  <2>1. RebuildExclusive /\ SnapshotInv
    BY ThreadsAssumption DEF Init, RebuildExclusive, SnapshotInv, Publishing
  <2>2. ASSUME NEW t \in Threads PROVE BuildInv(t) /\ PublishInv(t) /\ ReadInv(t)
    BY ZeroVersions, ZeroIsLeast
    DEF Init, BuildInv, PublishInv, ReadInv, Publishing
  <2>3. QED
    BY <2>1, <2>2 DEF IInv
<1>2. IInv /\ TypeOK' /\ [Next]_vars => IInv'
  BY DiskStep, TickStep, BeginStep, WalkStep, SignStep, LoadStep, CheckStep,
     BuildStep, CacheStep, PayloadStep, FinishStep, FailStep, ReturnStep,
     StutterStep, CallsAssumption
  DEF Next, Step, Poll, Call, Threads, CallKinds
<1>3. QED
  BY <1>1, <1>2, TypeCorrect, PTL DEF Spec

\* Only the thread that holds the lock rebuilds, and a pending change always
\* differs from the label of the snapshot.
THEOREM RebuildsExclude == Spec => []RebuildExclusive
<1>1. IInv => RebuildExclusive
  BY DEF IInv
<1>2. QED
  BY <1>1, InductiveInvariant, PTL

\* With no rebuild under way the label of the snapshot is on the safe side: a
\* signature walked before the build never claims more than the build read.
THEOREM LabelsConservative == Spec => []SignatureConservative
<1>1. IInv => SignatureConservative
  BY FreeLockAgrees DEF IInv, SignatureConservative
<1>2. QED
  BY <1>1, InductiveInvariant, PTL

\* Forced loads see the disk as it was when they began, and no reader of the
\* payload sees less than was already served when it began.
THEOREM ReadersSeeRecent == Spec => []ReadersSeeFloor
<1>1. IInv => ReadersSeeFloor
  <2> SUFFICES ASSUME IInv, NEW t \in Threads, pc[t] \in {"return", "serve"}
               PROVE  /\ cache # None /\ AtLeast(cache, floor[t])
                      /\ payload # None /\ AtLeast(payload, floor[t])
    BY DEF ReadersSeeFloor
  <2>1. payload # None /\ AtLeast(payload, floor[t])
    BY DEF IInv, ReadInv
  <2>2. cache # None /\ AtLeast(cache, payload)
    BY <2>1 DEF IInv, SnapshotInv
  <2>3. /\ cache \in Versions /\ payload \in Versions /\ floor[t] \in Versions
    BY <2>1, <2>2 DEF IInv, TypeOK
  <2>4. QED
    BY <2>1, <2>2, <2>3, AtLeastTransitive
<1>2. QED
  BY <1>1, InductiveInvariant, PTL

\* No step puts an older snapshot back.
THEOREM SnapshotsOnlyMoveForward == Spec => SnapshotsMoveForward
<1>1. IInv /\ [Next]_vars => [cache # None => cache' # None /\ AtLeast(cache', cache)]_vars
  <2> SUFFICES ASSUME IInv, Next, cache # None
               PROVE  cache' # None /\ AtLeast(cache', cache)
    OBVIOUS
  <2>1. cache \in Versions
    BY DEF IInv, TypeOK
  <2>2. CASE UNCHANGED cache
    BY <2>1, <2>2, ZeroIsLeast
  <2>3. ASSUME NEW t \in Threads, PublishCache(t)
        PROVE  cache' # None /\ AtLeast(cache', cache)
    <3>1. /\ cache' = built[t] /\ built[t] \in Versions
          /\ pc[t] = "build" /\ todo[t] = {}
      BY <2>3 DEF PublishCache, IInv, TypeOK
    <3>2. AtLeast(built[t], cache)
      BY <3>1 DEF IInv, BuildInv, AtLeast
    <3>3. QED
      BY <3>1, <3>2, NoneNotVersions
  <2>4. QED
    BY <2>2, <2>3
    DEF Next, Step, Poll, Call, Threads, DiskChange, Tick, Begin, WalkRoot, SignRoot,
        ReadSignature, BuildRoot, LoadForced, LoadInitial, LoadCached, LoadCheck,
        PublishPayload, FinishRebuild, RebuildRaises, RebuildKeepsCache, Return,
        ReturnToPayload, Serve, repoVars, snapshotVars
<1>2. QED
  BY <1>1, InductiveInvariant, PTL DEF Spec, SnapshotsMoveForward
=============================================================================
