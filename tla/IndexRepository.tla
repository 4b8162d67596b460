--------------------------- MODULE IndexRepository ---------------------------
(***************************************************************************)
(* The server's in-memory library index (gamehub_server/                   *)
(* index_repository.py): one cached snapshot of the data root, shared by   *)
(* the background poller, the request threads and the save-upload          *)
(* handlers.  A data root is abstracted to a version per source root       *)
(* (roms/, firmware/, saves/): a signature, a built index and a response   *)
(* payload are each the versions of the roots they were computed from.     *)
(* Reading one root is one step, in any order, so that the disk may change *)
(* in the middle of a signature walk or of a build.                        *)
(***************************************************************************)
EXTENDS Integers, FiniteSets

CONSTANTS
  Roots,       \* the source roots the signature walks and build_index reads
  Poller,      \* the background thread of _poll_loop
  Callers,     \* the request threads and upload handlers
  Calls,       \* the kinds of load() the callers make, a subset of CallKinds
  Stable,      \* stable_seconds, in clock ticks
  Refresh,     \* refresh_seconds (the TTL), in clock ticks; 0 disables it
  MaxVersion,  \* bound: changes of one root
  MaxDelay,    \* bound: ticks between reading the clock and leaving load()
  None         \* the null of the Python code

CallKinds == {"check", "cached", "forced"}

Threads == {Poller} \cup Callers

ASSUME RootsAssumption == IsFiniteSet(Roots) /\ Roots # {}
ASSUME ThreadsAssumption == Poller \notin Callers /\ None \notin Threads
ASSUME CallsAssumption == Calls \subseteq CallKinds
ASSUME BoundsAssumption ==
  Stable \in Nat /\ Refresh \in Nat /\ MaxVersion \in Nat /\ MaxDelay \in Nat
ASSUME NoneAssumption == None \notin [Roots -> 0 .. MaxVersion]

VARIABLES
  disk,        \* [Roots -> version]: the data root, external to the server
  valid,       \* [Roots -> BOOLEAN]: build_index accepts this root's content
  quiet,       \* observer: ticks since the last change of each root
  cache,       \* _cache, or None
  payload,     \* _payload_json / _payload_gzip, or None
  sourceSig,   \* _source_signature, or None
  pendingSig,  \* _pending_source_signature, or None
  pendingAge,  \* now - _pending_since
  loadedAge,   \* now - _loaded_at
  lastError,   \* _last_error is not None
  signedAfter, \* observer: sourceSig was computed after the build it labels
  lock,        \* the thread inside `with self._lock`, or None
  pc,          \* per thread: where it is in load()
  kind,        \* per thread: the arguments of the call
  reason,      \* per thread: why it rebuilds
  todo,        \* per thread: the roots it has still to read
  sig,         \* per thread: the signature walked so far
  built,       \* per thread: the index built so far
  obsAge,      \* per thread: now - observed_at
  floor        \* observer: the versions the call must serve at least

diskVars == <<disk, valid, quiet>>
snapshotVars == <<cache, payload>>
labelVars == <<sourceSig, signedAfter, lastError>>
pendingVars == <<pendingSig, pendingAge>>
repoVars == <<snapshotVars, labelVars, pendingVars, loadedAge>>
workVars == <<reason, todo, sig, built>>
requestVars == <<kind, obsAge, floor>>
threadVars == <<pc, workVars, requestVars>>
vars == <<diskVars, repoVars, lock, threadVars>>

Versions == [Roots -> 0 .. MaxVersion]
Zero == [r \in Roots |-> 0]
AtLeast(v, w) == \A r \in Roots : v[r] >= w[r]
Capped(n, cap) == IF n > cap THEN cap ELSE n

\* An age only matters up to the threshold it is compared with, and the clock
\* a caller read is at most MaxDelay old: beyond this cap ages are equivalent.
AgeCap == Stable + Refresh + MaxDelay

Reasons == {"forced", "initial", "source_change", "ttl"}

PCs == {"idle", "walk", "lock", "build", "payload", "sign", "finish", "return",
        "serve"}

TypeOK ==
  /\ disk \in Versions /\ valid \in [Roots -> BOOLEAN]
  /\ quiet \in [Roots -> 0 .. Stable]
  /\ cache \in Versions \cup {None} /\ payload \in Versions \cup {None}
  /\ sourceSig \in Versions \cup {None} /\ pendingSig \in Versions \cup {None}
  /\ pendingAge \in 0 .. AgeCap /\ loadedAge \in 0 .. AgeCap
  /\ lastError \in BOOLEAN /\ signedAfter \in BOOLEAN
  /\ lock \in Threads \cup {None}
  /\ pc \in [Threads -> PCs] /\ kind \in [Threads -> CallKinds]
  /\ reason \in [Threads -> Reasons] /\ todo \in [Threads -> SUBSET Roots]
  /\ sig \in [Threads -> Versions] /\ built \in [Threads -> Versions]
  /\ obsAge \in [Threads -> 0 .. MaxDelay] /\ floor \in [Threads -> Versions]

Init ==
  /\ disk = Zero /\ valid \in [Roots -> BOOLEAN]
  /\ quiet = [r \in Roots |-> Stable]
  /\ cache = None /\ payload = None
  /\ sourceSig = None /\ signedAfter = FALSE /\ lastError = FALSE
  /\ pendingSig = None /\ pendingAge = 0 /\ loadedAge = 0
  /\ lock = None
  /\ pc = [t \in Threads |-> "idle"] /\ kind = [t \in Threads |-> "check"]
  /\ reason = [t \in Threads |-> "initial"] /\ todo = [t \in Threads |-> {}]
  /\ sig = [t \in Threads |-> Zero] /\ built = [t \in Threads |-> Zero]
  /\ obsAge = [t \in Threads |-> 0] /\ floor = [t \in Threads |-> Zero]

-----------------------------------------------------------------------------
(* The environment: an operator or an upload changes the data root; time     *)
(* passes.                                                                   *)

DiskChange(r) ==
  /\ disk[r] < MaxVersion
  /\ disk' = [disk EXCEPT ![r] = @ + 1]
  /\ \E ok \in BOOLEAN : valid' = [valid EXCEPT ![r] = ok]
  /\ quiet' = [quiet EXCEPT ![r] = 0]
  /\ UNCHANGED <<repoVars, lock, threadVars>>

\* The calls whose reading of the clock is still going to be used.
Timed(t) == pc[t] # "idle" /\ kind[t] = "check"

\* time.monotonic() advances; ages are kept instead of instants so that time
\* need not be bounded.  MaxDelay bounds how long one call may take.
Tick ==
  /\ \A t \in Threads : Timed(t) => obsAge[t] < MaxDelay
  /\ obsAge' = [t \in Threads |-> IF Timed(t) THEN obsAge[t] + 1 ELSE obsAge[t]]
  /\ pendingAge' = IF pendingSig = None THEN 0
                   ELSE Capped(pendingAge + 1, AgeCap)
  /\ loadedAge' = IF cache = None \/ Refresh = 0 THEN 0
                  ELSE Capped(loadedAge + 1, AgeCap)
  /\ quiet' = [r \in Roots |-> Capped(quiet[r] + 1, Stable)]
  /\ UNCHANGED <<disk, valid, snapshotVars, labelVars, pendingSig, lock, pc,
                 workVars, kind, floor>>

-----------------------------------------------------------------------------
(* load(): the part before the lock.                                         *)

\* A forced call must serve what was on disk when it began; any call must
\* serve at least the payload that was being served when it began.
FloorOf(k) == IF k = "forced" THEN disk
              ELSE IF payload = None THEN Zero ELSE payload

\* observed_at = time.monotonic(); only check_sources walks the signature.
Begin(t, k) ==
  /\ pc[t] = "idle"
  /\ pc' = [pc EXCEPT ![t] = IF k = "check" THEN "walk" ELSE "lock"]
  /\ kind' = [kind EXCEPT ![t] = k]
  /\ todo' = [todo EXCEPT ![t] = IF k = "check" THEN Roots ELSE {}]
  /\ floor' = [floor EXCEPT ![t] = FloorOf(k)]
  /\ UNCHANGED <<diskVars, repoVars, lock, reason, sig, built, obsAge>>

\* _poll_loop: wait(poll_seconds), then load(check_sources=True).
Poll == Begin(Poller, "check")

Call(t) == t \in Callers /\ \E k \in Calls : Begin(t, k)

\* _snapshot_data_signature reads one root; `next` follows the last one.
ReadSignature(t, r, next) ==
  /\ r \in todo[t]
  /\ sig' = [sig EXCEPT ![t][r] = disk[r]]
  /\ todo' = [todo EXCEPT ![t] = @ \ {r}]
  /\ pc' = [pc EXCEPT ![t] = IF todo[t] = {r} THEN next ELSE @]
  /\ UNCHANGED <<diskVars, repoVars, lock, reason, built, requestVars>>

\* The signature of a checking call, walked before it asks for the lock.
WalkRoot(t, r) == pc[t] = "walk" /\ ReadSignature(t, r, "lock")

-----------------------------------------------------------------------------
(* load(): the decision taken under the lock.                                *)

\* Mutant: the decision is taken without the lock.
EnterUnlocked(t) == pc[t] = "lock"

Enter(t) == pc[t] = "lock" /\ lock = None

\* _rebuild_locked starts: the lock stays held while the roots are read.
StartRebuild(t, why) ==
  /\ lock' = t
  /\ pc' = [pc EXCEPT ![t] = "build"]
  /\ reason' = [reason EXCEPT ![t] = why]
  /\ todo' = [todo EXCEPT ![t] = Roots]
  /\ UNCHANGED <<sig, built, requestVars>>

\* The lock is released and the call goes on at `next`; what it computed under
\* the lock is forgotten.
Leave(t, next) ==
  /\ lock' = None
  /\ pc' = [pc EXCEPT ![t] = next]
  /\ reason' = [reason EXCEPT ![t] = "initial"]
  /\ todo' = [todo EXCEPT ![t] = {}]
  /\ sig' = [sig EXCEPT ![t] = Zero]
  /\ built' = [built EXCEPT ![t] = Zero]

LoadForced(t) ==
  /\ Enter(t) /\ kind[t] = "forced"
  /\ StartRebuild(t, "forced")
  /\ UNCHANGED <<diskVars, repoVars>>

LoadInitial(t) ==
  /\ Enter(t) /\ kind[t] # "forced" /\ cache = None
  /\ StartRebuild(t, "initial")
  /\ UNCHANGED <<diskVars, repoVars>>

LoadCached(t) ==
  /\ Enter(t) /\ kind[t] = "cached" /\ cache # None
  /\ Leave(t, "return")
  /\ UNCHANGED <<diskVars, repoVars, requestVars>>

\* _observe_source_signature: has a change of signature settled?
SettledChange(t) ==
  /\ sig[t] # sourceSig
  /\ IF pendingSig = sig[t] THEN pendingAge - obsAge[t] >= Stable
                            ELSE Stable = 0

\* Mutant: the age of the pending change is computed with the operands swapped.
ObservePendingSwapped(t) ==
  IF sig[t] = sourceSig
  THEN pendingSig' = None /\ pendingAge' = 0
  ELSE IF pendingSig = sig[t] THEN UNCHANGED pendingVars
       ELSE pendingSig' = sig[t] /\ pendingAge' = 0 - obsAge[t]

\* Mutant: every poll starts the stability wait again.
ObservePendingRestarts(t) ==
  IF sig[t] = sourceSig
  THEN pendingSig' = None /\ pendingAge' = 0
  ELSE pendingSig' = sig[t] /\ pendingAge' = obsAge[t]

\* ... and what the observed signature does to the pending change.
ObservePending(t) ==
  IF sig[t] = sourceSig
  THEN pendingSig' = None /\ pendingAge' = 0
  ELSE IF pendingSig = sig[t] THEN UNCHANGED pendingVars
       ELSE pendingSig' = sig[t] /\ pendingAge' = obsAge[t]

\* _should_refresh_for_ttl, consulted only when nothing is pending.
TtlExpired(t) == Refresh > 0 /\ loadedAge - obsAge[t] >= Refresh

LoadCheck(t) ==
  /\ Enter(t) /\ kind[t] = "check" /\ cache # None
  /\ ObservePending(t)
  /\ IF SettledChange(t) THEN StartRebuild(t, "source_change")
     ELSE IF pendingSig' = None /\ TtlExpired(t) THEN StartRebuild(t, "ttl")
     ELSE Leave(t, "return") /\ UNCHANGED requestVars
  /\ UNCHANGED <<diskVars, snapshotVars, labelVars, loadedAge>>

-----------------------------------------------------------------------------
(* _rebuild_locked: build_index reads the roots, then publishes.             *)

BuildRoot(t, r) ==
  /\ pc[t] = "build" /\ r \in todo[t] /\ valid[r]
  /\ built' = [built EXCEPT ![t][r] = disk[r]]
  /\ todo' = [todo EXCEPT ![t] = @ \ {r}]
  /\ UNCHANGED <<diskVars, repoVars, lock, pc, reason, sig, requestVars>>

\* self._cache = cache: visible at once to the lock-free reads of load().
PublishCache(t) ==
  /\ pc[t] = "build" /\ todo[t] = {}
  /\ cache' = built[t]
  /\ built' = [built EXCEPT ![t] = Zero]
  /\ pc' = [pc EXCEPT ![t] = "payload"]
  /\ UNCHANGED <<diskVars, payload, labelVars, pendingVars, loadedAge, lock,
                 reason, todo, sig, requestVars>>

\* A rebuild that was given no signature computes it now, after the build.
SignsAfter(t) == kind[t] # "check"

\* Mutant: the payload is rendered once and not again for later snapshots.
RenderedOnce == IF payload = None THEN cache ELSE payload

\* model_dump_json and gzip of the new snapshot.
Rendered == cache

\* Mutant: every rebuild computes its signature after the build.
PublishPayloadResign(t) ==
  /\ pc[t] = "payload"
  /\ payload' = Rendered
  /\ pc' = [pc EXCEPT ![t] = "sign"]
  /\ todo' = [todo EXCEPT ![t] = Roots]
  /\ UNCHANGED <<diskVars, cache, labelVars, pendingVars, loadedAge, lock,
                 reason, sig, built, requestVars>>

PublishPayload(t) ==
  /\ pc[t] = "payload"
  /\ payload' = Rendered
  /\ pc' = [pc EXCEPT ![t] = IF SignsAfter(t) THEN "sign" ELSE "finish"]
  /\ todo' = [todo EXCEPT ![t] = IF SignsAfter(t) THEN Roots ELSE {}]
  /\ UNCHANGED <<diskVars, cache, labelVars, pendingVars, loadedAge, lock,
                 reason, sig, built, requestVars>>

SignRoot(t, r) == pc[t] = "sign" /\ ReadSignature(t, r, "finish")

FinishRebuild(t) ==
  /\ pc[t] = "finish"
  /\ sourceSig' = sig[t] /\ signedAfter' = SignsAfter(t)
  /\ lastError' = FALSE
  /\ pendingSig' = None /\ pendingAge' = 0 /\ loadedAge' = 0
  /\ Leave(t, "return")
  /\ UNCHANGED <<diskVars, snapshotVars, requestVars>>

\* build_index raises on a root it rejects, or when what it already read and
\* what it reads now disagree because the disk changed under it.
BuildBreaks(t) ==
  /\ pc[t] = "build"
  /\ \E r \in Roots : IF r \in todo[t] THEN ~valid[r] ELSE built[t][r] # disk[r]

\* The call is over: its arguments are forgotten.
Forget(t) ==
  /\ kind' = [kind EXCEPT ![t] = "check"]
  /\ obsAge' = [obsAge EXCEPT ![t] = 0]
  /\ floor' = [floor EXCEPT ![t] = Zero]

\* raise_on_error, or no snapshot to fall back to: the caller gets the error.
RebuildRaises(t) ==
  /\ BuildBreaks(t) /\ reason[t] \in {"forced", "initial"}
  /\ lastError' = TRUE
  /\ Leave(t, "idle") /\ Forget(t)
  /\ UNCHANGED <<diskVars, snapshotVars, sourceSig, signedAfter, pendingVars,
                 loadedAge>>

\* Otherwise the cached snapshot is kept and the change (or the TTL) is armed
\* again, so that a later poll retries.
RebuildKeepsCache(t) ==
  /\ BuildBreaks(t) /\ reason[t] \in {"source_change", "ttl"}
  /\ lastError' = TRUE
  /\ IF sig[t] # sourceSig
     THEN pendingSig' = sig[t] /\ pendingAge' = 0 /\ UNCHANGED loadedAge
     ELSE /\ loadedAge' = IF Refresh > 0 THEN 0 ELSE loadedAge
          /\ UNCHANGED pendingVars
  /\ Leave(t, "return")
  /\ UNCHANGED <<diskVars, snapshotVars, sourceSig, signedAfter, requestVars>>

\* `return self._cache`, after the lock was released: the poller and the
\* callers that only wanted the snapshot are done.
Return(t) ==
  /\ pc[t] = "return"
  /\ pc' = [pc EXCEPT ![t] = "idle"]
  /\ Forget(t)
  /\ UNCHANGED <<diskVars, repoVars, lock, workVars>>

\* load_payload goes on to read the payload fields.
ReturnToPayload(t) ==
  /\ pc[t] = "return" /\ t # Poller /\ kind[t] # "cached"
  /\ pc' = [pc EXCEPT ![t] = "serve"]
  /\ UNCHANGED <<diskVars, repoVars, lock, workVars, requestVars>>

\* load_payload returns _payload_gzip or _payload_json, without the lock.
Serve(t) ==
  /\ pc[t] = "serve"
  /\ pc' = [pc EXCEPT ![t] = "idle"]
  /\ Forget(t)
  /\ UNCHANGED <<diskVars, repoVars, lock, workVars>>

-----------------------------------------------------------------------------
Step(t) ==
  \/ \E r \in Roots : WalkRoot(t, r) \/ BuildRoot(t, r) \/ SignRoot(t, r)
  \/ LoadForced(t) \/ LoadInitial(t) \/ LoadCached(t) \/ LoadCheck(t)
  \/ PublishCache(t) \/ PublishPayload(t) \/ FinishRebuild(t)
  \/ RebuildRaises(t) \/ RebuildKeepsCache(t)
  \/ Return(t) \/ ReturnToPayload(t) \/ Serve(t)

Next ==
  \/ \E r \in Roots : DiskChange(r)
  \/ Tick
  \/ Poll
  \/ \E t \in Threads : Call(t) \/ Step(t)

Spec == Init /\ [][Next]_vars

\* Threads that entered load() run on, the poller keeps polling, time passes.
\* Nothing obliges a caller to call or the disk to change.
Fairness ==
  /\ WF_vars(Tick) /\ WF_vars(Poll)
  /\ \A t \in Threads : WF_vars(Step(t))

FairSpec == Spec /\ Fairness

-----------------------------------------------------------------------------
(* Properties.                                                               *)

AllValid == \A r \in Roots : valid[r]
Settled == cache = disk

\* server_status, and what it reports as refresh_pending.
Status == IF cache = None THEN "starting"
          ELSE IF lastError THEN "degraded" ELSE "ok"

\* Where a rebuild has assigned some of the snapshot's fields and not others.
Publishing == {"payload", "sign", "finish"}

\* Concurrent rebuilds never put an older snapshot back: whatever the order in
\* which threads enter load(), every root of the cached snapshot only moves
\* forward in time.
SnapshotsMoveForward ==
  [][cache # None => cache' # None /\ AtLeast(cache', cache)]_vars

\* A forced load (GET /v1/index?refresh=1, both refreshes of an upload) returns
\* a snapshot and a payload at least as recent as the disk was when the call
\* began, and no load_payload returns less than what was already served when
\* it began, although both are read after the lock was released.
ReadersSeeFloor ==
  \A t \in Threads :
    /\ pc[t] = "return" => cache # None
    /\ pc[t] = "return" /\ kind[t] = "forced" => AtLeast(cache, floor[t])
    /\ pc[t] = "serve" => payload # None /\ AtLeast(payload, floor[t])

\* The label of the snapshot is conservative: while no rebuild is running, a
\* signature taken before the build is never ahead of what the build read, so
\* a change that the build missed is still seen as a change.  Signatures taken
\* after the build (forced, or the first load of a file endpoint) promise the
\* opposite: they are never behind.
SignatureConservative ==
  lock = None /\ cache # None =>
    IF signedAfter THEN AtLeast(sourceSig, cache) ELSE AtLeast(cache, sourceSig)

\* The lock is held exactly by the thread that is rebuilding, and a change is
\* pending only while it differs from the snapshot's signature.
RebuildExclusive ==
  /\ \A t \in Threads :
       pc[t] \in {"build"} \cup Publishing <=> lock = t
  /\ pendingSig # None => pendingSig # sourceSig

\* Once the disk stops changing in a valid state, the poller brings the
\* snapshot up to date, clears the pending change and leaves "degraded", unless
\* the snapshot was labelled with a signature computed after its build.
PollerConverges ==
  <>[](AllValid => \/ Settled /\ Status = "ok" /\ pendingSig = None
                   \/ signedAfter)

\* Automatic rebuilds wait until a detected change has been unchanged for
\* stable_seconds: when a source-change rebuild is decided on the signature of
\* the disk as it is now, no root changed during the last Stable ticks.
RebuildsOnlySettled ==
  [][\A t \in Threads :
       /\ LoadCheck(t) /\ lock' = t /\ reason'[t] = "source_change"
       /\ sig[t] = disk
       => \A r \in Roots : quiet[r] >= Stable]_vars

-----------------------------------------------------------------------------
(* The inductive invariant behind the safety properties.                     *)

\* No snapshot is ahead of the disk, no payload ahead of the snapshot; outside
\* the publishing phase the fields agree and the label is conservative.
SnapshotInv ==
  /\ cache # None => AtLeast(disk, cache)
  /\ payload # None => cache # None /\ AtLeast(cache, payload)
  /\ (\A t \in Threads : pc[t] \notin Publishing) /\ cache # None =>
       /\ payload = cache /\ sourceSig # None
       /\ IF signedAfter THEN AtLeast(sourceSig, cache)
                         ELSE AtLeast(cache, sourceSig)

\* A rebuild reads the roots after the lock was taken, hence after everything
\* that was published, walked or promised before.
BuildInv(t) ==
  pc[t] = "build" =>
    /\ reason[t] \in {"source_change", "ttl"} => cache # None /\ kind[t] = "check"
    /\ \A r \in Roots \ todo[t] :
         /\ cache # None => built[t][r] >= cache[r]
         /\ kind[t] = "forced" => built[t][r] >= floor[t][r]
         /\ kind[t] = "check" => built[t][r] >= sig[t][r]

PublishInv(t) ==
  /\ pc[t] \in Publishing =>
       cache # None /\ (kind[t] = "forced" => AtLeast(cache, floor[t]))
  /\ pc[t] \in {"sign", "finish"} => payload = cache
  /\ pc[t] \in Publishing /\ kind[t] = "check" => AtLeast(cache, sig[t])
  /\ pc[t] = "sign" => /\ kind[t] # "check"
                       /\ \A r \in Roots \ todo[t] : sig[t][r] >= cache[r]
  /\ pc[t] = "finish" /\ kind[t] # "check" => AtLeast(sig[t], cache)

ReadInv(t) ==
  /\ AtLeast(disk, sig[t]) /\ AtLeast(disk, built[t]) /\ AtLeast(disk, floor[t])
  /\ kind[t] # "forced" =>
       IF payload = None THEN floor[t] = Zero ELSE AtLeast(payload, floor[t])
  /\ pc[t] \in {"return", "serve"} =>
       payload # None /\ AtLeast(payload, floor[t])

IInv ==
  /\ TypeOK /\ RebuildExclusive /\ SnapshotInv
  /\ \A t \in Threads : BuildInv(t) /\ PublishInv(t) /\ ReadInv(t)
=============================================================================
