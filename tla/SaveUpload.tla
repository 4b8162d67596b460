----------------------------- MODULE SaveUpload ------------------------------
(***************************************************************************)
(* PUT /v1/saves/{save_id} (gamehub_server/save_api.py): the handlers of   *)
(* concurrent uploads on the server's event loop, the registry of          *)
(* per-save locks, the temporary and backup files, and the index they      *)
(* refresh before and after a write.  A handler keeps the event loop       *)
(* between two awaits; it gives it up while it waits for the lock of its   *)
(* save and while it reads the spooled upload.  A crash may stop the       *)
(* server at any point; other threads may rebuild the index; an operator   *)
(* may edit the saves directory if AllowEdits.                             *)
(***************************************************************************)
EXTENDS Integers, Sequences, FiniteSets

CONSTANTS
  Saves,       \* save ids
  Tree,        \* the saves that belong to one learned_tree binding
  RootOf,      \* [Saves -> learned root of the save's canonical suffix]
  Contents,    \* what a save file may contain (its sha256)
  Reqs,        \* upload requests
  KeepLimit,   \* GAMEHUB_BACKUP_KEEP_LIMIT
  AllowEdits,  \* whether an operator edits saves/ behind the server's back
  MaxEdits,    \* bound: operator edits
  MaxCrashes,  \* bound: crashes of the server
  None         \* no content, no lock, no request

Optional == Contents \cup {None}
Statuses == {"ok", "conflict", "error"}

ASSUME SavesAssumption == Tree \subseteq Saves
ASSUME ReqsAssumption == IsFiniteSet(Reqs)
ASSUME NoneAssumption == None \notin Contents \cup Reqs \cup Statuses
ASSUME LimitsAssumption == /\ KeepLimit \in Nat \ {0} /\ AllowEdits \in BOOLEAN
                           /\ MaxEdits \in Nat /\ MaxCrashes \in Nat

VARIABLES
  files,       \* [Saves -> content of the file, or None]
  parts,       \* the saves whose <name>.part file exists
  backups,     \* [Saves -> contents of the .bak files, newest first]
  burst,       \* [Saves -> backups made in the second of the latest one]
  index,       \* [Saves -> content the cached index advertises, or None]
  indexParts,  \* the saves whose .part file the cached index advertises
  registry,    \* _SAVE_UPLOAD_LOCKS: [Saves -> lock, or None]
  refs,        \* _SAVE_UPLOAD_LOCK_REFS
  owner,       \* per lock: the request that holds it, or None
  waiters,     \* per lock: the requests queued in asyncio.Lock
  loop,        \* the request running on the event loop, or None
  save, expected, content,  \* per request: its arguments
  pc,          \* per request: where its handler is
  lockOf,      \* per request: the lock object it found in the registry
  seen,        \* per request: `current` in the bundle it loaded
  status,      \* per request: the response prepared, or None
  current,     \* per request: the `current` save of a 409
  applied,     \* observer, per request: the new content is in place
  edits, crashes  \* counters for the bounds

\* A lock object is named after the request that created it.
copies == <<backups, burst>>
diskVars == <<files, parts, copies>>
indexVars == <<index, indexParts>>
lockVars == <<registry, refs, owner, waiters>>
arguments == <<save, expected, content>>
handlerVars == <<lockOf, seen, status, current, applied>>
counters == <<edits, crashes>>
vars == <<diskVars, indexVars, lockVars, loop, arguments, pc, handlerVars, counters>>

\* The handler holds the lock of its save.
Holding == {"load", "decide", "write", "reload", "release"}

TypeOK ==
  /\ files \in [Saves -> Optional] /\ parts \subseteq Saves
  /\ backups \in [Saves -> Seq(Contents)] /\ burst \in [Saves -> Nat]
  /\ index \in [Saves -> Optional] /\ indexParts \subseteq Saves
  /\ registry \in [Saves -> Reqs \cup {None}] /\ refs \in [Saves -> Nat]
  /\ owner \in [Reqs -> Reqs \cup {None}] /\ waiters \in [Reqs -> Seq(Reqs)]
  /\ loop \in Reqs \cup {None}
  /\ save \in [Reqs -> Saves] /\ expected \in [Reqs -> Optional]
  /\ content \in [Reqs -> Contents]
  /\ pc \in [Reqs -> {"idle", "wait", "done"} \cup Holding]
  /\ lockOf \in [Reqs -> Reqs \cup {None}]
  /\ seen \in [Reqs -> Optional] /\ current \in [Reqs -> Optional]
  /\ status \in [Reqs -> Statuses \cup {None}]
  /\ applied \in [Reqs -> BOOLEAN]
  /\ edits \in 0 .. MaxEdits /\ crashes \in 0 .. MaxCrashes

Init ==
  /\ files \in [Saves -> Optional] /\ parts = {}
  /\ backups = [s \in Saves |-> <<>>] /\ burst = [s \in Saves |-> 0]
  /\ index = files /\ indexParts = {}
  /\ registry = [s \in Saves |-> None] /\ refs = [s \in Saves |-> 0]
  /\ owner = [l \in Reqs |-> None] /\ waiters = [l \in Reqs |-> <<>>]
  /\ loop = None
  /\ save \in [Reqs -> Saves] /\ expected \in [Reqs -> Optional]
  /\ content \in [Reqs -> Contents]
  /\ pc = [r \in Reqs |-> "idle"] /\ lockOf = [r \in Reqs |-> None]
  /\ seen = [r \in Reqs |-> None] /\ current = [r \in Reqs |-> None]
  /\ status = [r \in Reqs |-> None] /\ applied = [r \in Reqs |-> FALSE]
  /\ edits = 0 /\ crashes = 0

-----------------------------------------------------------------------------
(* _save_upload_lock                                                         *)

\* _SAVE_UPLOAD_LOCKS.get, or a new asyncio.Lock stored under the save id.
LockFor(r) == IF registry[save[r]] = None THEN r ELSE registry[save[r]]

Runs(r, next) == loop' = r /\ pc' = [pc EXCEPT ![r] = next]

\* The request has been parsed: it registers with the lock of its save and, if
\* the lock is free and nobody queues, holds it without giving up the loop.
Arrive(r) ==
  /\ loop = None /\ pc[r] = "idle"
  /\ LET l == LockFor(r) IN
       /\ registry' = [registry EXCEPT ![save[r]] = l]
       /\ refs' = [refs EXCEPT ![save[r]] = @ + 1]
       /\ lockOf' = [lockOf EXCEPT ![r] = l]
       /\ IF owner[l] = None /\ waiters[l] = <<>>
          THEN /\ owner' = [owner EXCEPT ![l] = r]
               /\ Runs(r, "load") /\ UNCHANGED waiters
          ELSE /\ waiters' = [waiters EXCEPT ![l] = Append(@, r)]
               /\ pc' = [pc EXCEPT ![r] = "wait"] /\ UNCHANGED <<owner, loop>>
  /\ UNCHANGED <<diskVars, indexVars, arguments, seen, status, current, applied,
                 counters>>

\* asyncio.Lock hands a released lock to its waiters in order.
Wake(r) ==
  /\ loop = None /\ pc[r] = "wait"
  /\ LET l == lockOf[r] IN
       /\ owner[l] = None /\ waiters[l] # <<>> /\ Head(waiters[l]) = r
       /\ owner' = [owner EXCEPT ![l] = r]
       /\ waiters' = [waiters EXCEPT ![l] = Tail(@)]
  /\ Runs(r, "load")
  /\ UNCHANGED <<diskVars, indexVars, registry, refs, arguments, handlerVars,
                 counters>>

\* Mutant: the registry entry goes away with the first handler that leaves.
DropEntryAlways(s) ==
  /\ refs' = [refs EXCEPT ![s] = 0]
  /\ registry' = [registry EXCEPT ![s] = None]

\* Mutant: a handler that leaves is counted twice.
DropEntryTwice(s) ==
  /\ refs' = [refs EXCEPT ![s] = @ - 2]
  /\ registry' = [registry EXCEPT ![s] = IF refs[s] <= 1 THEN None ELSE @]

\* Mutant: the entry of the last handler stays.
DropEntryLate(s) ==
  /\ refs' = [refs EXCEPT ![s] = @ - 1]
  /\ registry' = [registry EXCEPT ![s] = IF refs[s] < 1 THEN None ELSE @]

\* The last request registered under a save id removes the entry.
DropEntry(s) ==
  /\ refs' = [refs EXCEPT ![s] = @ - 1]
  /\ registry' = [registry EXCEPT ![s] = IF refs[s] <= 1 THEN None ELSE @]

\* Mutant: an error leaves the handler without releasing the lock.
ReleaseOnSuccess(r) ==
  /\ loop = r /\ pc[r] = "release"
  /\ owner' = IF status[r] = "error" THEN owner
              ELSE [owner EXCEPT ![lockOf[r]] = None]
  /\ DropEntry(save[r])
  /\ loop' = None /\ pc' = [pc EXCEPT ![r] = "done"]
  /\ UNCHANGED <<diskVars, indexVars, waiters, arguments, handlerVars, counters>>

Release(r) ==
  /\ loop = r /\ pc[r] = "release"
  /\ owner' = [owner EXCEPT ![lockOf[r]] = None]
  /\ DropEntry(save[r])
  /\ loop' = None /\ pc' = [pc EXCEPT ![r] = "done"]
  /\ UNCHANGED <<diskVars, indexVars, waiters, arguments, handlerVars, counters>>

-----------------------------------------------------------------------------
(* put_save, under the lock                                                  *)

\* Mutant: files being written are left out of the index.
ReindexSkipsParts == index' = files /\ indexParts' = {}

\* load(force_refresh=True): the cache becomes what is on disk now.
Reindex == index' = files /\ indexParts' = parts

\* Mutant: the handler is content with the cached index.
ForcedLoadCached(r) ==
  /\ loop = r /\ pc[r] = "load"
  /\ seen' = [seen EXCEPT ![r] = index[save[r]]]
  /\ pc' = [pc EXCEPT ![r] = "decide"]
  /\ UNCHANGED <<diskVars, indexVars, lockVars, loop, arguments, lockOf, status,
                 current, applied, counters>>

ForcedLoad(r) ==
  /\ loop = r /\ pc[r] = "load"
  /\ Reindex
  /\ seen' = [seen EXCEPT ![r] = files[save[r]]]
  /\ pc' = [pc EXCEPT ![r] = "decide"]
  /\ UNCHANGED <<diskVars, lockVars, loop, arguments, lockOf, status, current,
                 applied, counters>>

\* Any exit without a write: the response is prepared and the lock released.
Answer(r, code, reported) ==
  /\ status' = [status EXCEPT ![r] = code]
  /\ current' = [current EXCEPT ![r] = reported]
  /\ pc' = [pc EXCEPT ![r] = "release"]
  /\ UNCHANGED <<indexVars, lockVars, arguments, lockOf, seen, applied, counters>>

\* The rebuild raises: an operator left the library in an invalid state.
LoadFails(r) ==
  /\ loop = r /\ pc[r] = "load"
  /\ Answer(r, "error", None)
  /\ UNCHANGED <<diskVars, loop>>

\* _validate_binding_suffix: the learned roots of the files indexed for the
\* binding; a .part file is indexed like any other.
IndexedRoots == {RootOf[s] : s \in {t \in Tree : index[t] # None \/ t \in indexParts}}

\* More than one indexed root is a 500, another root than the indexed one 409.
SuffixAllowed(r) ==
  save[r] \in Tree => IndexedRoots \subseteq {RootOf[save[r]]}

Exists(r) == files[save[r]] # None

RejectMismatch(r) ==
  /\ loop = r /\ pc[r] = "decide"
  /\ (seen[r] = None) = Exists(r)
  /\ Answer(r, "conflict", seen[r])
  /\ UNCHANGED <<diskVars, loop>>

Consistent(r) == loop = r /\ pc[r] = "decide" /\ (seen[r] # None) = Exists(r)

RejectSuffix(r) ==
  /\ Consistent(r) /\ ~SuffixAllowed(r)
  /\ Answer(r, "error", None)
  /\ UNCHANGED <<diskVars, loop>>

\* expected_remote_sha256 given for a save that does not exist.
RejectExpected(r) ==
  /\ Consistent(r) /\ SuffixAllowed(r)
  /\ seen[r] = None /\ expected[r] # None
  /\ Answer(r, "error", None)
  /\ UNCHANGED <<diskVars, loop>>

\* target-exists, or remote-sha-mismatch.
RejectStale(r) ==
  /\ Consistent(r) /\ SuffixAllowed(r)
  /\ seen[r] # None /\ expected[r] # seen[r]
  /\ Answer(r, "conflict", seen[r])
  /\ UNCHANGED <<diskVars, loop>>

\* Mutant: an update is accepted whatever version the client expects.
AcceptsAnyVersion(r) ==
  /\ Consistent(r) /\ SuffixAllowed(r)
  /\ seen[r] # None \/ expected[r] = None

Accepts(r) == Consistent(r) /\ SuffixAllowed(r) /\ expected[r] = seen[r]

Newest(contents, limit) ==
  SubSeq(contents, 1, IF Len(contents) < limit THEN Len(contents) ELSE limit)

\* Whether the n-th backup of one second outlives its own pruning: with limit L
\* the first L + 1 of them push the oldest out, and leave the number 0 free,
\* which sorts last, to the next (see BackupRetention).
FitsInSecond(n) == n <= KeepLimit + 1

\* _backup_existing_save: copy the file, then prune the family.  Any backup may
\* fall into the second of the one before it.
Backup(s) ==
  IF files[s] = None THEN UNCHANGED copies
  ELSE \E n \in {1, burst[s] + 1} :
    /\ burst' = [burst EXCEPT ![s] = n]
    /\ backups' = [backups EXCEPT ![s] =
         IF FitsInSecond(n) THEN Newest(<<files[s]>> \o @, KeepLimit) ELSE @]

\* _write_save_upload up to its first await: back up what an update replaces,
\* create the .part file and start to read the spooled upload.
BeginWrite(r) ==
  /\ Accepts(r)
  /\ IF seen[r] = None THEN UNCHANGED copies ELSE Backup(save[r])
  /\ parts' = parts \cup {save[r]}
  /\ pc' = [pc EXCEPT ![r] = "write"]
  /\ loop' = None
  /\ UNCHANGED <<files, indexVars, lockVars, arguments, handlerVars, counters>>

\* The upload is read to its end: fsync, then part_path.replace(path).
Commit(r) ==
  /\ loop = None /\ pc[r] = "write"
  /\ files' = [files EXCEPT ![save[r]] = content[r]]
  /\ parts' = parts \ {save[r]}
  /\ applied' = [applied EXCEPT ![r] = TRUE]
  /\ Runs(r, "reload")
  /\ UNCHANGED <<copies, indexVars, lockVars, arguments, lockOf, seen, status,
                 current, counters>>

\* Mutant: a failed write leaves its .part file behind.
KeepPart(s) == parts' = parts

\* part_path.unlink(missing_ok=True)
RemovePart(s) == parts' = parts \ {s}

\* A failed read or write removes the .part file and is reported as a 500.
WriteFails(r) ==
  /\ loop = None /\ pc[r] = "write"
  /\ RemovePart(save[r])
  /\ loop' = r
  /\ Answer(r, "error", None)
  /\ UNCHANGED <<files, copies>>

\* The refresh after the write; the response is the save's entry in it.
Reload(r) ==
  /\ loop = r /\ pc[r] = "reload"
  /\ Reindex
  /\ status' = [status EXCEPT ![r] = IF Exists(r) THEN "ok" ELSE "error"]
  /\ pc' = [pc EXCEPT ![r] = "release"]
  /\ UNCHANGED <<diskVars, lockVars, loop, arguments, lockOf, seen, current,
                 applied, counters>>

\* The upload is stored, but the client is told 500.
ReloadFails(r) ==
  /\ loop = r /\ pc[r] = "reload"
  /\ Answer(r, "error", None)
  /\ UNCHANGED <<diskVars, loop>>

-----------------------------------------------------------------------------
(* Around the handlers                                                       *)

\* The poller or a GET rebuilds the index (see IndexRepository).
Poll ==
  /\ Reindex
  /\ UNCHANGED <<diskVars, lockVars, loop, arguments, pc, handlerVars, counters>>

\* The process dies and comes back: it warms the index before it serves.
Crash ==
  /\ crashes < MaxCrashes
  /\ crashes' = crashes + 1
  /\ Reindex
  /\ registry' = [s \in Saves |-> None] /\ refs' = [s \in Saves |-> 0]
  /\ owner' = [l \in Reqs |-> None] /\ waiters' = [l \in Reqs |-> <<>>]
  /\ loop' = None
  /\ pc' = [r \in Reqs |-> IF pc[r] = "idle" THEN "idle" ELSE "done"]
  /\ status' = [r \in Reqs |->
       IF pc[r] \in {"idle", "done"} THEN status[r] ELSE "error"]
  /\ UNCHANGED <<diskVars, arguments, lockOf, seen, current, applied, edits>>

OperatorEdit(s) ==
  /\ AllowEdits /\ edits < MaxEdits
  /\ edits' = edits + 1
  /\ \E c \in Optional \ {files[s]} : files' = [files EXCEPT ![s] = c]
  /\ UNCHANGED <<parts, copies, indexVars, lockVars, loop, arguments, pc,
                 handlerVars, crashes>>

Handler(r) ==
  \/ Wake(r) \/ ForcedLoad(r) \/ LoadFails(r)
  \/ RejectMismatch(r) \/ RejectSuffix(r) \/ RejectExpected(r) \/ RejectStale(r)
  \/ BeginWrite(r) \/ Commit(r) \/ WriteFails(r)
  \/ Reload(r) \/ ReloadFails(r) \/ Release(r)

Next ==
  \/ \E r \in Reqs : Arrive(r) \/ Handler(r)
  \/ Poll \/ Crash
  \/ \E s \in Saves : OperatorEdit(s)

Spec == Init /\ [][Next]_vars

\* The event loop runs every handler that can run; the upload it reads was
\* spooled before it asked for the lock, so no client holds a lock up.
Fairness == \A r \in Reqs : WF_vars(Handler(r))

FairSpec == Spec /\ Fairness

-----------------------------------------------------------------------------
(* Properties                                                                *)

\* Concurrent writes of one save are serialized: whatever the order in which
\* requests register, wait, leave and remove the registry entry, two handlers
\* of the same save are never both past the lock.
OneWriterPerSave ==
  \A r1, r2 \in Reqs :
    pc[r1] \in Holding /\ pc[r2] \in Holding /\ save[r1] = save[r2] => r1 = r2

\* The lock registry does not leak: an entry exists exactly while a request is
\* registered under it, and the count is the number of these requests.
Registered(s) == {r \in Reqs : save[r] = s /\ pc[r] \in Holding \cup {"wait"}}

RegistryExact ==
  \A s \in Saves : /\ refs[s] = Cardinality(Registered(s))
                   /\ (registry[s] = None) = (Registered(s) = {})
                   /\ \A r \in Registered(s) : lockOf[r] = registry[s]

\* Until the server crashes, a .part file exists only while a handler writes it.
PartsCleanedUp ==
  crashes = 0 => \A s \in parts : \E r \in Reqs : save[r] = s /\ pc[r] = "write"

\* Together: one handler at a time writes a save, the registry neither leaks nor
\* splits a lock, and what is half written is somebody's.
WritersAreOrdered == OneWriterPerSave /\ RegistryExact /\ PartsCleanedUp

\* What an upload replaces is the newest backup of that save at that moment,
\* unless more than KeepLimit + 1 backups of it fell into that second: then the
\* newest is the one of the last upload that did fit.
ReplacedIsBackedUp ==
  [][\A r \in Reqs : Commit(r) /\ files[save[r]] # None =>
       \/ backups[save[r]] # <<>> /\ Head(backups[save[r]]) = files[save[r]]
       \/ burst[save[r]] > KeepLimit + 1]_vars

\* The handlers implement an atomic compare-and-swap per save, whatever the
\* interleaving, failures and crashes; the refusals report the content that
\* was there at the time.
State(r) == IF pc[r] = "idle" THEN "new"
            ELSE IF applied[r] THEN "applied"
            ELSE IF current[r] # None THEN "refused"
            ELSE IF status[r] = "error" THEN "failed" ELSE "pending"

AbsState == [r \in Reqs |-> State(r)]
AbsReply == [r \in Reqs |-> IF pc[r] = "done" THEN status[r] ELSE None]

Abstract == INSTANCE SaveStore WITH store <- files, state <- AbsState, reply <- AbsReply

ImplementsStore == Abstract!Spec

\* Two uploads based on the same version cannot both be stored.
NoLostUpdate == Abstract!NoLostUpdate

\* Every request that reached the lock is answered.
Answered == \A r \in Reqs : pc[r] = "wait" ~> pc[r] = "done"

\* An index entry is a save that some upload completed, never a file that is
\* still being written or was abandoned.
IndexHasNoParts == indexParts = {}

\* Until an operator edits saves/, uploads never give the files of a
\* learned_tree binding two learned roots: a
\* handler checks the root in the index and writes after giving up the event
\* loop, and two saves of one binding have different locks.
SingleRoot ==
  \A s, t \in Tree : files[s] # None /\ files[t] # None => RootOf[s] = RootOf[t]

RootsStayConsistent == [][edits' = 0 /\ SingleRoot => SingleRoot']_vars
=============================================================================
