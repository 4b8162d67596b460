------------------------------ MODULE SaveSync -------------------------------
(***************************************************************************)
(* One save kept on the server and on several clients (gamehub_cli/sync    *)
(* and gamehub_cli/shortcuts): runs of `gamehub sync`, managed shortcut    *)
(* launches and `gamehub doctor saves --keep-*`, each of which loads       *)
(* state.json, fetches the index, decides, transfers and writes state.json *)
(* back.  The server is the compare-and-swap register of SaveStore.        *)
(* Contents are numbered in the order the games write them; hist records   *)
(* what every content supersedes.                                          *)
(***************************************************************************)
EXTENDS Integers, FiniteSets, SaveDecision

CONSTANTS
  Clients,     \* machines
  Procs,       \* gamehub processes, one operation at a time each
  ClientOf,    \* [Procs -> Clients]
  Kinds,       \* the operations the processes run
  ModeOf,      \* [Clients -> [save_sync].mode]
  PolicyOf,    \* [Clients -> [save_sync].conflict_policy]
  Orders,      \* how the modification times may compare
  Faults,      \* what may go wrong
  MaxVersion   \* bound: contents the games write

Operators == {"keep-server", "keep-local"}
AllKinds == {"sync", "session"} \cup Operators

(* "abort"    a process is killed, or fails elsewhere before it saves its state
   "upload"   an upload fails, with or without effect on the server
   "download" a download fails
   "offline"  the server is unreachable before or after a session
   "play"     a game writes the save while gamehub works on it               *)
AllFaults == {"abort", "upload", "download", "offline", "play"}

Versions == 1..MaxVersion
Optional == Versions \cup {None}
Reasons == {Missed, "lineage-missing", "both-changed", "lineage-ambiguous",
            "refused", "remote-changed-during-session", "create-race"}

ASSUME ConstantsAssumption ==
  /\ ClientOf \in [Procs -> Clients] /\ Kinds \subseteq AllKinds
  /\ ModeOf \in [Clients -> Modes] /\ PolicyOf \in [Clients -> Policies]
  /\ Orders \subseteq TimeOrders /\ Faults \subseteq AllFaults
  /\ MaxVersion \in Nat
ASSUME NoneAssumption == None \notin Versions /\ None \notin Reasons

VARIABLES
  server,  \* the save on the server, or None
  files,   \* [Clients -> the local save file, or None]
  next,    \* the next content a game will write
  hist,    \* observer: [Versions -> the contents it supersedes, itself included]
  disk,    \* [Clients -> state.json]
  pc,      \* per process: what it does next
  kind,    \* per process: the operation
  mem,     \* per process: its SyncState, loaded from state.json
  remote,  \* per process: the server's save as it knows it
  seen,    \* per process: the local save when it decided
  plan,    \* per process: the decision and its reason
  allow,   \* per session: allow_postexit_upload of its snapshot
  dirty    \* per session: state_changed

contents == <<server, files, next, hist>>
procVars == <<kind, remote, seen, plan, allow>>
vars == <<contents, disk, pc, procVars, mem, dirty>>

\* The part of state.json that is about the save: its lineage, its unresolved
\* conflict and the offline marker of its title.
State(ll, lr, un, off) == [ll |-> ll, lr |-> lr, un |-> un, off |-> off]
NoState == State(None, None, None, FALSE)
States == [ll : Optional, lr : Optional, un : Reasons \cup {None}, off : BOOLEAN]

\* Mutant: keeps the remote side of a lineage that is already there.
ConvergedKeepsRemote(m, l, r) == State(l, IF m.lr = None THEN r ELSE m.lr, None, m.off)

\* record_converged_save_state
Converged(m, l, r) == State(l, r, None, m.off)

Unresolved(m, reason) == State(m.ll, m.lr, reason, m.off)

\* _record_missed_postexit_upload
MissedUpload(m, l) == State(l, m.lr, Missed, m.off)

NoPlan == Decide("none", "none")
PlanReasons ==
  {"none", "local-missing", "already-synced", "download-mode-local-drift",
   "download-mode-local-new", "local-changed-remote-unchanged",
   "remote-changed-local-unchanged", "local-only-create", "session", "operator",
   "lineage-missing", "both-changed", "lineage-ambiguous"} \cup TimestampReasons
Plans == [decision : Decisions \cup {"none"}, reason : PlanReasons]

Init ==
  /\ server = None /\ files = [c \in Clients |-> None]
  /\ next = 1 /\ hist = [v \in Versions |-> {}]
  /\ disk = [c \in Clients |-> NoState]
  /\ pc = [p \in Procs |-> "idle"] /\ kind = [p \in Procs |-> "sync"]
  /\ mem = [p \in Procs |-> NoState]
  /\ remote = [p \in Procs |-> None] /\ seen = [p \in Procs |-> None]
  /\ plan = [p \in Procs |-> NoPlan]
  /\ allow = [p \in Procs |-> FALSE] /\ dirty = [p \in Procs |-> FALSE]

File(p) == files[ClientOf[p]]
Mode(p) == ModeOf[ClientOf[p]]
Policy(p) == PolicyOf[ClientOf[p]]
Goto(p, where) == pc' = [pc EXCEPT ![p] = where]
SetMem(p, m) == mem' = [mem EXCEPT ![p] = m]

Touch(p) == dirty' = [dirty EXCEPT ![p] = TRUE]

-----------------------------------------------------------------------------
(* Games.                                                                  *)

Write(c) ==
  /\ next \in Versions
  /\ files' = [files EXCEPT ![c] = next]
  /\ hist' = [hist EXCEPT ![next] =
       {next} \cup (IF files[c] = None THEN {} ELSE hist[files[c]])]
  /\ next' = next + 1

\* A game started without gamehub's launcher.
Play(c) ==
  /\ "play" \in Faults \/ \A p \in Procs : ClientOf[p] = c => pc[p] = "idle"
  /\ Write(c)
  /\ UNCHANGED <<server, disk, pc, procVars, mem, dirty>>

-----------------------------------------------------------------------------
(* Decisions that replace a content by one that need not descend from it:  *)
(* from then on the new one supersedes the old one.                        *)

Automatic == {"local-missing", "local-changed-remote-unchanged",
              "remote-changed-local-unchanged", "local-only-create", "session"}

Supersede(old, new) ==
  hist' = [v \in Versions |-> IF new \in hist[v] THEN hist[v] \cup hist[old] ELSE hist[v]]

Replace(p, old, new) ==
  IF old = None \/ plan[p].reason \in Automatic THEN UNCHANGED hist ELSE Supersede(old, new)

-----------------------------------------------------------------------------
(* Every operation: load state.json, then fetch the index.                 *)

Start(p, k) ==
  /\ pc[p] = "idle"
  /\ kind' = [kind EXCEPT ![p] = k]
  /\ SetMem(p, disk[ClientOf[p]])
  /\ Goto(p, "fetch")
  /\ UNCHANGED <<contents, disk, remote, seen, plan, allow, dirty>>

Fetch(p) ==
  /\ pc[p] = "fetch"
  /\ remote' = [remote EXCEPT ![p] = server]
  /\ Goto(p, "plan")
  /\ UNCHANGED <<contents, disk, kind, mem, seen, plan, allow, dirty>>

Done(p) ==
  /\ Goto(p, "idle")
  /\ kind' = [kind EXCEPT ![p] = "sync"] /\ mem' = [mem EXCEPT ![p] = NoState]
  /\ remote' = [remote EXCEPT ![p] = None] /\ seen' = [seen EXCEPT ![p] = None]
  /\ plan' = [plan EXCEPT ![p] = NoPlan]
  /\ allow' = [allow EXCEPT ![p] = FALSE] /\ dirty' = [dirty EXCEPT ![p] = FALSE]

\* Killed, or failed before it writes its state: what it did to the files stays.
Abort(p) ==
  /\ "abort" \in Faults /\ pc[p] # "idle"
  /\ Done(p)
  /\ UNCHANGED <<contents, disk>>

-----------------------------------------------------------------------------
(* gamehub sync and the operator's choices.                                *)

\* Mutant: plans to create a save that has no local file.
PlannedMissing(p, order) ==
  IF remote[p] = None THEN LocalOnly(Mode(p))
  ELSE Resolve(remote[p], File(p), Mode(p), Policy(p), mem[p].ll, mem[p].lr, mem[p].un, order)

\* What create_sync_plan decides for the save.
Planned(p, order) ==
  IF remote[p] = None
  THEN IF File(p) = None THEN NoPlan ELSE LocalOnly(Mode(p))
  ELSE Resolve(remote[p], File(p), Mode(p), Policy(p), mem[p].ll, mem[p].lr, mem[p].un, order)

Phase(decision) == CASE decision = "download" -> "download"
                     [] decision \in {"upload_existing", "upload_new"} -> "upload"
                     [] OTHER -> "finish"

SyncPlan(p) ==
  /\ pc[p] = "plan" /\ kind[p] = "sync"
  /\ \E order \in Orders : plan' = [plan EXCEPT ![p] = Planned(p, order)]
  /\ seen' = [seen EXCEPT ![p] = File(p)]
  /\ SetMem(p, IF plan'[p].decision = "conflict"
               THEN Unresolved(mem[p], plan'[p].reason) ELSE mem[p])
  /\ Goto(p, Phase(plan'[p].decision))
  /\ UNCHANGED <<contents, disk, kind, remote, allow, dirty>>

\* The operator may only decide about a save that needs a decision.
Interesting(p, order) ==
  \/ mem[p].un # None
  \/ Planned(p, order) \notin {NoPlan, Decide("skip", "already-synced")}

OperatorPlan(p) ==
  /\ pc[p] = "plan" /\ kind[p] \in Operators
  /\ \E order \in Orders : Interesting(p, order)
  /\ IF kind[p] = "keep-server" THEN remote[p] # None ELSE File(p) # None
  /\ plan' = [plan EXCEPT ![p] = Decide(
       CASE kind[p] = "keep-server" -> "download"
         [] kind[p] = "keep-local" /\ remote[p] = None -> "upload_new"
         [] OTHER -> "upload_existing", "operator")]
  /\ Goto(p, Phase(plan'[p].decision))
  /\ UNCHANGED <<contents, disk, kind, mem, remote, seen, allow, dirty>>

OperatorRefused(p) ==
  /\ pc[p] = "plan" /\ kind[p] \in Operators
  /\ \/ \E order \in Orders : ~Interesting(p, order)
     \/ IF kind[p] = "keep-server" THEN remote[p] = None ELSE File(p) = None
  /\ Done(p)
  /\ UNCHANGED <<contents, disk>>

-----------------------------------------------------------------------------
(* Transfers.                                                              *)

Download(p) ==
  /\ pc[p] = "download" /\ server = remote[p]
  /\ files' = [files EXCEPT ![ClientOf[p]] = server]
  /\ Replace(p, File(p), server)
  /\ SetMem(p, Converged(mem[p], server, server)) /\ Touch(p)
  /\ seen' = [seen EXCEPT ![p] = server]
  /\ Goto(p, IF kind[p] = "session" THEN "play" ELSE "finish")
  /\ UNCHANGED <<server, next, disk, kind, remote, plan, allow>>

\* The server has other content than its index announced, or does not answer.
\* A session plays on; the others give up without saving their state.
DownloadFails(p) ==
  /\ pc[p] = "download" /\ (server # remote[p] \/ "download" \in Faults)
  /\ \/ /\ kind[p] = "session" /\ Goto(p, "play")
        /\ UNCHANGED <<procVars, mem, dirty>>
     \/ kind[p] # "session" /\ Done(p)
  /\ UNCHANGED <<contents, disk>>

\* Mutant: asks the server for the version to replace.
ExpectedLatest(p) == IF plan[p].decision = "upload_new" THEN None ELSE server

Expected(p) == IF plan[p].decision = "upload_new" THEN None ELSE remote[p]

\* The reply names the content that is now on the server.
Upload(p) ==
  /\ pc[p] = "upload" /\ server = Expected(p)
  /\ server' = File(p)
  /\ Replace(p, server, File(p))
  /\ remote' = [remote EXCEPT ![p] = File(p)]
  /\ Goto(p, "record")
  /\ UNCHANGED <<files, next, disk, kind, mem, seen, plan, allow, dirty>>

\* record_uploaded_save hashes the local file again.
Record(p) ==
  /\ pc[p] = "record"
  /\ SetMem(p, Converged(mem[p], File(p), remote[p])) /\ Touch(p)
  /\ Goto(p, "finish")
  /\ UNCHANGED <<contents, disk, procVars>>

RefusalReason(p) == IF kind[p] = "session" /\ plan[p].decision = "upload_new"
                    THEN "create-race" ELSE "refused"

\* 409: converged all the same if the server has the local content already.
UploadRefused(p) ==
  /\ pc[p] = "upload" /\ server # Expected(p)
  /\ SetMem(p, IF server = File(p) THEN Converged(mem[p], File(p), server)
               ELSE Unresolved(mem[p], RefusalReason(p)))
  /\ Touch(p) /\ Goto(p, "finish")
  /\ UNCHANGED <<contents, disk, procVars>>

\* No answer, whether the upload was stored or not.  A session checks whether
\* the server is still there.
UploadFails(p) ==
  /\ pc[p] = "upload" /\ "upload" \in Faults
  /\ \/ UNCHANGED <<server, hist>>
     \/ /\ server = Expected(p) /\ server' = File(p)
        /\ Replace(p, server, File(p))
  /\ \/ kind[p] # "session" /\ Done(p)
     \/ /\ kind[p] = "session"
        /\ \E m \in (IF plan[p].decision = "upload_new"
                     THEN {Unresolved(mem[p], "create-race")}
                     ELSE IF "offline" \in Faults
                          THEN {mem[p], MissedUpload(mem[p], File(p))}
                          ELSE {mem[p]}) : SetMem(p, m)
        /\ dirty' = [dirty EXCEPT ![p] = @ \/ mem'[p] # mem[p]]
        /\ Goto(p, "finish") /\ UNCHANGED procVars
  /\ UNCHANGED <<files, next, disk>>

-----------------------------------------------------------------------------
(* Managed shortcut launches, before the game.                             *)

PrelaunchOffline(p) ==
  /\ "offline" \in Faults /\ pc[p] = "fetch" /\ kind[p] = "session"
  /\ IF Mode(p) = "bidirectional"
     THEN SetMem(p, State(mem[p].ll, mem[p].lr, mem[p].un, TRUE)) /\ Touch(p)
     ELSE UNCHANGED <<mem, dirty>>
  /\ Goto(p, "play")
  /\ UNCHANGED <<contents, disk, procVars>>

\* The save drifted, nothing is known about its lineage, and its title was
\* played offline.
SeedsMissed(p) ==
  /\ Mode(p) = "bidirectional" /\ mem[p].off /\ mem[p].un = None
  /\ File(p) \notin {None, remote[p]} /\ mem[p].ll = None /\ mem[p].lr = None

PrelaunchPlan(p) ==
  /\ pc[p] = "plan" /\ kind[p] = "session" /\ remote[p] # None
  /\ \E order \in Orders :
       LET seeds == SeedsMissed(p) /\ order # "unknown"
           keepsMarker == SeedsMissed(p) /\ order = "unknown"
           un == IF seeds THEN Missed ELSE mem[p].un
           outcome == Resolve(remote[p], File(p), Mode(p), Policy(p), mem[p].ll, mem[p].lr, un, order)
           conflict == outcome.decision = "conflict"
           off == mem[p].off /\ (keepsMarker \/ Mode(p) = "download")
       IN /\ plan' = [plan EXCEPT ![p] = outcome]
          /\ SetMem(p, State(mem[p].ll, mem[p].lr,
                             IF conflict THEN outcome.reason ELSE un, off))
          /\ dirty' = [dirty EXCEPT ![p] = seeds \/ conflict \/ off # mem[p].off]
          /\ allow' = [allow EXCEPT ![p] = ~conflict]
          /\ Goto(p, IF outcome.decision = "download" THEN "download" ELSE "play")
  /\ seen' = [seen EXCEPT ![p] = File(p)]
  /\ UNCHANGED <<contents, disk, kind, remote>>

\* The index does not know the save: only its file name is watched.
PrelaunchUnknown(p) ==
  /\ pc[p] = "plan" /\ kind[p] = "session" /\ remote[p] = None
  /\ LET off == mem[p].off /\ Mode(p) = "download"
     IN /\ SetMem(p, State(mem[p].ll, mem[p].lr, mem[p].un, off))
        /\ dirty' = [dirty EXCEPT ![p] = off # mem[p].off]
  /\ allow' = [allow EXCEPT ![p] = TRUE]
  /\ seen' = [seen EXCEPT ![p] = File(p)]
  /\ Goto(p, "play")
  /\ UNCHANGED <<contents, disk, kind, remote, plan>>

(* The game, or its failure to start.                                      *)

GameWrites(p) ==
  /\ pc[p] = "play" /\ Write(ClientOf[p]) /\ Goto(p, "exit")
  /\ UNCHANGED <<server, disk, procVars, mem, dirty>>

GameQuits(p) ==
  /\ pc[p] = "play" /\ Goto(p, "exit")
  /\ UNCHANGED <<contents, disk, procVars, mem, dirty>>

LaunchFails(p) ==
  /\ pc[p] = "play" /\ Goto(p, "finish")
  /\ UNCHANGED <<contents, disk, procVars, mem, dirty>>

(* After the game.                                                         *)

Watches(p) == Mode(p) = "bidirectional" /\ allow[p] /\ File(p) # None
Pending(p) == plan[p].decision = "upload_existing"
Wants(p) == Watches(p) /\ IF remote[p] = None THEN TRUE ELSE Pending(p) \/ File(p) # seen[p]

ExitQuiet(p) ==
  /\ pc[p] = "exit" /\ ~Wants(p)
  /\ Goto(p, "finish")
  /\ UNCHANGED <<contents, disk, procVars, mem, dirty>>

ExitOffline(p) ==
  /\ "offline" \in Faults /\ pc[p] = "exit" /\ Wants(p)
  /\ IF remote[p] = None THEN UNCHANGED <<mem, dirty>>
     ELSE /\ SetMem(p, MissedUpload(mem[p], File(p)))
          /\ dirty' = [dirty EXCEPT ![p] = @ \/ mem'[p] # mem[p]]
  /\ Goto(p, "finish")
  /\ UNCHANGED <<contents, disk, procVars>>

\* The save the session started from is still the server's: upload.
ExitUploads(p) ==
  /\ pc[p] = "exit" /\ Wants(p) /\ remote[p] # None /\ server = remote[p]
  /\ plan' = [plan EXCEPT ![p] =
       IF Pending(p) THEN plan[p] ELSE Decide("upload_existing", "session")]
  /\ Goto(p, "upload")
  /\ UNCHANGED <<contents, disk, kind, mem, remote, seen, allow, dirty>>

ExitConflict(p) ==
  /\ pc[p] = "exit" /\ Wants(p) /\ remote[p] # None /\ server # remote[p]
  /\ SetMem(p, Unresolved(mem[p], "remote-changed-during-session"))
  /\ Touch(p) /\ Goto(p, "finish")
  /\ UNCHANGED <<contents, disk, procVars>>

\* The save did not exist when the session began: create it, unless another
\* client has done so.
ExitCreates(p) ==
  /\ pc[p] = "exit" /\ Wants(p) /\ remote[p] = None /\ server = None
  /\ plan' = [plan EXCEPT ![p] = Decide("upload_new", "session")]
  /\ Goto(p, "upload")
  /\ UNCHANGED <<contents, disk, kind, mem, remote, seen, allow, dirty>>

CreateRace(p) ==
  /\ pc[p] = "exit" /\ Wants(p) /\ remote[p] = None /\ server # None
  /\ SetMem(p, IF File(p) = server THEN Converged(mem[p], server, server)
               ELSE Unresolved(mem[p], "create-race"))
  /\ Touch(p) /\ Goto(p, "finish")
  /\ UNCHANGED <<contents, disk, procVars>>

-----------------------------------------------------------------------------
(* The state is written back, as a whole.                                  *)

Transient == {Missed, "remote-changed-during-session", "create-race"}

\* Mutant: every conflict is pruned.
PrunedAll(p) == Unresolved(mem[p], None)

\* prune_persisted_save_conflicts
Pruned(p) ==
  CASE mem[p].un # None /\ plan[p] = Decide("skip", "already-synced") ->
         Converged(mem[p], seen[p], remote[p])
    [] plan[p] = NoPlan /\ mem[p].un \in Transient -> Unresolved(mem[p], None)
    [] OTHER -> mem[p]

Finish(p) ==
  /\ pc[p] = "finish"
  /\ disk' = [disk EXCEPT ![ClientOf[p]] =
       CASE kind[p] = "sync" -> Pruned(p)
         [] kind[p] = "session" /\ ~dirty[p] -> disk[ClientOf[p]]
         [] OTHER -> mem[p]]
  /\ Done(p)
  /\ UNCHANGED contents

-----------------------------------------------------------------------------
Step(p) ==
  \/ Fetch(p) \/ SyncPlan(p) \/ OperatorPlan(p) \/ OperatorRefused(p)
  \/ Download(p) \/ DownloadFails(p)
  \/ Upload(p) \/ Record(p) \/ UploadRefused(p) \/ UploadFails(p)
  \/ PrelaunchOffline(p) \/ PrelaunchPlan(p) \/ PrelaunchUnknown(p)
  \/ GameWrites(p) \/ GameQuits(p) \/ LaunchFails(p)
  \/ ExitQuiet(p) \/ ExitOffline(p) \/ ExitUploads(p) \/ ExitConflict(p)
  \/ ExitCreates(p) \/ CreateRace(p)
  \/ Finish(p)

Next ==
  \/ \E c \in Clients : Play(c)
  \/ \E p \in Procs : Step(p) \/ Abort(p) \/ \E k \in Kinds : Start(p, k)

Spec == Init /\ [][Next]_vars

\* Every process finishes what it began, and `gamehub sync` is run again and
\* again on every client.
FairSpec == /\ Spec
            /\ \A p \in Procs : WF_vars(Step(p)) /\ SF_vars(Start(p, "sync"))

-----------------------------------------------------------------------------
(* Properties.                                                             *)

\* Every variable keeps its type, and a transfer in progress has its operands:
\* a download knows a server save, an upload has a local file to send.
TypeOK ==
  /\ server \in Optional /\ files \in [Clients -> Optional]
  /\ next \in 1..(MaxVersion + 1) /\ hist \in [Versions -> SUBSET Versions]
  /\ disk \in [Clients -> States] /\ mem \in [Procs -> States]
  /\ pc \in [Procs -> {"idle", "fetch", "plan", "download", "upload", "record",
                       "play", "exit", "finish"}]
  /\ kind \in [Procs -> AllKinds]
  /\ remote \in [Procs -> Optional] /\ seen \in [Procs -> Optional]
  /\ plan \in [Procs -> Plans]
  /\ allow \in [Procs -> BOOLEAN] /\ dirty \in [Procs -> BOOLEAN]
  /\ \A p \in Procs : /\ pc[p] = "download" => remote[p] # None
                      /\ pc[p] \in {"upload", "record"} => File(p) # None

Supersedes(new, old) == old = None \/ (new # None /\ old \in hist'[new])

\* A local save is only ever replaced by one that supersedes it: a game's next
\* write, a descendant from the server, or what the operator, the policy or the
\* time stamps of a missed upload chose instead.
LocalNotLost == [][\A c \in Clients : files'[c] # files[c] => Supersedes(files'[c], files[c])]_vars

\* The same holds of the save on the server.
ServerNotLost == [][server' # server => Supersedes(server', server)]_vars

\* The lineage in state.json is a content both sides have seen: it is an
\* ancestor of the local save and of the server's.
LineageShared ==
  \A c \in Clients : LET line == disk[c].ll IN
    line # None => /\ disk[c].lr = line
                   /\ server # None /\ line \in hist[server]
                   /\ files[c] # None /\ line \in hist[files[c]]

\* With nobody playing any more, every client ends up with the server's save;
\* under the manual policy a conflict on record will do.
Settles ==
  <>[](\A c \in Clients :
         files[c] = server \/ (PolicyOf[c] = "manual" /\ disk[c].un # None))
=============================================================================
