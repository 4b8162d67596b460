--------------------------- MODULE SaveSyncProofs ----------------------------
(***************************************************************************)
(* No save of SaveSync is lost: the inductive invariant behind             *)
(* LineageShared, LocalNotLost and ServerNotLost, for any machines,        *)
(* processes, policies, modes and contents.                                *)
(***************************************************************************)
EXTENDS SaveSync, TLAPS

\* The server answers around sessions, games only write while no process of
\* their machine works on the save, and each machine runs one process.
Undisturbed ==
  /\ "offline" \notin Faults /\ "play" \notin Faults
  /\ \A p, q \in Procs : ClientOf[p] = ClientOf[q] => p = q

\* new descends from old.
Descends(new, old) == new # None /\ old \in hist[new]

(***************************************************************************)
(* The inductive invariant.                                                *)
(***************************************************************************)

\* The contents written so far supersede themselves and others that were written,
\* transitively, ...
Ancestry ==
  /\ \A v \in Versions : v < next => v \in hist[v]
  /\ \A v \in Versions : v >= next => hist[v] = {}
  /\ \A v \in Versions : \A u \in hist[v] : u < next
  /\ \A v \in Versions : \A u \in hist[v] : hist[u] \subseteq hist[v]

\* ... and only they are in use.
InUse == /\ server # None => server < next
         /\ \A c \in Clients : files[c] # None => files[c] < next

\* A lineage names one content, which both the file and the server descend from.
Lineage(m, c) ==
  /\ m.ll = m.lr
  /\ m.ll # None => Descends(server, m.ll) /\ Descends(files[c], m.ll)

\* Something other than the lineage chose what is kept.
Chosen(p) == plan[p].reason \notin Automatic

\* A session whose download failed: its game goes on with the save it had.
Stranded(p) == kind[p] = "session" /\ plan[p].decision = "download" /\ seen[p] # remote[p]

\* The server's save has only moved on since the process learned of it.
Learned(p) == remote[p] # None => Descends(server, remote[p])

\* A download replaces a file that the server's save descends from, or a choice
\* was made.
Downloading(p) ==
  /\ plan[p].decision = "download"
  /\ kind[p] = "session" => Stranded(p)
  /\ File(p) = None \/ Chosen(p) \/ Descends(server, File(p))

\* An upload creates the save, or replaces one that the file descends from, or a
\* choice was made.
Uploading(p) ==
  \/ plan[p].decision = "upload_new"
  \/ /\ plan[p].decision = "upload_existing" /\ remote[p] # None
     /\ Chosen(p) \/ Descends(File(p), remote[p])

\* What the server has acknowledged is the local file still.
Recording(p) ==
  remote[p] = File(p) /\ plan[p].decision \in {"upload_new", "upload_existing"}

\* What a session may upload when the game is over.
Playing(p) ==
  /\ kind[p] = "session"
  /\ Mode(p) = "bidirectional" /\ allow[p] /\ remote[p] # None =>
       Stranded(p) \/ (Pending(p) /\ Chosen(p)) \/ Descends(File(p), remote[p])

\* A save found in sync is put on record as it was found.
Finishing(p) ==
  kind[p] = "sync" /\ plan[p] = Decide("skip", "already-synced") =>
    remote[p] # None /\ seen[p] = remote[p] /\ File(p) = remote[p]

ProcInv(p) ==
  /\ Lineage(mem[p], ClientOf[p]) /\ Learned(p)
  /\ pc[p] = "download" => Downloading(p)
  /\ pc[p] = "upload" => Uploading(p)
  /\ pc[p] = "record" => Recording(p)
  /\ pc[p] \in {"play", "exit"} => Playing(p)
  /\ pc[p] = "finish" => Finishing(p)

DiskInv == \A c \in Clients : Lineage(disk[c], c)

IInv == TypeOK /\ Ancestry /\ InUse /\ DiskInv /\ \A p \in Procs : ProcInv(p)

\* When a stranded session ends, the server does not have the very content
\* again that the session could not download.
NoReturn == \A p \in Procs : Stranded(p) /\ pc[p] = "exit" => server # remote[p]

\* Nothing is decided by a choice, and a download only fails when the server has
\* something else.
NobodyChooses ==
  /\ Kinds \cap Operators = {} /\ "download" \notin Faults
  /\ \A c \in Clients : PolicyOf[c] = "manual"

\* Without choices contents descend from earlier ones only, ...
Ordered == \A v \in Versions : \A u \in hist[v] : u <= v

NotMissed(m) == m.un # Missed /\ ~m.off

\* ... so the server has moved on for good from what a stranded session could not
\* download.
OrderInv ==
  /\ Ordered
  /\ \A c \in Clients : NotMissed(disk[c])
  /\ \A p \in Procs :
       /\ kind[p] \notin Operators /\ NotMissed(mem[p])
       /\ pc[p] \in {"idle", "fetch", "plan"} => plan[p] = NoPlan
       /\ pc[p] \in {"download", "upload"} \/ Pending(p) => ~Chosen(p)
       /\ Stranded(p) /\ pc[p] \in {"play", "exit"} => server # remote[p]

-----------------------------------------------------------------------------
(* Types.                                                                  *)

\* The parts of TypeOK.
Types ==
  /\ server \in Optional /\ files \in [Clients -> Optional]
  /\ next \in 1..(MaxVersion + 1) /\ hist \in [Versions -> SUBSET Versions]
  /\ disk \in [Clients -> States] /\ mem \in [Procs -> States]
  /\ pc \in [Procs -> {"idle", "fetch", "plan", "download", "upload", "record",
                       "play", "exit", "finish"}]
  /\ kind \in [Procs -> AllKinds]
  /\ remote \in [Procs -> Optional] /\ seen \in [Procs -> Optional]
  /\ plan \in [Procs -> Plans]
  /\ allow \in [Procs -> BOOLEAN] /\ dirty \in [Procs -> BOOLEAN]

Operands(p) == /\ pc[p] = "download" => remote[p] # None
               /\ pc[p] \in {"upload", "record"} => File(p) # None

\* TypeOK is Types and Operands.
LEMMA TypeParts == TypeOK <=> Types /\ \A p \in Procs : Operands(p)
  BY DEF TypeOK, Types, Operands

\* A lineage in state.json, whatever its fields.
LEMMA StateType ==
  ASSUME NEW ll \in Optional, NEW lr \in Optional, NEW un \in Reasons \cup {None},
         NEW off \in BOOLEAN
  PROVE  /\ State(ll, lr, un, off) \in States
         /\ State(ll, lr, un, off).ll = ll /\ State(ll, lr, un, off).lr = lr
         /\ State(ll, lr, un, off).un = un /\ State(ll, lr, un, off).off = off
  BY DEF State, States

\* What the ways of changing a state leave.
LEMMA StateChanges ==
  ASSUME NEW m \in States, NEW l \in Optional, NEW r \in Optional,
         NEW un \in Reasons \cup {None}
  PROVE  /\ Converged(m, l, r) \in States
         /\ Converged(m, l, r).ll = l /\ Converged(m, l, r).lr = r
         /\ Converged(m, l, r).un = None /\ Converged(m, l, r).off = m.off
         /\ Unresolved(m, un) \in States
         /\ Unresolved(m, un).ll = m.ll /\ Unresolved(m, un).lr = m.lr
         /\ Unresolved(m, un).un = un /\ Unresolved(m, un).off = m.off
         /\ MissedUpload(m, l) \in States
         /\ NoState \in States /\ NoState.ll = None /\ NoState.lr = None
         /\ NoState.un = None /\ NoState.off = FALSE
  BY DEF Converged, Unresolved, MissedUpload, NoState, State, States, Optional, Reasons

\* The reasons of a conflict.
ConflictReasons == {"lineage-missing", "both-changed", "lineage-ambiguous"}

\* What Resolve can answer about a save the server has.
LEMMA Resolved ==
  ASSUME NEW r \in Versions, NEW l \in Optional, NEW mode \in Modes,
         NEW policy \in Policies, NEW ll, NEW lr, NEW un, NEW order \in TimeOrders,
         NEW d, d = Resolve(r, l, mode, policy, ll, lr, un, order)
  PROVE  /\ d \in Plans
         /\ d.decision \in {"download", "upload_existing", "skip", "conflict"}
         /\ d.decision = "conflict" => d.reason \in ConflictReasons
         /\ d.decision = "upload_existing" => l # None
         /\ d.decision = "skip" => l = r \/ mode = "download"
         /\ d = Decide("skip", "already-synced") => l = r
         /\ d.decision = "download" => l # r
  <1>0. r # None
    BY NoneAssumption
  <1>1. ASSUME NEW reason \in ConflictReasons
        PROVE  /\ ByPolicy(policy, reason) \in Plans
               /\ ByPolicy(policy, reason).decision \in {"download", "upload_existing", "conflict"}
               /\ ByPolicy(policy, reason).reason \in ConflictReasons
    BY <1>1 DEF ByPolicy, Decide, Policies, Plans, Decisions, ConflictReasons, PlanReasons
  <1>2. CASE l = None
    BY <1>0, <1>2 DEF Resolve, Classify, Decide, Plans, Decisions, PlanReasons
  <1>3. CASE l # None /\ TimestampDecides(mode, un, order) /\ l # r
    BY <1>3 DEF Resolve, ByTimestamp, TimestampReasons, Decide, Plans, Decisions, PlanReasons
  <1> DEFINE e == ByLineage(r, l, policy, ll, lr)
  <1>4. /\ e \in Plans /\ e.decision \in {"download", "upload_existing", "conflict"}
        /\ e.decision = "conflict" => e.reason \in ConflictReasons
    <2>1. CASE ll = None /\ lr = None
      BY <1>1, <2>1 DEF ByLineage, Changed, ConflictReasons
    <2>2. CASE ~(ll = None /\ lr = None) /\ Changed(l, ll) /\ ~Changed(r, lr)
      BY <2>2 DEF ByLineage, Decide, Plans, Decisions, PlanReasons
    <2>3. CASE ~(ll = None /\ lr = None) /\ Changed(r, lr) /\ ~Changed(l, ll)
      BY <2>3 DEF ByLineage, Decide, Plans, Decisions, PlanReasons
    <2>4. CASE ~(ll = None /\ lr = None) /\ (Changed(r, lr) <=> Changed(l, ll))
      BY <1>1, <2>4 DEF ByLineage, ConflictReasons
    <2> QED BY <2>1, <2>2, <2>3, <2>4
  <1>5. CASE l # None /\ ~(TimestampDecides(mode, un, order) /\ l # r)
    <2>1. d = Classify(r, l, mode, policy, ll, lr)
      BY <1>5, <1>0 DEF Resolve, TimestampDecides
    <2>2. CASE l = r
      BY <2>1, <2>2, <1>5 DEF Classify, Decide, Plans, Decisions, PlanReasons
    <2>3. CASE l # r /\ mode = "download"
      BY <2>1, <2>3, <1>5 DEF Classify, Decide, Plans, Decisions, PlanReasons
    <2>4. CASE l # r /\ mode # "download"
      <3>1. d = e
        BY <2>1, <2>4, <1>5 DEF Classify
      <3>2. e.decision # "skip"
        BY <1>4
      <3>3. e # Decide("skip", "already-synced")
        BY <3>2 DEF Decide
      <3> QED BY <3>1, <3>2, <3>3, <1>4, <2>4, <1>5
    <2> QED BY <2>2, <2>3, <2>4
  <1> QED BY <1>2, <1>3, <1>5

\* Who runs a process.
LEMMA Machines ==
  ASSUME TypeOK, NEW p \in Procs
  PROVE  /\ ClientOf[p] \in Clients /\ Mode(p) \in Modes /\ Policy(p) \in Policies
         /\ File(p) \in Optional
         /\ remote[p] \in Optional /\ seen[p] \in Optional /\ plan[p] \in Plans
         /\ mem[p] \in States /\ disk[ClientOf[p]] \in States
         /\ kind[p] \in AllKinds
         /\ mem[p].ll \in Optional /\ mem[p].lr \in Optional
         /\ mem[p].un \in Reasons \cup {None} /\ mem[p].off \in BOOLEAN
  BY ConstantsAssumption DEF TypeOK, Mode, Policy, File, States

\* None is not a content.
LEMMA NoneIsNone == None \notin Versions /\ Versions \subseteq Nat
  BY NoneAssumption, ConstantsAssumption DEF Versions

\* The end of an operation.
LEMMA DoneTypes ==
  ASSUME TypeOK, NEW p \in Procs, Done(p), UNCHANGED <<server, next, hist, files>>,
         disk' \in [Clients -> States]
  PROVE  TypeOK'
  <1>1. NoPlan \in Plans
    BY DEF NoPlan, Decide, Plans, PlanReasons
  <1>2. Types'
    BY <1>1, TypeParts, StateChanges DEF Types, Done, Goto, Optional, AllKinds, Operators
  <1>3. \A q \in Procs : Operands(q)'
    BY TypeParts DEF Types, Operands, File, Done, Goto
  <1> QED BY <1>2, <1>3 DEF TypeOK, Types, Operands

\* A write by a game.
LEMMA WriteTypes ==
  ASSUME TypeOK, NEW c \in Clients, Write(c)
  PROVE  /\ files' \in [Clients -> Optional] /\ next' \in 1..(MaxVersion + 1)
         /\ hist' \in [Versions -> SUBSET Versions]
         /\ \A d \in Clients : files[d] # None => files'[d] # None
  <1>1. next \in Versions /\ next \in Nat /\ MaxVersion \in Nat /\ next + 1 \in 1..(MaxVersion + 1)
    BY ConstantsAssumption DEF Write, Versions
  <1>2. files' \in [Clients -> Optional] /\ next' \in 1..(MaxVersion + 1)
    BY <1>1 DEF TypeOK, Write, Optional
  <1>3. \A d \in Clients : files[d] # None => files'[d] # None
    BY <1>1, NoneIsNone DEF TypeOK, Write
  <1>4. {next} \cup (IF files[c] = None THEN {} ELSE hist[files[c]]) \in SUBSET Versions
    BY <1>1 DEF TypeOK, Optional
  <1> QED BY <1>2, <1>3, <1>4 DEF TypeOK, Write

\* A choice.
LEMMA SupersedeTypes ==
  ASSUME TypeOK, NEW p \in Procs, NEW old \in Optional, NEW new \in Optional,
         Replace(p, old, new)
  PROVE  hist' \in [Versions -> SUBSET Versions]
  BY DEF TypeOK, Replace, Supersede, Optional

-----------------------------------------------------------------------------
(* A process only touches its own variables.                               *)

Same(q) == /\ pc'[q] = pc[q] /\ kind'[q] = kind[q] /\ mem'[q] = mem[q]
           /\ remote'[q] = remote[q] /\ seen'[q] = seen[q] /\ plan'[q] = plan[q]
           /\ allow'[q] = allow[q]

\* A step of one process leaves the variables of the others alone.
LEMMA Isolated ==
  ASSUME TypeOK, NEW p \in Procs, NEW q \in Procs, q # p,
         Step(p) \/ Abort(p) \/ (\E k \in Kinds : Start(p, k))
  PROVE  Same(q)
  <1> USE DEF Types, Goto, procVars, Same
  <1>0. Types
    BY TypeParts
  <1>1. CASE Fetch(p)
    BY <1>0, <1>1 DEF Fetch
  <1>2. CASE SyncPlan(p)
    BY <1>0, <1>2 DEF SyncPlan, SetMem
  <1>3. CASE OperatorPlan(p)
    BY <1>0, <1>3 DEF OperatorPlan
  <1>4. CASE OperatorRefused(p)
    BY <1>0, <1>4 DEF OperatorRefused, Done
  <1>5. CASE Download(p)
    BY <1>0, <1>5 DEF Download, SetMem
  <1>6. CASE DownloadFails(p)
    BY <1>0, <1>6 DEF DownloadFails, Done
  <1>7. CASE Upload(p)
    BY <1>0, <1>7 DEF Upload
  <1>8. CASE Record(p)
    BY <1>0, <1>8 DEF Record, SetMem
  <1>9. CASE UploadRefused(p)
    BY <1>0, <1>9 DEF UploadRefused, SetMem
  <1>10. CASE UploadFails(p)
    BY <1>0, <1>10 DEF UploadFails, SetMem, Done
  <1>11. CASE PrelaunchOffline(p)
    BY <1>0, <1>11 DEF PrelaunchOffline, SetMem
  <1>12. CASE PrelaunchPlan(p)
    BY <1>0, <1>12 DEF PrelaunchPlan, SetMem
  <1>13. CASE PrelaunchUnknown(p)
    BY <1>0, <1>13 DEF PrelaunchUnknown, SetMem
  <1>14. CASE GameWrites(p)
    BY <1>0, <1>14 DEF GameWrites
  <1>15. CASE GameQuits(p)
    BY <1>0, <1>15 DEF GameQuits
  <1>16. CASE LaunchFails(p)
    BY <1>0, <1>16 DEF LaunchFails
  <1>17. CASE ExitQuiet(p)
    BY <1>0, <1>17 DEF ExitQuiet
  <1>18. CASE ExitOffline(p)
    BY <1>0, <1>18 DEF ExitOffline, SetMem
  <1>19. CASE ExitUploads(p)
    BY <1>0, <1>19 DEF ExitUploads
  <1>20. CASE ExitConflict(p)
    BY <1>0, <1>20 DEF ExitConflict, SetMem
  <1>21. CASE ExitCreates(p)
    BY <1>0, <1>21 DEF ExitCreates
  <1>22. CASE CreateRace(p)
    BY <1>0, <1>22 DEF CreateRace, SetMem
  <1>23. CASE Finish(p)
    BY <1>0, <1>23 DEF Finish, Done
  <1>24. CASE Abort(p)
    BY <1>0, <1>24 DEF Abort, Done
  <1>25. CASE \E k \in Kinds : Start(p, k)
    BY <1>0, <1>25 DEF Start, SetMem
  <1> QED BY <1>1, <1>2, <1>3, <1>4, <1>5, <1>6, <1>7, <1>8, <1>9, <1>10, <1>11, <1>12, <1>13, <1>14, <1>15, <1>16, <1>17, <1>18, <1>19, <1>20, <1>21, <1>22, <1>23, <1>24, <1>25 DEF Step

\* What is left to show of TypeOK after a step of a process.
LEMMA Assembled ==
  ASSUME TypeOK, NEW p \in Procs, \A q \in Procs \ {p} : Same(q),
         \A c \in Clients : files[c] # None => files'[c] # None, Types', Operands(p)'
  PROVE  TypeOK'
  <1>1. \A q \in Procs \ {p} : Operands(q)'
    BY TypeParts, Machines DEF Operands, Same, File
  <1> QED BY <1>1 DEF TypeOK, Types, Operands

\* Where a plan leads.
LEMMA Phases ==
  ASSUME NEW d
  PROVE  Phase(d) = IF d = "download" THEN "download"
                    ELSE IF d \in {"upload_existing", "upload_new"} THEN "upload" ELSE "finish"
  BY DEF Phase

\* What create_sync_plan can decide.
LEMMA Plannings ==
  ASSUME TypeOK, NEW p \in Procs, NEW order \in Orders, NEW d, d = Planned(p, order)
  PROVE  /\ d \in Plans
         /\ d.decision = "conflict" => d.reason \in ConflictReasons
         /\ d.decision = "download" => remote[p] # None
         /\ d.decision \in {"upload_existing", "upload_new"} => File(p) # None
         /\ d.decision = "upload_existing" => remote[p] # None
         /\ d = Decide("skip", "already-synced") => remote[p] # None /\ File(p) = remote[p]
  <1>0. order \in TimeOrders
    BY ConstantsAssumption
  <1>1. CASE remote[p] # None
    <2>1. remote[p] \in Versions
      BY <1>1, Machines DEF Optional
    <2> QED BY <1>0, <1>1, <2>1, Resolved, Machines DEF Planned
  <1>2. CASE remote[p] = None
    BY <1>2 DEF Planned, LocalOnly, NoPlan, Decide, Plans, Decisions, PlanReasons
  <1> QED BY <1>1, <1>2

\* What the start of a session can decide.
LEMMA SessionPlannings ==
  ASSUME TypeOK, NEW p \in Procs, NEW order \in Orders, remote[p] # None, NEW un,
         NEW d, d = Resolve(remote[p], File(p), Mode(p), Policy(p), mem[p].ll, mem[p].lr, un, order)
  PROVE  /\ d \in Plans
         /\ d.decision = "conflict" => d.reason \in ConflictReasons
         /\ d.decision = "download" => File(p) # remote[p]
         /\ d.decision = "skip" => File(p) = remote[p] \/ Mode(p) = "download"
         /\ d.decision \in {"download", "upload_existing", "skip", "conflict"}
  <1>1. remote[p] \in Versions /\ order \in TimeOrders
    BY Machines, ConstantsAssumption DEF Optional
  <1> QED BY <1>1, Resolved, Machines

\* The three ways of planning keep the types: a download has something to fetch,
\* an upload something to send.
LEMMA SyncPlanTypes ==
  ASSUME TypeOK, NEW p \in Procs, SyncPlan(p)
  PROVE  TypeOK'
  <1>1. PICK order \in Orders : plan' = [plan EXCEPT ![p] = Planned(p, order)]
    BY DEF SyncPlan
  <1> DEFINE d == Planned(p, order)
  <1>2. plan'[p] = d
    BY <1>1 DEF TypeOK
  <1>3. /\ d \in Plans
        /\ d.decision = "conflict" => d.reason \in ConflictReasons
        /\ d.decision = "download" => remote[p] # None
        /\ d.decision \in {"upload_existing", "upload_new"} => File(p) # None
    BY Plannings
  <1> HIDE DEF d
  <1>4. mem' \in [Procs -> States]
    <2>1. d.decision = "conflict" => d.reason \in Reasons \cup {None}
      BY <1>3 DEF ConflictReasons, Reasons
    <2>2. (IF d.decision = "conflict" THEN Unresolved(mem[p], d.reason) ELSE mem[p]) \in States
      BY <2>1, Machines, StateChanges
    <2> QED BY <1>2, <2>2 DEF TypeOK, SyncPlan, SetMem
  <1>5. pc' = [pc EXCEPT ![p] = Phase(d.decision)]
    BY <1>2 DEF SyncPlan, Goto
  <1>6. Types'
    BY <1>1, <1>3, <1>4, <1>5, Phases, TypeParts, Machines DEF Types, SyncPlan, contents, d
  <1>7. Operands(p)'
    BY <1>3, <1>5, Phases DEF TypeOK, Operands, SyncPlan, contents, File
  <1> QED BY <1>6, <1>7, Assembled, Isolated DEF SyncPlan, contents, Step

LEMMA OperatorPlanTypes ==
  ASSUME TypeOK, NEW p \in Procs, OperatorPlan(p)
  PROVE  TypeOK'
  <1>1. /\ plan'[p] \in Plans /\ plan' \in [Procs -> Plans]
        /\ plan'[p].decision = "download" => remote[p] # None
        /\ plan'[p].decision # "download" => File(p) # None
        /\ plan'[p].decision \in {"download", "upload_existing", "upload_new"}
    BY DEF TypeOK, OperatorPlan, Operators, Decide, Plans, Decisions, PlanReasons
  <1>2. pc' = [pc EXCEPT ![p] = Phase(plan'[p].decision)]
    BY DEF OperatorPlan, Goto
  <1>3. Types'
    BY <1>1, <1>2, Phases, TypeParts DEF Types, OperatorPlan, contents
  <1>4. Operands(p)'
    BY <1>1, <1>2, Phases DEF TypeOK, Operands, OperatorPlan, contents, File
  <1> QED BY <1>3, <1>4, Assembled, Isolated DEF OperatorPlan, contents, Step

LEMMA PrelaunchPlanTypes ==
  ASSUME TypeOK, NEW p \in Procs, PrelaunchPlan(p)
  PROVE  TypeOK'
  <1>1. PICK order \in Orders :
       LET seeds == SeedsMissed(p) /\ order # "unknown"
           keepsMarker == SeedsMissed(p) /\ order = "unknown"
           un == IF seeds THEN Missed ELSE mem[p].un
           outcome == Resolve(remote[p], File(p), Mode(p), Policy(p), mem[p].ll, mem[p].lr, un, order)
           conflict == outcome.decision = "conflict"
           off == mem[p].off /\ (keepsMarker \/ Mode(p) = "download")
       IN /\ plan' = [plan EXCEPT ![p] = outcome]
          /\ SetMem(p, State(mem[p].ll, mem[p].lr,
                             IF conflict THEN outcome.reason ELSE un, off))
          /\ dirty' = [dirty EXCEPT ![p] = seeds \/ conflict \/ off # mem[p].off]
          /\ allow' = [allow EXCEPT ![p] = ~conflict]
          /\ Goto(p, IF outcome.decision = "download" THEN "download" ELSE "play")
    BY DEF PrelaunchPlan
  <1> DEFINE un == IF SeedsMissed(p) /\ order # "unknown" THEN Missed ELSE mem[p].un
             d == Resolve(remote[p], File(p), Mode(p), Policy(p), mem[p].ll, mem[p].lr, un, order)
             off == mem[p].off /\ ((SeedsMissed(p) /\ order = "unknown") \/ Mode(p) = "download")
             m == State(mem[p].ll, mem[p].lr, IF d.decision = "conflict" THEN d.reason ELSE un, off)
  <1>2. remote[p] # None
    BY DEF PrelaunchPlan
  <1>3. d \in Plans /\ (d.decision = "conflict" => d.reason \in ConflictReasons)
    BY <1>2, SessionPlannings
  <1>4. un \in Reasons \cup {None} /\ off \in BOOLEAN
    BY Machines DEF Reasons
  <1>5. /\ plan' = [plan EXCEPT ![p] = d] /\ mem' = [mem EXCEPT ![p] = m]
        /\ dirty' \in [Procs -> BOOLEAN] /\ allow' = [allow EXCEPT ![p] = (d.decision # "conflict")]
        /\ pc' = [pc EXCEPT ![p] = IF d.decision = "download" THEN "download" ELSE "play"]
    BY <1>1 DEF SetMem, Goto, TypeOK
  <1> HIDE DEF d, un, off
  <1>6. m \in States
    BY <1>3, <1>4, StateType, Machines DEF ConflictReasons, Reasons
  <1> HIDE DEF m
  <1>7. Types'
    BY <1>3, <1>5, <1>6, TypeParts, Machines DEF Types, PrelaunchPlan, contents
  <1>8. Operands(p)'
    BY <1>2, <1>5 DEF TypeOK, Operands, PrelaunchPlan
  <1> QED BY <1>7, <1>8, Assembled, Isolated DEF PrelaunchPlan, contents, Step

\* Downloads.
LEMMA DownloadTypes ==
  ASSUME TypeOK, NEW p \in Procs, Download(p)
  PROVE  TypeOK'
  <1>1. server \in Versions /\ server # None
    BY Machines, NoneIsNone DEF TypeOK, Download, Optional
  <1>2. files' \in [Clients -> Optional] /\ \A c \in Clients : files[c] # None => files'[c] # None
    BY <1>1 DEF TypeOK, Download, Optional
  <1>3. hist' \in [Versions -> SUBSET Versions]
    BY <1>1, Machines, SupersedeTypes DEF Download, Optional
  <1>4. mem' \in [Procs -> States]
    BY <1>1, Machines, StateChanges DEF TypeOK, Download, SetMem, Optional
  <1>5. Types'
    BY <1>1, <1>2, <1>3, <1>4, TypeParts DEF Types, Download, Goto, Touch, Optional
  <1>6. Operands(p)'
    BY DEF TypeOK, Operands, Download, Goto
  <1> QED BY <1>2, <1>5, <1>6, Assembled, Isolated DEF Step

\* A failed download ends a sync and lets a session play on.
LEMMA DownloadFailsTypes ==
  ASSUME TypeOK, NEW p \in Procs, DownloadFails(p)
  PROVE  TypeOK'
  <1>1. CASE kind[p] # "session" /\ Done(p)
    BY <1>1, DoneTypes DEF DownloadFails, contents, TypeOK
  <1>2. CASE kind[p] = "session" /\ Goto(p, "play") /\ UNCHANGED <<procVars, mem, dirty>>
    <2>1. Types'
      BY <1>2, TypeParts DEF Types, DownloadFails, Goto, contents, procVars
    <2>2. Operands(p)'
      BY <1>2 DEF TypeOK, Operands, Goto
    <2> QED BY <2>1, <2>2, Assembled, Isolated DEF Step, DownloadFails, contents
  <1> QED BY <1>1, <1>2 DEF DownloadFails

\* What an upload does to the server.
LEMMA UploadContents ==
  ASSUME TypeOK, NEW p \in Procs, pc[p] = "upload",
         \/ UNCHANGED <<server, hist>>
         \/ server' = File(p) /\ Replace(p, server, File(p))
  PROVE  /\ server' \in Optional /\ hist' \in [Versions -> SUBSET Versions]
         /\ File(p) \in Versions
  <1>1. File(p) \in Versions
    BY Machines DEF TypeOK, Optional
  <1> QED BY <1>1, SupersedeTypes DEF TypeOK, Optional

\* An upload keeps the types, and so does one whose answer is lost.
LEMMA UploadTypes ==
  ASSUME TypeOK, NEW p \in Procs, Upload(p)
  PROVE  TypeOK'
  <1>1. /\ server' \in Optional /\ hist' \in [Versions -> SUBSET Versions]
        /\ File(p) \in Versions
    BY UploadContents DEF Upload
  <1>2. Types'
    BY <1>1, TypeParts, Machines DEF Types, Upload, Goto, Optional
  <1>3. Operands(p)'
    BY <1>1, NoneIsNone DEF TypeOK, Operands, Upload, Goto, File
  <1> QED BY <1>2, <1>3, Assembled, Isolated DEF Step, Upload

LEMMA UploadFailsTypes ==
  ASSUME TypeOK, NEW p \in Procs, UploadFails(p)
  PROVE  TypeOK'
  <1>1. /\ server' \in Optional /\ hist' \in [Versions -> SUBSET Versions]
        /\ File(p) \in Versions
    BY UploadContents DEF UploadFails
  <1>2. CASE kind[p] # "session" /\ Done(p)
    <2>1. Types'
      BY <1>1, <1>2, TypeParts, StateChanges
      DEF Types, UploadFails, Done, Goto, Optional, AllKinds, Operators, NoPlan, Decide, Plans, PlanReasons
    <2>2. Operands(p)'
      BY <1>2 DEF TypeOK, Operands, Done, Goto
    <2> QED BY <2>1, <2>2, Assembled, Isolated DEF Step, UploadFails
  <1>3. CASE /\ kind[p] = "session"
             /\ \E m \in (IF plan[p].decision = "upload_new"
                     THEN {Unresolved(mem[p], "create-race")}
                     ELSE IF "offline" \in Faults
                          THEN {mem[p], MissedUpload(mem[p], File(p))}
                          ELSE {mem[p]}) : SetMem(p, m)
             /\ dirty' = [dirty EXCEPT ![p] = @ \/ mem'[p] # mem[p]]
             /\ Goto(p, "finish") /\ UNCHANGED procVars
    <2>1. PICK m \in {Unresolved(mem[p], "create-race"), mem[p], MissedUpload(mem[p], File(p))} :
            SetMem(p, m)
      BY <1>3
    <2>2. "create-race" \in Reasons
      BY DEF Reasons
    <2>3. m \in States
      <3>1. Unresolved(mem[p], "create-race") \in States /\ mem[p] \in States
        BY <2>2, Machines, StateChanges DEF Optional
      <3>2. MissedUpload(mem[p], File(p)) \in States
        <4>1. File(p) \in Optional /\ mem[p] \in States
          BY Machines
        <4> QED BY <2>2, <4>1, StateChanges
      <3> QED BY <2>1, <3>1, <3>2
    <2>4. mem' \in [Procs -> States]
      BY <2>1, <2>3 DEF SetMem, TypeOK
    <2>5. Types'
      BY <1>1, <1>3, <2>4, TypeParts DEF Types, UploadFails, Goto, procVars
    <2>6. Operands(p)'
      BY <1>3 DEF TypeOK, Operands, Goto
    <2> QED BY <2>5, <2>6, Assembled, Isolated DEF Step, UploadFails
  <1> QED BY <1>2, <1>3 DEF UploadFails

\* Steps of a process that change what it remembers, not the contents.
LEMMA MemTypes ==
  ASSUME TypeOK, NEW p \in Procs, NEW m \in States, SetMem(p, m),
         Step(p) \/ (\E k \in Kinds : Start(p, k)),
         NEW where \in {"fetch", "play", "finish"}, Goto(p, where), UNCHANGED <<contents, disk>>,
         kind' \in [Procs -> AllKinds], UNCHANGED <<remote, plan>>, seen' \in [Procs -> Optional],
         allow' \in [Procs -> BOOLEAN], dirty' \in [Procs -> BOOLEAN]
  PROVE  TypeOK'
  <1>1. Types'
    BY TypeParts DEF Types, SetMem, Goto, contents
  <1>2. Operands(p)'
    BY DEF TypeOK, Operands, Goto
  <1> QED BY <1>1, <1>2, Assembled, Isolated DEF contents

\* Reasons that a process records.
LEMMA OwnReasons ==
  /\ Missed \in Reasons /\ "refused" \in Reasons /\ "remote-changed-during-session" \in Reasons
  /\ "create-race" \in Reasons
  BY DEF Reasons

\* The actions that only move contents within the records.
LEMMA RecordTypes ==
  ASSUME TypeOK, NEW p \in Procs,
         \/ (\E k \in Kinds : Start(p, k))
         \/ Record(p) \/ UploadRefused(p) \/ ExitOffline(p) \/ ExitConflict(p) \/ CreateRace(p)
         \/ PrelaunchOffline(p) \/ PrelaunchUnknown(p),
         Step(p) \/ (\E k \in Kinds : Start(p, k))
  PROVE  TypeOK'
  <1> USE Machines, StateChanges
  <1>0. server \in Optional
    BY DEF TypeOK
  <1>1. CASE \E k \in Kinds : Start(p, k)
    <2>1. kind' \in [Procs -> AllKinds]
      BY <1>1, ConstantsAssumption DEF TypeOK, Start
    <2> QED BY ZenonT(60), <1>1, <2>1, MemTypes DEF Start, TypeOK
  <1>2. CASE Record(p)
    BY <1>2, MemTypes DEF Record, Touch, TypeOK, procVars
  <1>3. CASE UploadRefused(p)
    <2> DEFINE m == IF server = File(p) THEN Converged(mem[p], File(p), server)
                    ELSE Unresolved(mem[p], RefusalReason(p))
    <2>1. m \in States
      BY <1>0, OwnReasons DEF RefusalReason
    <2> QED BY <1>3, <2>1, MemTypes DEF UploadRefused, Touch, TypeOK, procVars
  <1>4. CASE ExitOffline(p)
    <2>1. CASE remote[p] = None
      <3>1. mem' = [mem EXCEPT ![p] = mem[p]]
        BY <1>4, <2>1 DEF ExitOffline, TypeOK
      <3> QED BY <1>4, <2>1, <3>1, MemTypes DEF ExitOffline, SetMem, TypeOK, procVars
    <2>2. CASE remote[p] # None
      <3>1. MissedUpload(mem[p], File(p)) \in States
        BY OwnReasons
      <3>2. dirty' \in [Procs -> BOOLEAN]
        BY ZenonT(60), <1>4, <2>2 DEF ExitOffline, TypeOK
      <3> QED BY <1>4, <2>2, <3>1, <3>2, MemTypes DEF ExitOffline, TypeOK, procVars
    <2> QED BY <2>1, <2>2
  <1>5. CASE ExitConflict(p)
    BY <1>5, MemTypes, OwnReasons DEF ExitConflict, Touch, TypeOK, procVars
  <1>6. CASE CreateRace(p)
    <2> DEFINE m == IF File(p) = server THEN Converged(mem[p], server, server)
                    ELSE Unresolved(mem[p], "create-race")
    <2>1. m \in States
      BY <1>0, OwnReasons
    <2> QED BY <1>6, <2>1, MemTypes DEF CreateRace, Touch, TypeOK, procVars
  <1>7. CASE PrelaunchOffline(p)
    <2>1. State(mem[p].ll, mem[p].lr, mem[p].un, TRUE) \in States
      BY StateType
    <2>2. CASE Mode(p) = "bidirectional"
      <3>1. SetMem(p, State(mem[p].ll, mem[p].lr, mem[p].un, TRUE)) /\ dirty' \in [Procs -> BOOLEAN]
        BY <1>7, <2>2 DEF PrelaunchOffline, Touch, TypeOK
      <3> QED BY <1>7, <2>1, <3>1, MemTypes DEF PrelaunchOffline, TypeOK, procVars
    <2>3. CASE Mode(p) # "bidirectional"
      <3>1. mem' = [mem EXCEPT ![p] = mem[p]]
        BY <1>7, <2>3 DEF PrelaunchOffline, TypeOK
      <3> QED BY <1>7, <2>3, <3>1, MemTypes DEF PrelaunchOffline, SetMem, TypeOK, procVars
    <2> QED BY <2>2, <2>3
  <1>8. CASE PrelaunchUnknown(p)
    <2> DEFINE off == mem[p].off /\ Mode(p) = "download"
    <2>1. State(mem[p].ll, mem[p].lr, mem[p].un, off) \in States
      BY StateType
    <2>2. /\ SetMem(p, State(mem[p].ll, mem[p].lr, mem[p].un, off))
          /\ dirty' \in [Procs -> BOOLEAN] /\ allow' \in [Procs -> BOOLEAN]
          /\ seen' \in [Procs -> Optional] /\ Goto(p, "play")
      BY <1>8 DEF PrelaunchUnknown, TypeOK
    <2> HIDE DEF off
    <2> QED BY <1>8, <2>1, <2>2, MemTypes DEF PrelaunchUnknown, TypeOK
  <1> QED BY <1>1, <1>2, <1>3, <1>4, <1>5, <1>6, <1>7, <1>8

\* The rest of the steps.
LEMMA SessionTypes ==
  ASSUME TypeOK, NEW p \in Procs,
         \/ Fetch(p) \/ GameWrites(p) \/ GameQuits(p) \/ LaunchFails(p) \/ ExitQuiet(p)
         \/ ExitUploads(p) \/ ExitCreates(p) \/ Finish(p) \/ OperatorRefused(p) \/ Abort(p)
  PROVE  TypeOK'
  <1>1. CASE Fetch(p)
    <2>1. Types' /\ Operands(p)'
      BY <1>1, TypeParts DEF Types, Operands, Fetch, Goto, contents
    <2> QED BY <1>1, <2>1, Assembled, Isolated DEF Step, Fetch, contents
  <1>2. CASE GameWrites(p)
    <2>1. /\ files' \in [Clients -> Optional] /\ next' \in 1..(MaxVersion + 1)
          /\ hist' \in [Versions -> SUBSET Versions]
          /\ \A d \in Clients : files[d] # None => files'[d] # None
      BY <1>2, WriteTypes, Machines DEF GameWrites
    <2>2. Types' /\ Operands(p)'
      BY <1>2, <2>1, TypeParts DEF Types, Operands, GameWrites, Goto, procVars
    <2> QED BY <1>2, <2>1, <2>2, Assembled, Isolated DEF Step
  <1>3. CASE GameQuits(p) \/ LaunchFails(p) \/ ExitQuiet(p)
    <2>1. Types' /\ Operands(p)'
      BY <1>3, TypeParts DEF Types, Operands, GameQuits, LaunchFails, ExitQuiet, Goto, contents, procVars
    <2> QED BY <1>3, <2>1, Assembled, Isolated DEF Step, GameQuits, LaunchFails, ExitQuiet, contents
  <1>4. CASE ExitUploads(p) \/ ExitCreates(p)
    <2>1. /\ Decide("upload_existing", "session") \in Plans /\ Decide("upload_new", "session") \in Plans
          /\ plan[p] \in Plans
      BY Machines DEF Decide, Plans, Decisions, PlanReasons
    <2>2. plan' \in [Procs -> Plans]
      BY <1>4, <2>1 DEF TypeOK, ExitUploads, ExitCreates
    <2>3. Types'
      BY <1>4, <2>2, TypeParts DEF Types, ExitUploads, ExitCreates, Goto, contents
    <2>4. Operands(p)'
      BY <1>4 DEF TypeOK, Operands, ExitUploads, ExitCreates, Wants, Watches, Goto, contents, File
    <2> QED BY <1>4, <2>3, <2>4, Assembled, Isolated DEF Step, ExitUploads, ExitCreates, contents
  <1>5. CASE Finish(p)
    <2>1. server \in Optional /\ Pruned(p) \in States
      BY Machines, StateChanges DEF TypeOK, Pruned
    <2>2. disk' \in [Clients -> States]
      BY <1>5, <2>1, Machines DEF TypeOK, Finish
    <2> QED BY <1>5, <2>2, DoneTypes DEF Finish, contents
  <1>6. CASE OperatorRefused(p) \/ Abort(p)
    BY <1>6, DoneTypes DEF OperatorRefused, Abort, contents, TypeOK
  <1> QED BY <1>1, <1>2, <1>3, <1>4, <1>5, <1>6

\* Every step keeps the types.
LEMMA TypeStep ==
  ASSUME TypeOK, [Next]_vars
  PROVE  TypeOK'
  <1>1. CASE UNCHANGED vars
    BY <1>1 DEF vars, contents, procVars, TypeOK, File
  <1>2. ASSUME NEW c \in Clients, Play(c) PROVE TypeOK'
    <2>1. /\ files' \in [Clients -> Optional] /\ next' \in 1..(MaxVersion + 1)
          /\ hist' \in [Versions -> SUBSET Versions]
          /\ \A d \in Clients : files[d] # None => files'[d] # None
      BY <1>2, WriteTypes DEF Play
    <2>2. Types'
      BY <1>2, <2>1, TypeParts DEF Types, Play, procVars
    <2>3. \A q \in Procs : Operands(q)'
      BY <1>2, <2>1, TypeParts, Machines DEF Operands, Play, procVars, File
    <2> QED BY <2>2, <2>3 DEF TypeOK, Types, Operands
  <1>3. ASSUME NEW p \in Procs, Step(p) \/ Abort(p) \/ (\E k \in Kinds : Start(p, k))
        PROVE  TypeOK'
    BY <1>3, RecordTypes, SessionTypes, SyncPlanTypes, OperatorPlanTypes, PrelaunchPlanTypes,
       DownloadTypes, DownloadFailsTypes, UploadTypes, UploadFailsTypes DEF Step
  <1> QED BY <1>1, <1>2, <1>3 DEF Next

\* Types hold at the start.
LEMMA TypeInit == Init => TypeOK
  <1> SUFFICES ASSUME Init PROVE TypeOK
    OBVIOUS
  <1>1. NoPlan \in Plans /\ NoState \in States /\ MaxVersion \in Nat /\ 1 \in 1..(MaxVersion + 1)
    BY ConstantsAssumption, StateChanges DEF NoPlan, Decide, Plans, PlanReasons, Optional, NoState, State, States
  <1> QED BY <1>1 DEF Init, TypeOK, Optional, AllKinds

(* Whatever the constants, two processes on one machine and all faults      *)
(* included, the variables keep their types: a download knows what it is    *)
(* about to fetch and an upload has a file to send.                         *)
THEOREM TypeCorrect == Spec => []TypeOK
  BY TypeInit, TypeStep, PTL DEF Spec

-----------------------------------------------------------------------------
(* The contents only move to what supersedes them.                         *)

Moves ==
  /\ Ancestry' /\ InUse'
  /\ \A v \in Versions : hist[v] \subseteq hist'[v]
  /\ server' # server => Supersedes(server', server)
  /\ \A c \in Clients : files'[c] # files[c] => Supersedes(files'[c], files[c])

\* Contents are numbers.
LEMMA Numbered ==
  ASSUME TypeOK
  PROVE  /\ next \in Nat /\ Versions \subseteq Nat
         /\ \A v \in Versions : hist[v] \subseteq Versions
         /\ server # None => server \in Versions
         /\ \A c \in Clients : files[c] # None => files[c] \in Versions
  BY ConstantsAssumption DEF TypeOK, Versions, Optional

\* Where no content changes, nothing is lost.
LEMMA UnchangedMoves ==
  ASSUME TypeOK, Ancestry, InUse, UNCHANGED contents
  PROVE  Moves
  BY DEF contents, Moves, Ancestry, InUse, Supersedes

\* A game's write descends from what it replaces.
LEMMA WriteMoves ==
  ASSUME TypeOK, Ancestry, InUse, NEW c \in Clients, Write(c), server' = server
  PROVE  Moves
  <1> DEFINE before == IF files[c] = None THEN {} ELSE hist[files[c]]
  <1>1. next \in Versions /\ next \in Nat /\ next' = next + 1 /\ next # None
    BY Numbered, NoneIsNone DEF Write
  <1>2. \A v \in Versions : hist'[v] = IF v = next THEN {next} \cup before ELSE hist[v]
    BY <1>1 DEF Write, TypeOK
  <1>3. /\ before \subseteq Versions /\ \A u \in before : u < next /\ hist[u] \subseteq before
    BY Numbered DEF Ancestry
  <1>4. hist[next] = {}
    BY <1>1 DEF Ancestry
  <1>5. files[c] # None => files[c] \in before /\ files[c] \in Versions
    BY Numbered DEF Ancestry, InUse
  <1> HIDE DEF before
  <1>6. \A v \in Versions : hist[v] \subseteq hist'[v]
    BY <1>2, <1>4
  <1>7. files' = [files EXCEPT ![c] = next]
    BY DEF Write
  <1>8. Ancestry'
    <2>1. \A v \in Versions : v < next' => v \in hist'[v]
      BY <1>1, <1>2, Numbered DEF Ancestry
    <2>2. \A v \in Versions : v >= next' => hist'[v] = {}
      BY <1>1, <1>2, Numbered DEF Ancestry
    <2>3. \A v \in Versions : \A u \in hist'[v] : u < next'
      <3>1. ASSUME NEW v \in Versions, NEW u \in hist'[v] PROVE u < next'
        <4>1. u = next \/ u \in before \/ u \in hist[v]
          BY <1>2
        <4>2. u = next \/ (u \in Nat /\ u < next)
          BY <4>1, <1>3, Numbered DEF Ancestry
        <4> QED BY <4>2, <1>1
      <3> QED BY <3>1
    <2>4. \A v \in Versions : \A u \in hist'[v] : hist'[u] \subseteq hist'[v]
      <3>1. ASSUME NEW v \in Versions, NEW u \in hist'[v] PROVE hist'[u] \subseteq hist'[v]
        <4>1. CASE v = next /\ u = next
          BY <4>1
        <4>2. CASE v = next /\ u # next
          <5>1. u \in before /\ u \in Versions
            BY <4>2, <1>2, <1>3
          <5> QED BY <5>1, <4>2, <1>1, <1>2, <1>3
        <4>3. CASE v # next
          <5>1. u \in hist[v] /\ u \in Versions /\ u < next
            BY <4>3, <1>2, Numbered DEF Ancestry
          <5>2. u # next
            BY <5>1, <1>1, Numbered
          <5> QED BY <5>1, <5>2, <4>3, <1>2 DEF Ancestry
        <4> QED BY <4>1, <4>2, <4>3
      <3> QED BY <3>1
    <2> QED BY <2>1, <2>2, <2>3, <2>4 DEF Ancestry
  <1>9. InUse'
    <2>1. server' # None => server' < next'
      <3>1. server # None => server \in Nat /\ server < next
        BY Numbered DEF InUse
      <3> QED BY <1>1, <3>1
    <2>2. ASSUME NEW d \in Clients, files'[d] # None PROVE files'[d] < next'
      <3>1. files'[d] = next \/ (files'[d] = files[d] /\ files[d] \in Nat /\ files[d] < next)
        BY <1>7, <2>2, Numbered DEF InUse, TypeOK
      <3> QED BY <1>1, <3>1
    <2> QED BY <2>1, <2>2 DEF InUse
  <1>10. \A d \in Clients : files'[d] # files[d] => Supersedes(files'[d], files[d])
    BY <1>1, <1>2, <1>5, <1>7 DEF Supersedes, TypeOK
  <1> QED BY <1>6, <1>8, <1>9, <1>10 DEF Moves

\* A choice puts what was chosen above the other.
LEMMA SupersedeGrows ==
  ASSUME TypeOK, Ancestry, NEW old \in Versions, NEW new \in Versions,
         old < next, new < next, Supersede(old, new), next' = next
  PROVE  /\ Ancestry' /\ \A v \in Versions : hist[v] \subseteq hist'[v]
         /\ old \in hist'[new]
  <1>1. \A v \in Versions : hist'[v] = IF new \in hist[v] THEN hist[v] \cup hist[old] ELSE hist[v]
    BY DEF Supersede
  <1>2. \A v \in Versions : hist[v] \subseteq hist'[v]
    BY <1>1
  <1>3. old \in hist[old] /\ new \in hist[new]
    BY DEF Ancestry
  <1>4. \A v \in Versions : v < next => v \in hist'[v]
    BY <1>2 DEF Ancestry
  <1>5. \A v \in Versions : v >= next => hist'[v] = {}
    BY <1>1 DEF Ancestry
  <1>6. \A v \in Versions : \A u \in hist'[v] : u < next
    BY <1>1 DEF Ancestry
  <1>7. ASSUME NEW v \in Versions, NEW u \in hist'[v]
        PROVE  hist'[u] \subseteq hist'[v]
    <2>1. u \in Versions
      BY <1>1, Numbered
    <2>2. CASE u \in hist[v]
      <3>1. hist[u] \subseteq hist[v]
        BY <2>2 DEF Ancestry
      <3> QED BY <1>1, <2>1, <3>1
    <2>3. CASE u \notin hist[v]
      <3>1. new \in hist[v] /\ u \in hist[old]
        BY <1>1, <2>3
      <3>2. hist[u] \subseteq hist[old]
        BY <3>1 DEF Ancestry
      <3> QED BY <1>1, <2>1, <3>1, <3>2
    <2> QED BY <2>2, <2>3
  <1> QED BY ZenonT(60), <1>1, <1>2, <1>3, <1>4, <1>5, <1>6, <1>7 DEF Ancestry

\* A replacement puts the new content above the old one, if it was not already.
LEMMA ReplaceGrows ==
  ASSUME TypeOK, Ancestry, NEW p \in Procs, NEW old \in Optional, NEW new \in Versions,
         old # None => old < next, new < next, Replace(p, old, new), next' = next,
         old = None \/ Chosen(p) \/ old \in hist[new]
  PROVE  /\ Ancestry' /\ \A v \in Versions : hist[v] \subseteq hist'[v]
         /\ old = None \/ old \in hist'[new]
  <1>1. CASE old = None \/ ~Chosen(p)
    <2>1. hist' = hist
      BY <1>1 DEF Replace, Chosen
    <2> QED BY <1>1, <2>1 DEF Ancestry
  <1>2. CASE old # None /\ Chosen(p)
    <2>1. old \in Versions /\ Supersede(old, new)
      BY <1>2 DEF Replace, Chosen, Optional
    <2> QED BY <1>2, <2>1, SupersedeGrows
  <1> QED BY <1>1, <1>2

\* A download moves the local file.
LEMMA DownloadMoves ==
  ASSUME IInv, NEW p \in Procs, Download(p)
  PROVE  Moves /\ File(p)' = server /\ server \in Versions /\ server \in hist'[server]
  <1>1. Downloading(p) /\ remote[p] # None /\ server = remote[p]
    BY DEF IInv, ProcInv, Download, TypeOK
  <1>2. server \in Versions /\ File(p) \in Optional /\ ClientOf[p] \in Clients /\ server < next
    BY <1>1, Machines, Numbered DEF IInv, InUse
  <1>3. File(p) # None => File(p) < next
    BY <1>2 DEF IInv, InUse, File
  <1>4. File(p) = None \/ Chosen(p) \/ File(p) \in hist[server]
    BY <1>1 DEF Downloading, Descends
  <1>5. /\ Ancestry' /\ \A v \in Versions : hist[v] \subseteq hist'[v]
        /\ File(p) = None \/ File(p) \in hist'[server]
    BY <1>2, <1>3, <1>4, ReplaceGrows DEF IInv, Download
  <1>6. files' = [files EXCEPT ![ClientOf[p]] = server] /\ server' = server /\ next' = next
    BY DEF Download
  <1>7. InUse'
    BY <1>2, <1>6 DEF IInv, InUse, TypeOK
  <1>8. \A c \in Clients : files'[c] # files[c] => Supersedes(files'[c], files[c])
    BY <1>1, <1>5, <1>6 DEF Supersedes, File, IInv, TypeOK
  <1>9. server \in hist'[server]
    BY <1>2, <1>5 DEF IInv, Ancestry
  <1> QED BY <1>2, <1>5, <1>6, <1>7, <1>8, <1>9 DEF Moves, File, IInv, TypeOK

\* An upload moves the server's save.
LEMMA UploadMoves ==
  ASSUME IInv, NEW p \in Procs, pc[p] = "upload", server = Expected(p), server' = File(p),
         Replace(p, server, File(p)), UNCHANGED <<files, next>>
  PROVE  Moves /\ File(p) \in Versions /\ File(p) \in hist'[File(p)]
  <1>1. Uploading(p) /\ File(p) # None
    BY DEF IInv, ProcInv, TypeOK
  <1>2. server \in Optional /\ File(p) \in Versions /\ ClientOf[p] \in Clients /\ File(p) < next
    BY <1>1, Machines, Numbered DEF IInv, InUse, File, TypeOK
  <1>3. server # None => server < next
    BY DEF IInv, InUse
  <1>4. server = None \/ Chosen(p) \/ server \in hist[File(p)]
    BY <1>1 DEF Uploading, Expected, Descends
  <1>5. /\ Ancestry' /\ \A v \in Versions : hist[v] \subseteq hist'[v]
        /\ server = None \/ server \in hist'[File(p)]
    BY <1>2, <1>3, <1>4, ReplaceGrows DEF IInv
  <1>6. InUse'
    BY <1>2 DEF IInv, InUse
  <1>7. File(p) \in hist'[File(p)]
    BY <1>2, <1>5 DEF IInv, Ancestry
  <1> QED BY <1>1, <1>2, <1>5, <1>6, <1>7 DEF Moves, Supersedes

\* Every step moves the contents so.
LEMMA StepMoves ==
  ASSUME IInv, [Next]_vars
  PROVE  Moves
  <1> USE DEF IInv
  <1>1. CASE UNCHANGED contents
    BY <1>1, UnchangedMoves
  <1>2. ASSUME NEW c \in Clients, Play(c) PROVE Moves
    BY <1>2, WriteMoves DEF Play
  <1>3. ASSUME NEW p \in Procs, Step(p) \/ Abort(p) \/ (\E k \in Kinds : Start(p, k)), ~UNCHANGED contents
        PROVE  Moves
    <2>1. CASE GameWrites(p)
      BY <2>1, WriteMoves, Machines DEF GameWrites
    <2>2. CASE Download(p)
      BY <2>2, DownloadMoves
    <2>3. CASE Upload(p)
      BY <2>3, UploadMoves DEF Upload
    <2>4. CASE UploadFails(p)
      BY <1>3, <2>4, UploadMoves DEF UploadFails, contents
    <2> QED BY <1>3, <2>1, <2>2, <2>3, <2>4
         DEF Step, Abort, Start, Fetch, SyncPlan, OperatorPlan, OperatorRefused, DownloadFails, Record,
             UploadRefused, PrelaunchOffline, PrelaunchPlan, PrelaunchUnknown, GameQuits, LaunchFails,
             ExitQuiet, ExitOffline, ExitUploads, ExitConflict, ExitCreates, CreateRace, Finish
  <1> QED BY <1>1, <1>2, <1>3 DEF Next, vars

\* What descended from a content still does.
LEMMA Kept ==
  ASSUME IInv, TypeOK', Moves, NEW x \in Versions
  PROVE  /\ Descends(server, x) => Descends(server, x)'
         /\ \A c \in Clients : Descends(files[c], x) => Descends(files[c], x)'
  <1>1. ASSUME NEW old, NEW new, old \in Optional, new \in Optional,
               new # old => Supersedes(new, old), old # None, x \in hist[old]
        PROVE  new # None /\ x \in hist'[new]
    <2>1. old \in Versions /\ x \in hist'[old]
      BY <1>1 DEF Moves, Optional
    <2>2. CASE new # old
      <3>1. new \in Versions /\ old \in hist'[new]
        BY <1>1, <2>2 DEF Supersedes, Optional
      <3> QED BY <2>1, <3>1, NoneIsNone DEF Moves, Ancestry
    <2> QED BY <1>1, <2>1, <2>2
  <1>2. Descends(server, x) => Descends(server, x)'
    BY <1>1 DEF Descends, Moves, IInv, TypeOK
  <1>3. ASSUME NEW c \in Clients, Descends(files[c], x) PROVE Descends(files[c], x)'
    <2>1. files[c] \in Optional /\ files'[c] \in Optional
      BY DEF IInv, TypeOK
    <2> QED BY <1>1, <1>3, <2>1 DEF Descends, Moves
  <1> QED BY <1>2, <1>3

-----------------------------------------------------------------------------
(* The parts of the invariant.                                             *)

\* A step keeps a lineage that it does not write.
LEMMA LineageKept ==
  ASSUME IInv, TypeOK', Moves, NEW c \in Clients, NEW m \in States, Lineage(m, c)
  PROVE  Lineage(m, c)'
  <1>1. m.ll \in Optional
    BY DEF States
  <1>2. CASE m.ll = None
    BY <1>2 DEF Lineage
  <1>3. CASE m.ll # None
    <2>1. m.ll \in Versions /\ Descends(server, m.ll) /\ Descends(files[c], m.ll) /\ m.ll = m.lr
      BY <1>1, <1>3 DEF Lineage, Optional
    <2>2. Descends(server, m.ll)' /\ Descends(files[c], m.ll)'
      BY <2>1, Kept
    <2> QED BY <2>1, <2>2 DEF Lineage
  <1> QED BY <1>2, <1>3

\* Descends only depends on the contents.
LEMMA LearnedKept ==
  ASSUME IInv, TypeOK', Moves, NEW q \in Procs, remote'[q] = remote[q]
  PROVE  Learned(q)'
  <1>1. remote[q] # None => remote[q] \in Versions /\ Descends(server, remote[q])
    BY Machines DEF IInv, ProcInv, Learned, Optional
  <1>2. remote[q] # None => Descends(server, remote[q])'
    BY <1>1, Kept
  <1> QED BY <1>2 DEF Learned, Descends

\* A step leaves a process alone that works on another machine's file, or none.
LEMMA OthersKept ==
  ASSUME IInv, TypeOK', Moves, NEW q \in Procs, Same(q),
         pc[q] = "idle" \/ File(q)' = File(q)
  PROVE  ProcInv(q)'
  <1> USE DEF Same
  <1>0. ProcInv(q) /\ TypeOK
    BY DEF IInv
  <1>1. Lineage(mem[q], ClientOf[q])'
    <2>1. PICK m \in States : m = mem[q]
      BY <1>0, Machines
    <2>2. Lineage(m, ClientOf[q])'
      BY <1>0, <2>1, LineageKept, Machines DEF ProcInv
    <2> QED BY <2>1, <2>2 DEF Lineage
  <1>2. Learned(q)'
    BY LearnedKept
  <1>3. pc[q] = "idle" => ProcInv(q)'
    BY <1>1, <1>2 DEF ProcInv
  <1>4. ASSUME pc[q] # "idle" PROVE ProcInv(q)'
    <2>1. PICK f \in Optional : f = File(q)
      BY <1>0, Machines
    <2>2. PICK r \in Optional : r = remote[q]
      BY <1>0, Machines
    <2>3. f = File(q)' /\ r = remote'[q]
      BY <1>4, <2>1, <2>2
    <2>4. f # None /\ Descends(server, f) => Descends(server, f)'
      BY <1>0, Kept DEF Optional
    <2>5. r # None /\ Descends(File(q), r) => Descends(File(q), r)'
      BY <1>0, Kept, Machines DEF Optional, File
    <2>6. Stranded(q)' <=> Stranded(q)
      BY DEF Stranded
    <2>7. Chosen(q)' <=> Chosen(q)
      BY DEF Chosen
    <2>8. Pending(q)' <=> Pending(q)
      BY DEF Pending
    <2>9. Downloading(q) => Downloading(q)'
      BY <2>1, <2>3, <2>4, <2>6, <2>7 DEF Downloading, Descends
    <2>10. Descends(File(q), remote[q]) /\ r # None => Descends(File(q), remote[q])'
      BY <2>2, <2>3, <2>5 DEF Descends
    <2>11. Uploading(q) => Uploading(q)'
      BY <2>2, <2>3, <2>7, <2>10 DEF Uploading
    <2>12. Recording(q) => Recording(q)'
      BY <2>1, <2>2, <2>3 DEF Recording
    <2>13. Playing(q) => Playing(q)'
      BY <2>2, <2>3, <2>6, <2>7, <2>8, <2>10 DEF Playing, Mode
    <2>14. Finishing(q) => Finishing(q)'
      BY <2>1, <2>2, <2>3 DEF Finishing
    <2> QED BY <1>0, <1>1, <1>2, <2>9, <2>11, <2>12, <2>13, <2>14 DEF ProcInv
  <1> QED BY <1>3, <1>4

\* A content descends from itself.
LEMMA Itself ==
  ASSUME IInv
  PROVE  /\ server # None => Descends(server, server)
         /\ \A c \in Clients : files[c] # None => Descends(files[c], files[c])
  BY Numbered DEF IInv, Ancestry, InUse, Descends

\* With a lineage of one content, a decision that is not a choice replaces the
\* side that still has it.
LEMMA ResolvedByLineage ==
  ASSUME NEW r \in Versions, NEW l \in Optional, NEW mode \in Modes,
         NEW policy \in Policies, NEW ll, NEW un, NEW order \in TimeOrders,
         NEW d, d = Resolve(r, l, mode, policy, ll, ll, un, order)
  PROVE  /\ d.decision = "download" =>
              l = None \/ d.reason \notin Automatic \/ (ll # None /\ l = ll)
         /\ d.decision = "upload_existing" =>
              d.reason \notin Automatic \/ (ll # None /\ r = ll)
  <1>1. CASE l = None
    BY <1>1 DEF Resolve, Classify, Decide
  <1>2. CASE l # None /\ TimestampDecides(mode, un, order) /\ l # r
    BY <1>2 DEF Resolve, ByTimestamp, Decide, Automatic
  <1>3. CASE l # None /\ ~(TimestampDecides(mode, un, order) /\ l # r)
    <2>0. d = Classify(r, l, mode, policy, ll, ll)
      BY <1>3, NoneIsNone DEF Resolve, TimestampDecides
    <2>1. CASE l = r \/ mode = "download"
      BY <2>0, <2>1, <1>3 DEF Classify, Decide
    <2>2. CASE l # r /\ mode # "download"
      <3>0. d = ByLineage(r, l, policy, ll, ll)
        BY <2>0, <2>2, <1>3 DEF Classify
      <3>1. CASE ll = None
        <4>1. d.reason = "lineage-missing"
          BY <3>0, <3>1 DEF ByLineage, Changed, ByPolicy, Decide
        <4> QED BY <4>1 DEF Automatic
      <3>2. CASE ll # None /\ l # ll /\ r = ll
        BY <3>0, <3>2 DEF ByLineage, Changed, Decide
      <3>3. CASE ll # None /\ l = ll /\ r # ll
        BY <3>0, <3>3 DEF ByLineage, Changed, Decide
      <3>4. CASE ll # None /\ l # ll /\ r # ll
        <4>1. d.reason = "both-changed"
          BY <3>0, <3>4 DEF ByLineage, Changed, ByPolicy, Decide
        <4> QED BY <4>1 DEF Automatic
      <3> QED BY <2>2, <3>1, <3>2, <3>3, <3>4
    <2> QED BY <2>1, <2>2
  <1> QED BY <1>1, <1>2, <1>3

\* So under the invariant what it replaces is what the other side descends from.
LEMMA DecisionDescends ==
  ASSUME IInv, NEW p \in Procs, NEW order \in Orders, NEW un, remote[p] # None,
         NEW d, d = Resolve(remote[p], File(p), Mode(p), Policy(p), mem[p].ll, mem[p].lr, un, order)
  PROVE  /\ d.decision = "download" =>
              File(p) = None \/ d.reason \notin Automatic \/ Descends(server, File(p))
         /\ d.decision = "upload_existing" =>
              d.reason \notin Automatic \/ Descends(File(p), remote[p])
  <1>1. /\ remote[p] \in Versions /\ order \in TimeOrders /\ File(p) \in Optional
        /\ Mode(p) \in Modes /\ Policy(p) \in Policies
    BY Machines, ConstantsAssumption DEF IInv, Optional
  <1>2. /\ mem[p].lr = mem[p].ll
        /\ mem[p].ll # None => Descends(server, mem[p].ll) /\ Descends(File(p), mem[p].ll)
    BY DEF IInv, ProcInv, Lineage, File
  <1>3. d = Resolve(remote[p], File(p), Mode(p), Policy(p), mem[p].ll, mem[p].ll, un, order)
    BY <1>2
  <1>4. /\ d.decision = "download" =>
             File(p) = None \/ d.reason \notin Automatic \/ (mem[p].ll # None /\ File(p) = mem[p].ll)
        /\ d.decision = "upload_existing" =>
             d.reason \notin Automatic \/ (mem[p].ll # None /\ remote[p] = mem[p].ll)
    BY <1>1, <1>3, ResolvedByLineage
  <1> QED BY <1>2, <1>4

\* The memory of a process that keeps its lineage, and what it knows of the server.
LEMMA Onward ==
  ASSUME IInv, TypeOK', Moves, NEW p \in Procs, remote'[p] = remote[p],
         mem'[p].ll = mem[p].ll, mem'[p].lr = mem[p].lr
  PROVE  Lineage(mem[p], ClientOf[p])' /\ Learned(p)'
  <1>1. PICK m \in States : m = mem[p]
    BY Machines DEF IInv
  <1>2. Lineage(m, ClientOf[p])'
    BY <1>1, LineageKept, Machines DEF ProcInv, IInv
  <1> QED BY <1>1, <1>2, LearnedKept DEF Lineage

\* ... or records that the two sides are equal.
LEMMA Agreed ==
  ASSUME IInv, TypeOK', NEW p \in Procs, NEW l \in Optional, NEW r \in Optional, l = r,
         mem'[p] = Converged(mem[p], l, r),
         l # None => Descends(server, l)' /\ Descends(File(p), l)'
  PROVE  Lineage(mem[p], ClientOf[p])'
  <1>1. mem'[p].ll = l /\ mem'[p].lr = r
    BY Machines, StateChanges DEF IInv, Converged, State
  <1> QED BY <1>1 DEF Lineage, Descends, File

\* An operation that is over knows nothing.
LEMMA Forgotten ==
  ASSUME TypeOK, NEW p \in Procs, Done(p)
  PROVE  ProcInv(p)'
  <1>1. pc'[p] = "idle" /\ mem'[p] = NoState /\ remote'[p] = None
    BY DEF TypeOK, Done, Goto
  <1>2. NoState.ll = None /\ NoState.lr = None
    BY DEF NoState, State
  <1> QED BY <1>1, <1>2 DEF ProcInv, Lineage, Learned

-----------------------------------------------------------------------------
(* The process that takes the step.                                        *)

\* A plan is made from what the process read, so what it says of the lineage is
\* true while the server has moved on at most.
LEMMA SyncPlanKeeps ==
  ASSUME IInv, TypeOK', Moves, NEW p \in Procs, SyncPlan(p)
  PROVE  ProcInv(p)'
  <1>0. TypeOK /\ UNCHANGED contents /\ remote' = remote /\ kind'[p] = kind[p] /\ kind[p] = "sync"
    BY DEF IInv, SyncPlan
  <1>1. PICK order \in Orders : plan' = [plan EXCEPT ![p] = Planned(p, order)]
    BY DEF SyncPlan
  <1> DEFINE d == Planned(p, order)
  <1>2. plan'[p] = d /\ pc'[p] = Phase(d.decision) /\ seen'[p] = File(p)
    BY <1>0, <1>1 DEF TypeOK, SyncPlan, Goto
  <1>3. mem'[p].ll = mem[p].ll /\ mem'[p].lr = mem[p].lr
    BY <1>0 DEF TypeOK, SyncPlan, SetMem, Unresolved, State
  <1>4. Lineage(mem[p], ClientOf[p])' /\ Learned(p)'
    BY <1>0, <1>3, Onward
  <1>5. /\ d.decision = "download" => remote[p] # None
        /\ d.decision = "upload_existing" => remote[p] # None
        /\ d = Decide("skip", "already-synced") => remote[p] # None /\ File(p) = remote[p]
    BY <1>0, Plannings
  <1>6. /\ d.decision = "download" =>
             File(p) = None \/ d.reason \notin Automatic \/ Descends(server, File(p))
        /\ d.decision = "upload_existing" =>
             d.reason \notin Automatic \/ Descends(File(p), remote[p])
    BY <1>5, DecisionDescends DEF Planned
  <1> HIDE DEF d
  <1>7. File(p)' = File(p) /\ server' = server /\ hist' = hist
    BY <1>0 DEF File, contents
  <1>8. pc'[p] = "download" => Downloading(p)'
    BY <1>0, <1>2, <1>6, <1>7, Phases DEF Downloading, Chosen, Descends
  <1>9. pc'[p] = "upload" => Uploading(p)'
    BY <1>0, <1>2, <1>5, <1>6, <1>7, Phases DEF Uploading, Chosen, Descends
  <1>10. Finishing(p)'
    BY <1>0, <1>2, <1>5, <1>7 DEF Finishing
  <1>11. pc'[p] \in {"download", "upload", "finish"}
    BY <1>2, Phases
  <1> QED BY <1>4, <1>8, <1>9, <1>10, <1>11 DEF ProcInv

LEMMA OperatorPlanKeeps ==
  ASSUME IInv, TypeOK', Moves, NEW p \in Procs, OperatorPlan(p)
  PROVE  ProcInv(p)'
  <1>0. /\ TypeOK /\ remote'[p] = remote[p] /\ kind'[p] = kind[p] /\ kind[p] \in Operators
        /\ mem' = mem
    BY DEF IInv, OperatorPlan
  <1>1. Lineage(mem[p], ClientOf[p])' /\ Learned(p)'
    BY <1>0, Onward
  <1>2. /\ plan'[p].decision \in {"download", "upload_existing", "upload_new"}
        /\ plan'[p].decision = "upload_existing" => remote[p] # None
        /\ plan'[p].reason = "operator"
        /\ pc'[p] = Phase(plan'[p].decision)
    BY <1>0 DEF TypeOK, OperatorPlan, Goto, Decide, Operators
  <1>3. Chosen(p)'
    BY <1>2 DEF Chosen, Automatic
  <1>4. kind'[p] # "session"
    BY <1>0 DEF Operators
  <1>5. pc'[p] = "download" => Downloading(p)'
    BY <1>2, <1>3, <1>4, Phases DEF Downloading
  <1>6. pc'[p] = "upload" => Uploading(p)'
    BY <1>0, <1>2, <1>3, Phases DEF Uploading
  <1>7. pc'[p] \in {"download", "upload"}
    BY <1>2, Phases
  <1> QED BY <1>1, <1>5, <1>6, <1>7 DEF ProcInv

LEMMA PrelaunchPlanKeeps ==
  ASSUME IInv, TypeOK', Moves, NEW p \in Procs, PrelaunchPlan(p)
  PROVE  ProcInv(p)'
  <1>0. /\ TypeOK /\ UNCHANGED contents /\ remote' = remote /\ kind'[p] = kind[p]
        /\ kind[p] = "session" /\ remote[p] # None
    BY DEF IInv, PrelaunchPlan
  <1>1. PICK order \in Orders : \E un :
          LET d == Resolve(remote[p], File(p), Mode(p), Policy(p), mem[p].ll, mem[p].lr, un, order)
          IN /\ plan' = [plan EXCEPT ![p] = d]
             /\ \E u, off : SetMem(p, State(mem[p].ll, mem[p].lr, u, off))
             /\ allow' = [allow EXCEPT ![p] = d.decision # "conflict"]
             /\ Goto(p, IF d.decision = "download" THEN "download" ELSE "play")
    BY DEF PrelaunchPlan
  <1>2. PICK un :
          LET d == Resolve(remote[p], File(p), Mode(p), Policy(p), mem[p].ll, mem[p].lr, un, order)
          IN /\ plan' = [plan EXCEPT ![p] = d]
             /\ \E u, off : SetMem(p, State(mem[p].ll, mem[p].lr, u, off))
             /\ allow' = [allow EXCEPT ![p] = d.decision # "conflict"]
             /\ Goto(p, IF d.decision = "download" THEN "download" ELSE "play")
    BY <1>1
  <1> DEFINE d == Resolve(remote[p], File(p), Mode(p), Policy(p), mem[p].ll, mem[p].lr, un, order)
  <1>3. /\ plan'[p] = d /\ allow'[p] = (d.decision # "conflict")
        /\ pc'[p] = IF d.decision = "download" THEN "download" ELSE "play"
        /\ \E u, off : mem'[p] = State(mem[p].ll, mem[p].lr, u, off)
    BY <1>0, <1>2 DEF TypeOK, SetMem, Goto
  <1>4. /\ d.decision = "download" => File(p) # remote[p]
        /\ d.decision = "skip" => File(p) = remote[p] \/ Mode(p) = "download"
        /\ d.decision \in {"download", "upload_existing", "skip", "conflict"}
    BY <1>0, SessionPlannings
  <1>5. /\ d.decision = "download" =>
             File(p) = None \/ d.reason \notin Automatic \/ Descends(server, File(p))
        /\ d.decision = "upload_existing" =>
             d.reason \notin Automatic \/ Descends(File(p), remote[p])
    BY <1>0, DecisionDescends
  <1> HIDE DEF d
  <1>6. mem'[p].ll = mem[p].ll /\ mem'[p].lr = mem[p].lr
    BY <1>3 DEF State
  <1>7. Lineage(mem[p], ClientOf[p])' /\ Learned(p)'
    BY <1>0, <1>6, Onward
  <1>8. /\ File(p)' = File(p) /\ server' = server /\ hist' = hist /\ seen'[p] = File(p)
        /\ Mode(p)' = Mode(p)
    BY <1>0 DEF File, contents, PrelaunchPlan, TypeOK, Mode
  <1>9. pc'[p] = "download" => Downloading(p)'
    BY <1>0, <1>3, <1>4, <1>5, <1>8 DEF Downloading, Chosen, Stranded, Descends
  <1>10. d.decision = "skip" /\ Mode(p) = "bidirectional" => Descends(File(p), remote[p])
    BY <1>0, <1>4, Itself, Machines DEF File
  <1>11. pc'[p] = "play" => Playing(p)'
    BY <1>0, <1>3, <1>4, <1>5, <1>8, <1>10 DEF Playing, Pending, Chosen, Descends
  <1>12. pc'[p] \in {"download", "play"}
    BY <1>3
  <1> QED BY <1>7, <1>9, <1>11, <1>12 DEF ProcInv

\* After a download both sides have the server's save; after a failed one the
\* local side is what it was.
LEMMA DownloadKeeps ==
  ASSUME IInv, TypeOK', Moves, NEW p \in Procs, Download(p)
  PROVE  ProcInv(p)'
  <1>0. TypeOK /\ Downloading(p) /\ Learned(p) /\ server = remote[p]
    BY DEF IInv, ProcInv, Download
  <1>1. /\ File(p)' = server /\ server \in Versions /\ server \in hist'[server] /\ server' = server
        /\ kind'[p] = kind[p] /\ plan'[p] = plan[p] /\ remote'[p] = server
        /\ pc'[p] = IF kind[p] = "session" THEN "play" ELSE "finish"
        /\ mem'[p] = Converged(mem[p], server, server)
    BY <1>0, DownloadMoves DEF TypeOK, Download, SetMem, Goto
  <1>2. Descends(server, server)' /\ Descends(File(p), server)'
    BY <1>1, NoneIsNone DEF Descends
  <1>3. Lineage(mem[p], ClientOf[p])'
    <2>1. PICK x \in Optional : x = server
      BY <1>1 DEF Optional
    <2>2. Descends(server, x)' /\ Descends(File(p), x)'
      BY <1>1, <1>2, <2>1 DEF Descends
    <2> QED BY <1>1, <2>1, <2>2, Agreed
  <1>4. Learned(p)'
    BY <1>1, <1>2 DEF Learned, Descends
  <1>5. pc'[p] = "play" => Playing(p)'
    BY <1>1, <1>2 DEF Playing, Descends
  <1>6. Finishing(p)'
    BY <1>0, <1>1 DEF Finishing, Downloading, Decide
  <1>7. pc'[p] \in {"play", "finish"}
    BY <1>1
  <1> QED BY <1>3, <1>4, <1>5, <1>6, <1>7 DEF ProcInv

LEMMA DownloadFailsKeeps ==
  ASSUME IInv, TypeOK', Moves, NEW p \in Procs, DownloadFails(p)
  PROVE  ProcInv(p)'
  <1>0. TypeOK /\ Downloading(p)
    BY DEF IInv, ProcInv, DownloadFails
  <1>1. CASE Done(p)
    BY <1>0, <1>1, Forgotten
  <1>2. CASE kind[p] = "session" /\ Goto(p, "play") /\ UNCHANGED <<procVars, mem, dirty>>
    <2>1. pc'[p] = "play"
      BY <1>0, <1>2 DEF TypeOK, Goto
    <2>2. Lineage(mem[p], ClientOf[p])' /\ Learned(p)'
      BY <1>2, Onward DEF procVars
    <2>3. Playing(p)'
      BY <1>0, <1>2 DEF Downloading, Playing, Stranded, procVars
    <2> QED BY <2>1, <2>2, <2>3 DEF ProcInv
  <1> QED BY <1>1, <1>2 DEF DownloadFails

\* After an upload the server has the local save.
LEMMA UploadKeeps ==
  ASSUME IInv, TypeOK', Moves, NEW p \in Procs, Upload(p)
  PROVE  ProcInv(p)'
  <1>0. TypeOK /\ Uploading(p) /\ File(p) # None
    BY DEF IInv, ProcInv, TypeOK, Upload
  <1>1. File(p) \in Versions /\ File(p) \in hist'[File(p)]
    BY UploadMoves DEF Upload
  <1>2. /\ pc'[p] = "record" /\ remote'[p] = File(p) /\ server' = File(p) /\ File(p)' = File(p)
        /\ plan' = plan /\ mem' = mem
    BY <1>0 DEF TypeOK, Upload, Goto, File
  <1>3. Recording(p)'
    BY <1>0, <1>2 DEF Uploading, Recording
  <1>4. Learned(p)'
    BY <1>0, <1>1, <1>2 DEF Learned, Descends
  <1>5. Lineage(mem[p], ClientOf[p])'
    <2>1. PICK m \in States : m = mem[p]
      BY <1>0, Machines
    <2>2. Lineage(m, ClientOf[p])'
      BY <1>0, <2>1, LineageKept, Machines DEF ProcInv, IInv
    <2> QED BY <1>2, <2>1, <2>2 DEF Lineage
  <1> QED BY <1>2, <1>3, <1>4, <1>5 DEF ProcInv

\* What is recorded as converged is what both sides descend from.
LEMMA RecordKeeps ==
  ASSUME IInv, TypeOK', Moves, NEW p \in Procs, Record(p)
  PROVE  ProcInv(p)'
  <1>0. TypeOK /\ Recording(p) /\ Learned(p)
    BY DEF IInv, ProcInv, Record
  <1>1. /\ pc'[p] = "finish" /\ remote' = remote /\ plan' = plan
        /\ mem'[p] = Converged(mem[p], File(p), remote[p])
        /\ File(p)' = File(p) /\ server' = server /\ hist' = hist
    BY <1>0 DEF TypeOK, Record, SetMem, Goto, procVars, contents, File
  <1>2. PICK f \in Optional : f = File(p)
    BY <1>0, Machines
  <1>3. f # None => Descends(server, f) /\ Descends(File(p), f)
    BY <1>0, <1>2, Itself, Machines DEF Recording, Learned, File
  <1>4. f # None => Descends(server, f)' /\ Descends(File(p), f)'
    BY <1>1, <1>3 DEF Descends
  <1>5. Lineage(mem[p], ClientOf[p])'
    BY <1>0, <1>1, <1>2, <1>4, Agreed DEF Recording
  <1>6. Learned(p)'
    BY <1>1, LearnedKept
  <1>7. Finishing(p)'
    BY <1>0, <1>1 DEF Finishing, Recording, Decide
  <1> QED BY <1>1, <1>5, <1>6, <1>7 DEF ProcInv

\* A process finds that the server has its local content already.
LEMMA FoundEqual ==
  ASSUME IInv, TypeOK', NEW p \in Procs, UNCHANGED contents, server = File(p),
         mem'[p] = Converged(mem[p], File(p), server)
  PROVE  Lineage(mem[p], ClientOf[p])'
  <1>1. PICK f \in Optional : f = File(p)
    BY Machines DEF IInv
  <1>2. f # None => Descends(server, f) /\ Descends(File(p), f)
    BY <1>1, Itself
  <1>3. f # None => Descends(server, f)' /\ Descends(File(p), f)'
    BY <1>2 DEF Descends, File, contents
  <1> QED BY <1>1, <1>3, Agreed

\* A refused upload leaves the server's save for the next decision; one that
\* fails otherwise ends the process's interest, or the answer alone was lost.
LEMMA UploadRefusedKeeps ==
  ASSUME IInv, TypeOK', Moves, NEW p \in Procs, UploadRefused(p)
  PROVE  ProcInv(p)'
  <1>0. TypeOK /\ Uploading(p)
    BY DEF IInv, ProcInv, UploadRefused
  <1>1. pc'[p] = "finish" /\ remote' = remote /\ plan' = plan /\ UNCHANGED contents
    BY <1>0 DEF TypeOK, UploadRefused, Goto, procVars
  <1>2. mem'[p] = IF server = File(p) THEN Converged(mem[p], File(p), server)
                  ELSE Unresolved(mem[p], RefusalReason(p))
    BY <1>0 DEF TypeOK, UploadRefused, SetMem
  <1>3. Lineage(mem[p], ClientOf[p])'
    <2>1. CASE server = File(p)
      BY <1>1, <1>2, <2>1, FoundEqual
    <2>2. CASE server # File(p)
      <3>1. mem'[p].ll = mem[p].ll /\ mem'[p].lr = mem[p].lr
        BY <1>2, <2>2 DEF Unresolved, State
      <3> QED BY <1>1, <3>1, Onward
    <2> QED BY <2>1, <2>2
  <1>4. Learned(p)'
    BY <1>1, LearnedKept
  <1>5. Finishing(p)'
    BY <1>0, <1>1 DEF Finishing, Uploading, Decide
  <1> QED BY <1>1, <1>3, <1>4, <1>5 DEF ProcInv

LEMMA UploadFailsKeeps ==
  ASSUME IInv, Undisturbed, TypeOK', Moves, NEW p \in Procs, UploadFails(p)
  PROVE  ProcInv(p)'
  <1>0. TypeOK
    BY DEF IInv
  <1>1. CASE Done(p)
    BY <1>0, <1>1, Forgotten
  <1>2. CASE ~Done(p)
    <2>1. /\ kind[p] = "session" /\ pc'[p] = "finish" /\ kind' = kind /\ remote' = remote
          /\ SetMem(p, Unresolved(mem[p], "create-race")) \/ SetMem(p, mem[p])
      BY <1>0, <1>2 DEF TypeOK, UploadFails, Undisturbed, Goto, procVars
    <2>2. mem'[p].ll = mem[p].ll /\ mem'[p].lr = mem[p].lr
      BY <1>0, <2>1 DEF TypeOK, SetMem, Unresolved, State
    <2>3. Lineage(mem[p], ClientOf[p])' /\ Learned(p)'
      BY <2>1, <2>2, Onward
    <2>4. Finishing(p)'
      BY <2>1 DEF Finishing
    <2> QED BY <2>1, <2>3, <2>4 DEF ProcInv
  <1> QED BY <1>1, <1>2

\* A session on its way to the game and back.
LEMMA SessionKeeps ==
  ASSUME IInv, TypeOK', Moves, NEW p \in Procs,
         PrelaunchUnknown(p) \/ GameWrites(p) \/ GameQuits(p)
  PROVE  ProcInv(p)'
  <1>0. TypeOK
    BY DEF IInv
  <1>1. /\ remote' = remote /\ kind' = kind /\ plan' = plan /\ Mode(p)' = Mode(p)
        /\ pc'[p] \in {"play", "exit"}
        /\ mem'[p].ll = mem[p].ll /\ mem'[p].lr = mem[p].lr
    BY <1>0 DEF TypeOK, PrelaunchUnknown, GameWrites, GameQuits, Goto, SetMem, State, Mode, procVars
  <1>2. Lineage(mem[p], ClientOf[p])' /\ Learned(p)'
    BY <1>1, Onward
  <1>3. Playing(p)'
    <2>1. CASE PrelaunchUnknown(p)
      BY <1>1, <2>1 DEF PrelaunchUnknown, Playing
    <2>2. CASE GameWrites(p) \/ GameQuits(p)
      <3>1. Playing(p) /\ seen' = seen /\ allow' = allow
        BY <2>2 DEF IInv, ProcInv, GameWrites, GameQuits, procVars
      <3>2. PICK r \in Optional : r = remote[p]
        BY <1>0, Machines
      <3>3. r # None /\ Descends(File(p), r) => Descends(File(p), r)'
        BY <1>0, Kept, Machines DEF Optional, File
      <3> QED BY <1>1, <3>1, <3>2, <3>3 DEF Playing, Stranded, Pending, Chosen, Descends
    <2> QED BY <2>1, <2>2
  <1> QED BY <1>1, <1>2, <1>3 DEF ProcInv

\* A session that does not upload.
LEMMA SessionEndKeeps ==
  ASSUME IInv, TypeOK', Moves, NEW p \in Procs,
         LaunchFails(p) \/ ExitQuiet(p) \/ ExitConflict(p) \/ CreateRace(p)
  PROVE  ProcInv(p)'
  <1>0. TypeOK /\ kind[p] = "session"
    BY DEF IInv, ProcInv, Playing, LaunchFails, ExitQuiet, ExitConflict, CreateRace
  <1>1. UNCHANGED contents /\ remote' = remote /\ kind' = kind /\ pc'[p] = "finish"
    BY <1>0 DEF TypeOK, LaunchFails, ExitQuiet, ExitConflict, CreateRace, Goto, procVars
  <1>2. \/ mem'[p].ll = mem[p].ll /\ mem'[p].lr = mem[p].lr
        \/ File(p) = server /\ mem'[p] = Converged(mem[p], File(p), server)
    BY <1>0 DEF TypeOK, LaunchFails, ExitQuiet, ExitConflict, CreateRace, SetMem, Unresolved, State
  <1>3. Lineage(mem[p], ClientOf[p])'
    BY <1>1, <1>2, Onward, FoundEqual
  <1>4. Learned(p)'
    BY <1>1, LearnedKept
  <1>5. Finishing(p)'
    BY <1>0, <1>1 DEF Finishing
  <1> QED BY <1>1, <1>3, <1>4, <1>5 DEF ProcInv

\* A session that uploads: this is where a save that came back would be lost.
LEMMA ExitUploadsKeeps ==
  ASSUME IInv, NoReturn, TypeOK', Moves, NEW p \in Procs, ExitUploads(p) \/ ExitCreates(p)
  PROVE  ProcInv(p)'
  <1>0. TypeOK /\ Playing(p) /\ Wants(p)
    BY DEF IInv, ProcInv, ExitUploads, ExitCreates
  <1>1. /\ UNCHANGED contents /\ remote' = remote /\ mem' = mem /\ pc'[p] = "upload"
        /\ File(p)' = File(p)
    BY <1>0 DEF TypeOK, ExitUploads, ExitCreates, Goto, contents, File
  <1>2. Lineage(mem[p], ClientOf[p])' /\ Learned(p)'
    BY <1>1, Onward
  <1>3. Uploading(p)'
    <2>1. CASE ExitCreates(p)
      BY <1>0, <2>1 DEF ExitCreates, TypeOK, Uploading, Decide
    <2>2. CASE ExitUploads(p)
      <3>1. remote[p] # None /\ ~Stranded(p)
        BY <2>2 DEF ExitUploads, NoReturn
      <3>2. (Pending(p) /\ Chosen(p)) \/ Descends(File(p), remote[p])
        BY <1>0, <3>1 DEF Playing, Wants, Watches
      <3>3. plan'[p] = IF Pending(p) THEN plan[p] ELSE Decide("upload_existing", "session")
        BY <1>0, <2>2 DEF TypeOK, ExitUploads
      <3>4. plan'[p].decision = "upload_existing"
        BY <3>3 DEF Pending, Decide
      <3>5. Pending(p) /\ Chosen(p) => Chosen(p)'
        BY <3>3 DEF Chosen
      <3> QED BY <1>1, <3>1, <3>2, <3>4, <3>5 DEF Uploading, Descends, contents
    <2> QED BY <2>1, <2>2
  <1> QED BY <1>1, <1>2, <1>3 DEF ProcInv

\* Beginnings and ends.
LEMMA EdgesKeep ==
  ASSUME IInv, TypeOK', Moves, NEW p \in Procs,
         \/ (\E k \in Kinds : Start(p, k)) \/ Fetch(p)
         \/ OperatorRefused(p) \/ Abort(p) \/ Finish(p)
  PROVE  ProcInv(p)'
  <1>0. TypeOK
    BY DEF IInv
  <1>1. CASE OperatorRefused(p) \/ Abort(p) \/ Finish(p)
    BY <1>0, <1>1, Forgotten DEF OperatorRefused, Abort, Finish
  <1>2. CASE \E k \in Kinds : Start(p, k)
    <2>1. pc'[p] = "fetch" /\ mem'[p] = disk[ClientOf[p]] /\ remote' = remote
      BY <1>0, <1>2 DEF TypeOK, Start, Goto, SetMem
    <2>2. PICK m \in States : m = disk[ClientOf[p]]
      BY <1>0, Machines
    <2>3. Lineage(m, ClientOf[p])'
      BY <1>0, <2>2, LineageKept, Machines DEF IInv, DiskInv
    <2>4. Lineage(mem[p], ClientOf[p])'
      BY <2>1, <2>2, <2>3 DEF Lineage
    <2> QED BY <2>1, <2>4, LearnedKept DEF ProcInv
  <1>3. CASE Fetch(p)
    <2>1. pc'[p] = "plan" /\ mem' = mem /\ remote'[p] = server /\ UNCHANGED contents
      BY <1>0, <1>3 DEF TypeOK, Fetch, Goto
    <2>2. Learned(p)'
      BY <2>1, Itself DEF Learned, Descends, contents
    <2>3. Lineage(mem[p], ClientOf[p])'
      BY <2>1 DEF IInv, ProcInv, Lineage, Descends, contents
    <2> QED BY <2>1, <2>2, <2>3 DEF ProcInv
  <1> QED BY <1>1, <1>2, <1>3

\* What state.json says of the save.
LEMMA DiskKeeps ==
  ASSUME IInv, [Next]_vars, TypeOK', Moves
  PROVE  DiskInv'
  <1>0. TypeOK
    BY DEF IInv
  <1>1. ASSUME NEW c \in Clients, disk'[c] = disk[c] PROVE Lineage(disk[c], c)'
    <2>1. PICK m \in States : m = disk[c]
      BY <1>0 DEF TypeOK
    <2>2. Lineage(m, c)'
      BY <2>1, LineageKept DEF IInv, DiskInv
    <2> QED BY <1>1, <2>1, <2>2 DEF Lineage
  <1>2. ASSUME NEW p \in Procs, Finish(p) PROVE DiskInv'
    <2>1. PICK c \in Clients : c = ClientOf[p]
      BY <1>0, Machines
    <2>2. /\ UNCHANGED contents
          /\ \A e \in Clients \ {c} : disk'[e] = disk[e]
          /\ disk'[c] \in {disk[c], mem[p]} \/ (kind[p] = "sync" /\ disk'[c] = Pruned(p))
      BY <1>0, <1>2, <2>1 DEF TypeOK, Finish
    <2>3. /\ Lineage(mem[p], c) /\ Finishing(p)
      BY <1>2, <2>1 DEF IInv, ProcInv, Finish
    <2>4. CASE disk'[c] \in {disk[c], mem[p]}
      <3>1. Lineage(disk[c], c)'
        BY <2>2, <2>3, <2>4 DEF IInv, DiskInv, Lineage, Descends, contents
      <3> QED BY <1>1, <2>2, <3>1 DEF DiskInv
    <2>5. CASE kind[p] = "sync" /\ disk'[c] = Pruned(p)
      <3>1. CASE plan[p] = Decide("skip", "already-synced") /\ mem[p].un # None
        <4>1. disk'[c] = Converged(mem[p], seen[p], remote[p])
          BY <2>5, <3>1 DEF Pruned, NoPlan, Decide
        <4>2. seen[p] = remote[p] /\ File(p) = remote[p] /\ remote[p] # None
          BY <2>3, <2>5, <3>1 DEF Finishing
        <4>3. Descends(server, remote[p]) /\ Descends(File(p), remote[p])
          BY <1>0, <4>2, Itself, Machines DEF IInv, ProcInv, Learned, File
        <4>4. Lineage(disk[c], c)'
          BY <2>1, <2>2, <4>1, <4>2, <4>3 DEF Lineage, Descends, contents, Converged, State, File
        <4> QED BY <1>1, <2>2, <4>4 DEF DiskInv
      <3>2. CASE ~(plan[p] = Decide("skip", "already-synced") /\ mem[p].un # None)
        <4>1. disk'[c].ll = mem[p].ll /\ disk'[c].lr = mem[p].lr
          BY <2>5, <3>2 DEF Pruned, Unresolved, State
        <4>2. Lineage(disk[c], c)'
          BY <2>2, <2>3, <4>1 DEF Lineage, Descends, contents
        <4> QED BY <1>1, <2>2, <4>2 DEF DiskInv
      <3> QED BY <3>1, <3>2
    <2> QED BY <2>2, <2>4, <2>5
  <1>3. CASE disk' = disk
    BY <1>1, <1>3 DEF DiskInv
  <1> QED BY ZenonT(60), <1>2, <1>3
      DEF Next, vars, Play, Step, Abort, Start, Fetch, SyncPlan, OperatorPlan, OperatorRefused,
          Download, DownloadFails, Upload, Record, UploadRefused, UploadFails,
          PrelaunchOffline, PrelaunchPlan, PrelaunchUnknown, GameWrites, GameQuits, LaunchFails,
          ExitQuiet, ExitOffline, ExitUploads, ExitConflict, ExitCreates, CreateRace

-----------------------------------------------------------------------------
(* The invariant, and what follows from it.                                *)

\* The process of a step keeps its part.
LEMMA OwnStep ==
  ASSUME IInv, Undisturbed, NoReturn, TypeOK', Moves, NEW p \in Procs,
         Step(p) \/ Abort(p) \/ (\E k \in Kinds : Start(p, k))
  PROVE  ProcInv(p)'
  <1>1. ~PrelaunchOffline(p) /\ ~ExitOffline(p)
    BY DEF Undisturbed, PrelaunchOffline, ExitOffline
  <1> QED BY <1>1, SyncPlanKeeps, OperatorPlanKeeps, PrelaunchPlanKeeps, DownloadKeeps,
             DownloadFailsKeeps, UploadKeeps, RecordKeeps, UploadRefusedKeeps, UploadFailsKeeps,
             SessionKeeps, SessionEndKeeps, ExitUploadsKeeps, EdgesKeep DEF Step

\* A process only writes the file of its own machine.
LEMMA OthersFiles ==
  ASSUME TypeOK, Undisturbed, NEW p \in Procs, NEW q \in Procs, q # p,
         Step(p) \/ Abort(p) \/ (\E k \in Kinds : Start(p, k))
  PROVE  File(q)' = File(q)
  <1>1. ClientOf[q] # ClientOf[p] /\ ClientOf[q] \in Clients /\ ClientOf[p] \in Clients
    BY Machines DEF Undisturbed
  <1>2. \/ files' = files
        \/ \E v : files' = [files EXCEPT ![ClientOf[p]] = v]
    <2>1. CASE GameWrites(p)
      BY <2>1 DEF GameWrites, Write
    <2>2. CASE Download(p)
      BY <2>2 DEF Download
    <2>3. CASE ~GameWrites(p) /\ ~Download(p)
      BY <2>3
      DEF Step, Abort, Start, Fetch, SyncPlan, OperatorPlan, OperatorRefused, DownloadFails, Record,
          Upload, UploadRefused, UploadFails, PrelaunchOffline, PrelaunchPlan, PrelaunchUnknown,
          GameQuits, LaunchFails, ExitQuiet, ExitOffline, ExitUploads, ExitConflict, ExitCreates,
          CreateRace, Finish, contents
    <2> QED BY <2>1, <2>2, <2>3
  <1> QED BY <1>1, <1>2 DEF File, TypeOK

\* Every step that does not bring an old content back keeps the invariant.
LEMMA InvariantStep ==
  ASSUME IInv, Undisturbed, NoReturn, [Next]_vars
  PROVE  IInv'
  <1>1. TypeOK /\ TypeOK' /\ Moves
    BY TypeStep, StepMoves DEF IInv
  <1>2. DiskInv'
    BY <1>1, DiskKeeps
  <1>3. ASSUME NEW q \in Procs PROVE ProcInv(q)'
    <2>1. CASE UNCHANGED vars
      <3>1. Same(q) /\ File(q)' = File(q)
        BY <2>1 DEF vars, contents, procVars, Same, File
      <3> QED BY <1>1, <3>1, OthersKept
    <2>2. ASSUME NEW c \in Clients, Play(c) PROVE ProcInv(q)'
      <3>1. Same(q)
        BY <2>2 DEF Play, procVars, Same
      <3>2. pc[q] = "idle" \/ ClientOf[q] # c
        BY <2>2 DEF Undisturbed, Play
      <3>3. ClientOf[q] # c => File(q)' = File(q)
        BY <1>1, <2>2, Machines DEF Play, Write, File, TypeOK
      <3> QED BY <1>1, <3>1, <3>2, <3>3, OthersKept
    <2>3. ASSUME NEW p \in Procs, Step(p) \/ Abort(p) \/ (\E k \in Kinds : Start(p, k))
          PROVE  ProcInv(q)'
      <3>1. CASE q = p
        BY <1>1, <2>3, <3>1, OwnStep
      <3>2. CASE q # p
        BY <1>1, <2>3, <3>2, Isolated, OthersFiles, OthersKept
      <3> QED BY <3>1, <3>2
    <2> QED BY <2>1, <2>2, <2>3 DEF Next
  <1> QED BY <1>1, <1>2, <1>3 DEF IInv, Moves

\* It holds at the start: nobody has a lineage.
LEMMA InvariantInit == Init => IInv
  <1> SUFFICES ASSUME Init PROVE IInv
    OBVIOUS
  <1>1. NoState.ll = None /\ NoState.lr = None
    BY DEF NoState, State
  <1>2. \A c \in Clients : Lineage(NoState, c)
    BY <1>1 DEF Lineage
  <1>3. TypeOK
    BY TypeInit
  <1>4. Ancestry /\ InUse
    BY Numbered, <1>3 DEF Init, Ancestry, InUse, Versions
  <1>5. DiskInv
    BY <1>2 DEF Init, DiskInv
  <1>6. \A p \in Procs : ProcInv(p)
    BY <1>2, <1>3, Machines DEF Init, ProcInv, Learned
  <1> QED BY <1>3, <1>4, <1>5, <1>6 DEF IInv

(* The invariant of undisturbed machines, as long as the server does not   *)
(* come back to what a session failed to download.                         *)
THEOREM InductiveInvariant ==
  ASSUME Undisturbed
  PROVE  Spec /\ []NoReturn => []IInv
  <1>1. IInv /\ NoReturn /\ [Next]_vars => IInv'
    BY InvariantStep
  <1> QED BY <1>1, InvariantInit, PTL DEF Spec

\* LineageShared is what DiskInv says of state.json.
LEMMA SharedLineage == IInv => LineageShared
  <1> SUFFICES ASSUME IInv, NEW c \in Clients, disk[c].ll # None
               PROVE  /\ disk[c].lr = disk[c].ll
                      /\ Descends(server, disk[c].ll) /\ Descends(files[c], disk[c].ll)
    BY DEF LineageShared, Descends
  <1> QED BY DEF IInv, DiskInv, Lineage

\* LocalNotLost and ServerNotLost are what Moves says of one step.
LEMMA NothingLost ==
  ASSUME IInv, [Next]_vars
  PROVE  /\ \A c \in Clients : files'[c] # files[c] => Supersedes(files'[c], files[c])
         /\ server' # server => Supersedes(server', server)
  BY StepMoves DEF Moves

(* Every lineage in a state.json is a content that the local save and the  *)
(* server's both descend from (record_converged_save_state and what the    *)
(* later decisions take it for).                                           *)
THEOREM LineagesAreShared ==
  ASSUME Undisturbed
  PROVE  Spec /\ []NoReturn => []LineageShared
  BY InductiveInvariant, SharedLineage, PTL

(* No download replaces a local save that the server's does not descend    *)
(* from, unless somebody chose so.                                         *)
THEOREM LocalSavesAreKept ==
  ASSUME Undisturbed
  PROVE  Spec /\ []NoReturn => LocalNotLost
  <1>1. IInv /\ [Next]_vars =>
          [\A c \in Clients : files'[c] # files[c] => Supersedes(files'[c], files[c])]_vars
    BY NothingLost
  <1> QED BY <1>1, InductiveInvariant, PTL DEF Spec, LocalNotLost

(* No upload replaces a save of the server that the local one does not     *)
(* descend from, unless somebody chose so.                                 *)
THEOREM ServerSavesAreKept ==
  ASSUME Undisturbed
  PROVE  Spec /\ []NoReturn => ServerNotLost
  <1>1. IInv /\ [Next]_vars => [server' # server => Supersedes(server', server)]_vars
    BY NothingLost
  <1> QED BY <1>1, InductiveInvariant, PTL DEF Spec, ServerNotLost

-----------------------------------------------------------------------------
(* Where no session can find the server back at an old content.            *)

\* The manual policy never chooses.
LEMMA ManualDecides ==
  ASSUME NEW r \in Versions, NEW l \in Optional, NEW mode \in Modes, NEW ll, NEW lr,
         NEW un, un # Missed, NEW order,
         NEW d, d = Resolve(r, l, mode, "manual", ll, lr, un, order)
  PROVE  /\ d.decision \in {"download", "upload_existing"} => d.reason \in Automatic
         /\ d.reason # Missed
  <1>1. d = Classify(r, l, mode, "manual", ll, lr)
    BY DEF Resolve, TimestampDecides
  <1>2. CASE l = None \/ l = r \/ mode = "download"
    BY <1>1, <1>2 DEF Classify, Decide, Automatic, Missed
  <1>3. CASE ~(l = None \/ l = r \/ mode = "download")
    <2>0. d = ByLineage(r, l, "manual", ll, lr)
      BY <1>1, <1>3 DEF Classify
    <2>1. CASE ll = None /\ lr = None
      BY <2>0, <2>1 DEF ByLineage, Changed, ByPolicy, Decide, Missed
    <2>2. CASE ~(ll = None /\ lr = None) /\ Changed(l, ll) /\ ~Changed(r, lr)
      BY <2>0, <2>2 DEF ByLineage, Decide, Automatic, Missed
    <2>3. CASE ~(ll = None /\ lr = None) /\ Changed(r, lr) /\ ~Changed(l, ll)
      BY <2>0, <2>3 DEF ByLineage, Decide, Automatic, Missed
    <2>4. CASE ~(ll = None /\ lr = None) /\ (Changed(r, lr) <=> Changed(l, ll))
      BY <2>0, <2>4 DEF ByLineage, ByPolicy, Decide, Missed
    <2> QED BY <2>1, <2>2, <2>3, <2>4
  <1> QED BY <1>2, <1>3

\* Nor does a session's or a sync's plan under it.
LEMMA NothingChosen ==
  ASSUME TypeOK, NobodyChooses, NEW p \in Procs, remote[p] # None, NEW un, un # Missed, NEW order,
         NEW d, d = Resolve(remote[p], File(p), Mode(p), Policy(p), mem[p].ll, mem[p].lr, un, order)
  PROVE  /\ d.decision \in {"download", "upload_existing"} => d.reason \in Automatic
         /\ d.reason # Missed
  <1>1. remote[p] \in Versions /\ File(p) \in Optional /\ Mode(p) \in Modes
    BY Machines DEF Optional
  <1>2. Policy(p) = "manual"
    BY Machines DEF NobodyChooses, Policy
  <1>3. d = Resolve(remote[p], File(p), Mode(p), "manual", mem[p].ll, mem[p].lr, un, order)
    BY <1>2
  <1> QED BY <1>1, <1>3, ManualDecides

\* Contents that only games write keep their order.
LEMMA OrderKept ==
  ASSUME IInv, OrderInv, [Next]_vars
  PROVE  Ordered'
  <1>0. TypeOK /\ Ancestry /\ InUse
    BY DEF IInv
  <1>1. ASSUME NEW c \in Clients, Write(c) PROVE Ordered'
    <2>1. next \in Versions /\ next \in Nat
      BY <1>0, <1>1, Numbered DEF Write
    <2>2. files[c] # None => files[c] \in Versions
      BY <1>0, Numbered
    <2>3. ASSUME NEW v \in Versions, NEW u \in hist'[v] PROVE u <= v
      <3>1. CASE v = next
        <4>1. u = next \/ (files[c] # None /\ u \in hist[files[c]])
          BY <1>0, <1>1, <2>1, <2>3, <3>1 DEF Write, TypeOK
        <4>2. u = next \/ (u \in Nat /\ u < next)
          BY <1>0, <2>2, <4>1, Numbered DEF Ancestry
        <4> QED BY <2>1, <3>1, <4>2
      <3>2. CASE v # next
        <4>1. u \in hist[v]
          BY <1>0, <1>1, <2>1, <2>3, <3>2 DEF Write, TypeOK
        <4> QED BY <4>1 DEF OrderInv, Ordered
      <3> QED BY <3>1, <3>2
    <2> QED BY <2>3 DEF Ordered
  <1>2. ASSUME NEW p \in Procs, pc[p] \in {"download", "upload"}, NEW old, NEW new, Replace(p, old, new)
        PROVE  hist' = hist
    BY <1>2 DEF OrderInv, Chosen, Replace
  <1>3. CASE hist' = hist
    BY <1>3 DEF OrderInv, Ordered
  <1>4. ASSUME NEW c \in Clients, Play(c) PROVE Ordered'
    BY <1>1, <1>4 DEF Play
  <1>5. ASSUME NEW p \in Procs, Step(p) \/ Abort(p) \/ (\E k \in Kinds : Start(p, k)), hist' # hist
        PROVE  Ordered'
    <2>1. CASE GameWrites(p)
      BY <1>0, <1>1, <2>1, Machines DEF GameWrites
    <2>2. CASE Download(p) \/ Upload(p) \/ UploadFails(p)
      BY <1>2, <1>5, <2>2 DEF Download, Upload, UploadFails
    <2> QED BY <1>5, <2>1, <2>2
         DEF Step, Abort, Start, Fetch, SyncPlan, OperatorPlan, OperatorRefused, DownloadFails, Record,
             UploadRefused, PrelaunchOffline, PrelaunchPlan, PrelaunchUnknown, GameQuits, LaunchFails,
             ExitQuiet, ExitOffline, ExitUploads, ExitConflict, ExitCreates, CreateRace, Finish, contents
  <1> QED BY <1>3, <1>4, <1>5 DEF Next, vars, contents

\* The server does not come back to a content it has moved on from.
LEMMA NoComeback ==
  ASSUME IInv, TypeOK', Moves, Ordered, Ordered', NEW x \in Optional,
         x # None => Descends(server, x), server # x
  PROVE  server' # x
  <1>0. server \in Optional /\ server' \in Optional
    BY DEF IInv, TypeOK
  <1>1. CASE x = None
    BY <1>1 DEF Moves, Supersedes
  <1>2. CASE x # None
    <2>1. x \in Versions /\ server \in Versions /\ x \in hist[server]
      BY <1>0, <1>2 DEF Descends, Optional
    <2>2. x <= server /\ x \in Nat /\ server \in Nat
      BY <2>1, Numbered DEF Ordered, IInv
    <2>3. server' = x => server \in hist'[x]
      BY <2>1, NoneIsNone DEF Moves, Supersedes
    <2>4. server' = x => server <= x
      BY <2>1, <2>3 DEF Ordered
    <2> QED BY <2>2, <2>4
  <1> QED BY <1>1, <1>2

\* What holds of one process where nobody chooses.
Settled(p) ==
  /\ kind[p] \notin Operators /\ NotMissed(mem[p])
  /\ pc[p] \in {"idle", "fetch", "plan"} => plan[p] = NoPlan
  /\ pc[p] \in {"download", "upload"} \/ Pending(p) => ~Chosen(p)
  /\ Stranded(p) /\ pc[p] \in {"play", "exit"} => server # remote[p]

\* A step of another process leaves a process that has settled so.
LEMMA OthersSettled ==
  ASSUME IInv, OrderInv, TypeOK', Moves, Ordered', NEW q \in Procs, Same(q)
  PROVE  Settled(q)'
  <1>1. Settled(q)
    BY DEF OrderInv, Settled
  <1>2. /\ remote[q] \in Optional
        /\ remote[q] # None => Descends(server, remote[q])
    BY Machines DEF IInv, ProcInv, Learned
  <1>3. server # remote[q] => server' # remote[q]
    BY <1>2, NoComeback DEF OrderInv
  <1> QED BY <1>1, <1>3 DEF Settled, Same, NotMissed, Pending, Chosen, Stranded

\* States that stay without a missed upload.
LEMMA StillNotMissed ==
  ASSUME NEW m, NotMissed(m)
  PROVE  /\ \A l, r : NotMissed(Converged(m, l, r))
         /\ \A reason : reason # Missed => NotMissed(Unresolved(m, reason))
         /\ NotMissed(NoState)
  <1>1. None # Missed
    BY NoneAssumption, OwnReasons
  <1> QED BY <1>1 DEF NotMissed, Converged, Unresolved, NoState, State

\* An operation that is over.
LEMMA DoneSettled ==
  ASSUME TypeOK, NEW p \in Procs, Settled(p), Done(p)
  PROVE  Settled(p)'
  <1>1. /\ kind'[p] = "sync" /\ mem'[p] = NoState /\ pc'[p] = "idle" /\ plan'[p] = NoPlan
    BY DEF TypeOK, Done, Goto
  <1>2. NotMissed(NoState)
    BY StillNotMissed DEF Settled
  <1>3. NotMissed(mem[p])'
    BY <1>1, <1>2 DEF NotMissed
  <1> QED BY <1>1, <1>3 DEF Settled, Operators, Pending, NoPlan, Decide

\* The plans of a sync and of a session.
LEMMA PlanSettled ==
  ASSUME IInv, OrderInv, NobodyChooses, NEW p \in Procs, SyncPlan(p) \/ PrelaunchPlan(p)
  PROVE  Settled(p)'
  <1>0. TypeOK /\ Settled(p)
    BY DEF IInv, OrderInv, Settled
  <1>1. mem[p].un # Missed /\ ~mem[p].off
    BY <1>0 DEF Settled, NotMissed
  <1>2. CASE SyncPlan(p)
    <2>1. PICK order \in Orders : plan' = [plan EXCEPT ![p] = Planned(p, order)]
      BY <1>2 DEF SyncPlan
    <2> DEFINE d == Planned(p, order)
    <2>2. /\ d.decision \in {"download", "upload_existing", "upload_new"} => d.reason \in Automatic
          /\ d.reason # Missed
      <3>1. CASE remote[p] # None
        <4>1. /\ d.decision \in {"download", "upload_existing"} => d.reason \in Automatic
              /\ d.reason # Missed
          BY <1>0, <1>1, <3>1, NothingChosen DEF Planned
        <4>2. d.decision # "upload_new"
          <5>1. remote[p] \in Versions /\ order \in TimeOrders
            BY <1>0, <3>1, Machines, ConstantsAssumption DEF Optional
          <5> QED BY <1>0, <3>1, <5>1, Resolved, Machines DEF Planned
        <4> QED BY <4>1, <4>2
      <3>2. CASE remote[p] = None
        BY <3>2 DEF Planned, LocalOnly, NoPlan, Decide, Automatic, Missed
      <3> QED BY <3>1, <3>2
    <2> HIDE DEF d
    <2>3. /\ plan'[p] = d /\ pc'[p] = Phase(d.decision) /\ kind'[p] = kind[p] /\ kind[p] = "sync"
          /\ mem'[p] = IF d.decision = "conflict" THEN Unresolved(mem[p], d.reason) ELSE mem[p]
      BY <1>0, <1>2, <2>1 DEF TypeOK, SyncPlan, SetMem, Goto, d
    <2>4. NotMissed(mem[p])'
      BY <1>1, <2>2, <2>3 DEF NotMissed, Unresolved, State
    <2>5. pc'[p] \in {"download", "upload", "finish"} /\ (pc'[p] \in {"download", "upload"} =>
            d.decision \in {"download", "upload_existing", "upload_new"})
      BY <2>3, Phases
    <2> QED BY <2>2, <2>3, <2>4, <2>5 DEF Settled, Operators, Pending, Chosen, Stranded
  <1>3. CASE PrelaunchPlan(p)
    <2>0. remote[p] # None /\ kind'[p] = kind[p] /\ kind[p] = "session"
      BY <1>3 DEF PrelaunchPlan
    <2>1. ~SeedsMissed(p)
      BY <1>1 DEF SeedsMissed
    <2>2. PICK order \in Orders :
            LET d == Resolve(remote[p], File(p), Mode(p), Policy(p), mem[p].ll, mem[p].lr, mem[p].un, order)
            IN /\ plan' = [plan EXCEPT ![p] = d]
               /\ SetMem(p, State(mem[p].ll, mem[p].lr,
                                  IF d.decision = "conflict" THEN d.reason ELSE mem[p].un, FALSE))
               /\ Goto(p, IF d.decision = "download" THEN "download" ELSE "play")
      BY <1>1, <1>3, <2>1 DEF PrelaunchPlan
    <2> DEFINE d == Resolve(remote[p], File(p), Mode(p), Policy(p), mem[p].ll, mem[p].lr, mem[p].un, order)
    <2>3. /\ d.decision \in {"download", "upload_existing"} => d.reason \in Automatic
          /\ d.reason # Missed
      BY <1>0, <1>1, <2>0, NothingChosen
    <2>4. /\ plan'[p] = d /\ pc'[p] = (IF d.decision = "download" THEN "download" ELSE "play")
          /\ mem'[p] = State(mem[p].ll, mem[p].lr,
                             IF d.decision = "conflict" THEN d.reason ELSE mem[p].un, FALSE)
      BY <1>0, <2>2 DEF TypeOK, SetMem, Goto
    <2> HIDE DEF d
    <2>5. NotMissed(mem[p])'
      BY <1>1, <2>3, <2>4 DEF NotMissed, State
    <2> QED BY <2>0, <2>3, <2>4, <2>5 DEF Settled, Operators, Pending, Chosen, Stranded
  <1> QED BY <1>2, <1>3

\* Transfers.
LEMMA TransferSettled ==
  ASSUME IInv, OrderInv, NobodyChooses, Undisturbed, TypeOK', Moves, Ordered', NEW p \in Procs,
         \/ Download(p) \/ DownloadFails(p) \/ Upload(p) \/ Record(p)
         \/ UploadRefused(p) \/ UploadFails(p)
  PROVE  Settled(p)'
  <1>0. TypeOK /\ Settled(p)
    BY DEF IInv, OrderInv, Settled
  <1>1. CASE Done(p)
    BY <1>0, <1>1, DoneSettled
  <1>2. CASE Download(p)
    <2>1. /\ kind'[p] = kind[p] /\ plan'[p] = plan[p] /\ seen'[p] = remote'[p]
          /\ mem'[p] = Converged(mem[p], server, server) /\ pc'[p] \in {"play", "finish"}
      BY <1>0, <1>2 DEF TypeOK, Download, SetMem, Goto
    <2>2. NotMissed(mem[p])'
      BY <1>0, <2>1, NoneAssumption DEF Settled, NotMissed, Converged, State, Reasons, Missed
    <2> QED BY <1>0, <2>1, <2>2 DEF Settled, Pending, Chosen, Stranded
  <1>3. CASE DownloadFails(p) /\ ~Done(p)
    <2>1. /\ UNCHANGED <<kind, plan, seen, remote, mem, server>> /\ pc'[p] = "play"
          /\ server # remote[p]
      BY <1>0, <1>3 DEF TypeOK, DownloadFails, Goto, procVars, contents, NobodyChooses
    <2> QED BY <1>0, <2>1 DEF Settled, NotMissed, Pending, Chosen, Stranded
  <1>4. CASE Upload(p)
    <2>1. /\ UNCHANGED <<kind, plan, mem>> /\ pc'[p] = "record"
      BY <1>0, <1>4 DEF TypeOK, Upload, Goto
    <2> QED BY <1>0, <2>1 DEF Settled, NotMissed, Pending, Chosen
  <1>5. CASE (Record(p) \/ UploadRefused(p) \/ UploadFails(p)) /\ ~Done(p)
    <2>1. /\ kind'[p] = kind[p] /\ plan'[p] = plan[p] /\ pc'[p] = "finish"
          /\ \/ \E l, r : mem'[p] = Converged(mem[p], l, r)
             \/ \E reason \in {"refused", "create-race"} : mem'[p] = Unresolved(mem[p], reason)
             \/ mem'[p] = mem[p]
      BY <1>0, <1>5 DEF TypeOK, Record, UploadRefused, UploadFails, SetMem, Goto, procVars,
                        Undisturbed, RefusalReason
    <2>2. NotMissed(mem[p])'
      BY <1>0, <2>1, StillNotMissed DEF Settled, NotMissed, Missed
    <2> QED BY <1>0, <2>1, <2>2 DEF Settled, Pending, Chosen
  <1> QED BY <1>1, <1>2, <1>3, <1>4, <1>5

\* The rest of the steps.
LEMMA RestSettled ==
  ASSUME IInv, OrderInv, NobodyChooses, TypeOK', Moves, Ordered', NEW p \in Procs,
         \/ (\E k \in Kinds : Start(p, k)) \/ Fetch(p) \/ OperatorRefused(p) \/ Abort(p)
         \/ PrelaunchUnknown(p) \/ GameWrites(p) \/ GameQuits(p) \/ LaunchFails(p)
         \/ ExitQuiet(p) \/ ExitUploads(p) \/ ExitConflict(p) \/ ExitCreates(p) \/ CreateRace(p)
         \/ Finish(p)
  PROVE  Settled(p)'
  <1>0. TypeOK /\ Settled(p)
    BY DEF IInv, OrderInv, Settled
  <1>1. CASE Done(p)
    BY <1>0, <1>1, DoneSettled
  <1>2. CASE \E k \in Kinds : Start(p, k)
    <2>1. /\ kind'[p] \in Kinds /\ mem'[p] = disk[ClientOf[p]] /\ pc[p] = "idle" /\ pc'[p] = "fetch"
          /\ plan' = plan
      BY <1>0, <1>2 DEF TypeOK, Start, SetMem, Goto
    <2>2. NotMissed(mem[p])' /\ plan[p] = NoPlan
      BY <1>0, <2>1, Machines DEF OrderInv, NotMissed, Settled
    <2> QED BY <2>1, <2>2 DEF Settled, NobodyChooses, Pending, NoPlan, Decide
  <1>3. CASE Fetch(p) \/ PrelaunchUnknown(p)
    <2>1. /\ UNCHANGED <<kind, plan>> /\ pc[p] \in {"fetch", "plan"} /\ pc'[p] \in {"plan", "play"}
          /\ \/ mem'[p] = mem[p]
             \/ \E off : mem'[p] = State(mem[p].ll, mem[p].lr, mem[p].un, off) /\ ~off
      BY <1>0, <1>3 DEF TypeOK, Fetch, PrelaunchUnknown, SetMem, Goto, Settled, NotMissed
    <2>2. NotMissed(mem[p])'
      <3>1. mem[p].un # Missed /\ ~mem[p].off
        BY <1>0 DEF Settled, NotMissed
      <3>2. CASE mem'[p] = mem[p]
        BY <3>1, <3>2 DEF NotMissed
      <3>3. ASSUME NEW off, mem'[p] = State(mem[p].ll, mem[p].lr, mem[p].un, off), ~off
            PROVE  NotMissed(mem[p])'
        <4>1. mem'[p].un = mem[p].un /\ mem'[p].off = off
          BY <3>3 DEF State
        <4> QED BY <3>1, <3>3, <4>1 DEF NotMissed
      <3> QED BY <2>1, <3>2, <3>3
    <2> QED BY <1>0, <2>1, <2>2 DEF Settled, Pending, Stranded, NoPlan, Decide
  <1>4. CASE GameWrites(p) \/ GameQuits(p)
    <2>1. /\ UNCHANGED <<kind, plan, remote, seen, mem, server>> /\ pc[p] = "play" /\ pc'[p] = "exit"
      BY <1>0, <1>4 DEF TypeOK, GameWrites, GameQuits, Goto, procVars, contents
    <2> QED BY <1>0, <2>1 DEF Settled, NotMissed, Pending, Chosen, Stranded
  <1>5. CASE LaunchFails(p) \/ ExitQuiet(p) \/ ExitConflict(p) \/ CreateRace(p)
    <2>1. /\ kind'[p] = kind[p] /\ plan'[p] = plan[p] /\ pc'[p] = "finish"
          /\ \/ \E l, r : mem'[p] = Converged(mem[p], l, r)
             \/ \E reason \in {"remote-changed-during-session", "create-race"} :
                  mem'[p] = Unresolved(mem[p], reason)
             \/ mem'[p] = mem[p]
      BY <1>0, <1>5 DEF TypeOK, LaunchFails, ExitQuiet, ExitConflict, CreateRace, SetMem, Goto, procVars
    <2>2. NotMissed(mem[p])'
      BY <1>0, <2>1, StillNotMissed DEF Settled, NotMissed, Missed
    <2> QED BY <1>0, <2>1, <2>2 DEF Settled, Pending, Chosen
  <1>6. CASE ExitUploads(p) \/ ExitCreates(p)
    <2>1. /\ kind'[p] = kind[p] /\ mem' = mem /\ pc'[p] = "upload"
          /\ \/ Pending(p) /\ plan'[p] = plan[p]
             \/ plan'[p] \in {Decide("upload_existing", "session"), Decide("upload_new", "session")}
      BY <1>0, <1>6 DEF TypeOK, ExitUploads, ExitCreates, Goto
    <2>2. ~Chosen(p)'
      BY <1>0, <2>1 DEF Settled, Chosen, Decide, Automatic
    <2> QED BY <1>0, <2>1, <2>2 DEF Settled, NotMissed
  <1> QED BY <1>1, <1>2, <1>3, <1>4, <1>5, <1>6 DEF OperatorRefused, Abort, Finish

\* No missed upload gets on record.
LEMMA DiskNotMissed ==
  ASSUME IInv, OrderInv, Undisturbed, [Next]_vars
  PROVE  \A c \in Clients : NotMissed(disk[c])'
  <1>0. TypeOK
    BY DEF IInv
  <1>1. ASSUME NEW p \in Procs, Finish(p), NEW c \in Clients PROVE NotMissed(disk[c])'
    <2>1. disk'[c] \in {disk[c], mem[p], Pruned(p)}
      BY <1>0, <1>1, Machines DEF TypeOK, Finish
    <2>2. NotMissed(Pruned(p))
      BY NoneAssumption
      DEF OrderInv, NotMissed, Pruned, Converged, Unresolved, State, Reasons, Missed
    <2> QED BY <2>1, <2>2 DEF OrderInv, NotMissed
  <1>2. CASE disk' = disk
    BY <1>2 DEF OrderInv, NotMissed
  <1> QED BY ZenonT(60), <1>1, <1>2
      DEF Next, vars, Play, Step, Abort, Start, Fetch, SyncPlan, OperatorPlan, OperatorRefused,
          Download, DownloadFails, Upload, Record, UploadRefused, UploadFails,
          PrelaunchOffline, PrelaunchPlan, PrelaunchUnknown, GameWrites, GameQuits, LaunchFails,
          ExitQuiet, ExitOffline, ExitUploads, ExitConflict, ExitCreates, CreateRace

\* While nobody chooses, contents descend from earlier ones only, and the server
\* never has again what a session failed to download.
LEMMA OrderStep ==
  ASSUME IInv, OrderInv, NobodyChooses, Undisturbed, [Next]_vars
  PROVE  OrderInv'
  <1>1. TypeOK' /\ Moves /\ Ordered'
    BY TypeStep, StepMoves, OrderKept DEF IInv
  <1>2. \A c \in Clients : NotMissed(disk[c])'
    BY DiskNotMissed
  <1>3. ASSUME NEW q \in Procs PROVE Settled(q)'
    <2>1. CASE UNCHANGED vars
      BY <1>1, <2>1, OthersSettled DEF vars, procVars, Same
    <2>2. ASSUME NEW c \in Clients, Play(c) PROVE Settled(q)'
      BY <1>1, <2>2, OthersSettled DEF Play, procVars, Same
    <2>3. ASSUME NEW p \in Procs, Step(p) \/ Abort(p) \/ (\E k \in Kinds : Start(p, k))
          PROVE  Settled(q)'
      <3>1. ~PrelaunchOffline(p) /\ ~ExitOffline(p) /\ ~OperatorPlan(p)
        BY DEF Undisturbed, PrelaunchOffline, ExitOffline, OperatorPlan, OrderInv
      <3>2. CASE q = p
        BY <1>1, <2>3, <3>1, <3>2, PlanSettled, TransferSettled, RestSettled DEF Step
      <3>3. CASE q # p
        BY <1>1, <2>3, <3>3, Isolated, OthersSettled DEF IInv
      <3> QED BY <3>2, <3>3
    <2> QED BY <2>1, <2>2, <2>3 DEF Next
  <1> QED BY <1>1, <1>2, <1>3 DEF OrderInv, Settled

LEMMA OrderInit == Init => OrderInv
  <1> SUFFICES ASSUME Init PROVE OrderInv
    OBVIOUS
  <1>1. NotMissed(NoState)
    BY NoneAssumption, OwnReasons DEF NotMissed, NoState, State
  <1> QED BY <1>1 DEF Init, OrderInv, Ordered, Operators, NoPlan, Decide, Pending, Stranded

\* The order is what NoReturn needs.
LEMMA OrderForbidsReturn == OrderInv => NoReturn
  BY DEF OrderInv, NoReturn

(* With the manual policy everywhere and no operator at work, the server   *)
(* never comes back to a content that a session could not download.        *)
THEOREM ServerMovesOn ==
  ASSUME Undisturbed, NobodyChooses
  PROVE  Spec => []NoReturn
  <1>1. Init => IInv /\ OrderInv
    BY InvariantInit, OrderInit
  <1>2. IInv /\ OrderInv /\ [Next]_vars => (IInv /\ OrderInv)'
    BY InvariantStep, OrderStep, OrderForbidsReturn
  <1> QED BY <1>1, <1>2, OrderForbidsReturn, PTL DEF Spec

\* A process runs one of the kinds there are.
LEMMA KindsStep ==
  ASSUME TypeOK, \A p \in Procs : kind[p] \in Kinds \cup {"sync"}, [Next]_vars
  PROVE  \A p \in Procs : kind'[p] \in Kinds \cup {"sync"}
  <1>1. ASSUME NEW p \in Procs, Step(p) \/ Abort(p) \/ (\E k \in Kinds : Start(p, k))
        PROVE  kind' = kind \/ \E k \in Kinds \cup {"sync"} : kind' = [kind EXCEPT ![p] = k]
    <2>1. CASE Done(p)
      BY <2>1 DEF Done
    <2>2. CASE \E k \in Kinds : Start(p, k)
      BY <2>2 DEF Start
    <2>3. CASE Abort(p) \/ Finish(p) \/ OperatorRefused(p)
      BY <2>1, <2>3 DEF Abort, Finish, OperatorRefused
    <2>4. CASE ~Done(p) /\ Step(p) /\ ~Finish(p) /\ ~OperatorRefused(p)
      BY <2>4
      DEF Step, Fetch, SyncPlan, OperatorPlan, Download, DownloadFails, Upload, Record,
          UploadRefused, UploadFails, PrelaunchOffline, PrelaunchPlan, PrelaunchUnknown,
          GameWrites, GameQuits, LaunchFails, ExitQuiet, ExitOffline, ExitUploads, ExitConflict,
          ExitCreates, CreateRace, procVars
    <2> QED BY <1>1, <2>1, <2>2, <2>3, <2>4
  <1>2. ASSUME NEW c \in Clients, Play(c) PROVE kind' = kind
    BY <1>2 DEF Play, procVars
  <1> QED BY <1>1, <1>2 DEF Next, vars, procVars, TypeOK

(* `gamehub sync` and `gamehub doctor saves` alone lose nothing, whatever  *)
(* the policies and with downloads, uploads and processes that fail.       *)
THEOREM SyncsLoseNothing ==
  ASSUME Undisturbed, "session" \notin Kinds
  PROVE  Spec => []LineageShared /\ LocalNotLost /\ ServerNotLost
  <1> DEFINE K == \A p \in Procs : kind[p] \in Kinds \cup {"sync"}
  <1>1. Init => K
    BY DEF Init
  <1>2. TypeOK /\ K /\ [Next]_vars => K'
    BY KindsStep
  <1>3. K => NoReturn
    BY DEF NoReturn, Stranded
  <1> HIDE DEF K
  <1>4. Spec => []NoReturn
    BY <1>1, <1>2, <1>3, TypeCorrect, PTL DEF Spec
  <1> QED BY <1>4, LineagesAreShared, LocalSavesAreKept, ServerSavesAreKept, PTL

(* Nor does anything else where nobody chooses: with sessions too, every   *)
(* save that is replaced is one that its successor descends from.          *)
THEOREM ManualLosesNothing ==
  ASSUME Undisturbed, NobodyChooses
  PROVE  Spec => []LineageShared /\ LocalNotLost /\ ServerNotLost
  BY ServerMovesOn, LineagesAreShared, LocalSavesAreKept, ServerSavesAreKept, PTL
=============================================================================
