------------------------- MODULE SyncPipelineProofs -------------------------
(***************************************************************************)
(* Proofs about a sync as a whole (SyncPipeline), for any library, number  *)
(* of workers and attempts, and any number of versions, failures, kills    *)
(* and changes by the user: what a run leaves on disk, what it records and *)
(* what a completed sync means.                                            *)
(***************************************************************************)
EXTENDS SyncPipeline, TLAPS

Unplanned == {"idle", "status", "index", "bindings", "bootstrap", "plan"}
Deployed  == {"controllers", "steam", "commit", "replacing", "done"}
Late      == {"saves", "deploy"} \cup Deployed
Planned   == {"artwork", "firmware", "content"} \cup Late
Stages    == Unplanned \cup Planned \cup {"failed"}
Writing   == {"firmware", "content", "steam", "commit", "replacing"}
Fetched   == {"bindings", "bootstrap", "plan"} \cup Planned
JobStates == {"none", "queued", "streaming", "copying", "done", "error", "recorded"}
Sums      == Files \X (1 .. MaxVersion)

StateType == [boot : BOOLEAN, sums : SUBSET Sums, readable : BOOLEAN]
RunType ==
    [pc : Stages, kind : {"none", "init", "sync"}, dry : BOOLEAN, verify : BOOLEAN,
     attempt : 1 .. Attempts, index : [Files -> Absent .. MaxVersion],
     plan : SUBSET Files, sums : SUBSET Sums, failing : BOOLEAN]

-----------------------------------------------------------------------------
(* The inductive invariant                                                   *)

\* Every variable and every field has its type; an index that was fetched
\* has a version for each file.
TypeInv ==
    /\ server \in [Files -> 1 .. MaxVersion] /\ renames \in BOOLEAN
    /\ disk \in [Files -> Contents] /\ parts \subseteq Files
    /\ state \in StateType
    /\ art \subseteq Roms /\ deployed \in [Firmware -> Contents]
    /\ run \in RunType
    /\ jobs \in [Files -> JobStates]
    /\ loose \subseteq Files /\ touched \subseteq Files
    /\ run.pc \in Fetched => \A f \in Files : run.index[f] \in 1 .. MaxVersion

\* Where renames work there is no copy in place, of a file or of the state.
WholeInv ==
    renames => /\ state.readable /\ run.pc # "replacing"
               /\ \A f \in Files : disk[f] # Torn /\ jobs[f] # "copying"

Live == run.pc \notin {"idle", "failed"}

\* What stage a run is in says how far its downloads can be, and a dry run
\* is never in a stage that writes.
StageInv ==
    /\ Live => run.kind # "none"
    /\ run.pc \in Unplanned => run.plan = {}
    /\ run.pc \in Unplanned \cup {"artwork"} => jobs = NoJobs
    /\ run.pc \in {"plan", "artwork", "firmware", "content", "saves"} => run.kind = "sync"
    /\ run.dry => run.pc \notin Writing
    /\ run.failing => run.pc \in {"firmware", "content", "failed"}
    /\ \A f \in Files :
        /\ f \notin run.plan => jobs[f] = "none"
        /\ jobs[f] \in {"streaming", "copying"} => run.pc \in {"firmware", "content"}
        /\ run.pc = "firmware" /\ f \in Roms => jobs[f] \in {"none", "queued"}
        /\ run.pc = "content" /\ f \in Firmware => jobs[f] \in {"none", "recorded"}
        /\ run.pc \in Late => jobs[f] \in {"none", IF run.dry THEN "queued" ELSE "recorded"}
        /\ run.pc \in {"content"} \cup Late /\ ~run.dry /\ f \in run.plan \cap Firmware => jobs[f] = "recorded"
        /\ run.pc \in Late /\ ~run.dry /\ f \in run.plan => jobs[f] = "recorded"

\* What a run knows of the checksums: those of the state it began with, but
\* for the files it has downloaded and recorded itself; and those are there
\* unless the user changed the file.
SumsInv ==
    /\ run.pc = "idle" => run.sums = {}
    /\ \A s \in run.sums \ state.sums :
           jobs[s[1]] = "recorded" /\ (s[1] \in touched \/ disk[s[1]] = s[2])
    /\ Live => \A s \in state.sums : s \in run.sums \/ jobs[s[1]] = "recorded"
    /\ \A f \in Files :
        /\ jobs[f] = "done" => f \in touched \/ disk[f] = run.index[f]
        /\ jobs[f] = "recorded" /\ ~run.failing /\ Live =>
               <<f, run.index[f]>> \in run.sums /\ (f \in touched \/ disk[f] = run.index[f])

\* A firmware file that no run and no user has written since the state was
\* last saved is on record with the content it has.
LooseInv ==
    /\ \A f \in Files :
        /\ jobs[f] \in {"copying", "done"} => f \in loose
        /\ jobs[f] = "recorded" /\ ~run.failing /\ Live /\ run.pc # "done" => f \in loose
    /\ \A f \in Firmware : f \in loose \/ disk[f] = Absent \/ <<f, disk[f]>> \in state.sums

\* What the plan leaves alone is as it should be, as far as a run can tell.
LeftAlone(f) ==
    \/ disk[f] = run.index[f]
    \/ f \in NeedsFirmware /\ run.plan \cap Firmware # {}
    \/ ~run.verify /\ f \in SameSize /\ disk[f] \notin {Absent, Torn}
    \/ ~run.verify /\ f \in Firmware \cap loose
PlanInv ==
    run.pc \in Planned /\ run.kind = "sync" =>
        \A f \in Files \ (touched \cup run.plan) : LeftAlone(f)

\* After the deployment the emulators have the firmware of the library.
DeployInv ==
    run.pc \in Deployed /\ ~run.dry =>
        \A f \in Firmware \ touched : disk[f] # Absent => deployed[f] = disk[f]

IInv == TypeInv /\ WholeInv /\ StageInv /\ SumsInv /\ LooseInv /\ PlanInv /\ DeployInv
-----------------------------------------------------------------------------
(* Types                                                                     *)

\* The bounds are numbers and a torn file is not a version.
LEMMA Bounds ==
  /\ MaxVersion \in Nat \ {0} /\ Attempts \in Nat \ {0}
  /\ Absent = 0 /\ Torn = MaxVersion + 1 /\ Contents = 0 .. MaxVersion + 1
  /\ Absent .. MaxVersion \subseteq Contents \ {Torn}
BY PipelineAssumption DEF Absent, Torn, Contents

\* A stage that is left for the next one changes that and the attempt only.
Same == /\ run'.kind = run.kind /\ run'.dry = run.dry /\ run'.verify = run.verify
        /\ run'.index = run.index /\ run'.plan = run.plan /\ run'.sums = run.sums
        /\ run'.failing = run.failing
\* A stage that leads to the next keeps the rest of the run's record.
LEMMA Going ==
  ASSUME run \in RunType, NEW p \in Stages, Goto(p)
  PROVE  run' \in RunType /\ run'.pc = p /\ Same
<1>1. run' = [run EXCEPT !.pc = p, !.attempt = 1] /\ 1 \in 1 .. Attempts
  BY Bounds DEF Goto
<1>2. run' \in RunType
  BY <1>1 DEF RunType
<1>3. run'.pc = p /\ run'.kind = run.kind /\ run'.dry = run.dry /\ run'.verify = run.verify
  BY <1>1 DEF RunType
<1>4. /\ run'.index = run.index /\ run'.plan = run.plan /\ run'.sums = run.sums
      /\ run'.failing = run.failing
  BY <1>1 DEF RunType
<1>5. QED
  BY <1>2, <1>3, <1>4 DEF Same

\* Where a process that starts, or is killed, leaves the record.
LEMMA IdleType ==
  Idle \in RunType /\ NoJobs \in [Files -> JobStates]
BY Bounds DEF Idle, RunType, NoJobs, JobStates, Stages, Unplanned, Sums, Absent

LEMMA IdleFields ==
  /\ Idle.pc = "idle" /\ Idle.dry = FALSE /\ Idle.plan = {} /\ Idle.sums = {}
  /\ Idle.failing = FALSE
BY DEF Idle

\* The fields of a run, one by one.
LEMMA Fields ==
  ASSUME run \in RunType
  PROVE  /\ run.pc \in Stages /\ run.kind \in {"none", "init", "sync"}
         /\ run.dry \in BOOLEAN /\ run.verify \in BOOLEAN /\ run.failing \in BOOLEAN
         /\ run.attempt \in 1 .. Attempts /\ run.index \in [Files -> Absent .. MaxVersion]
         /\ run.plan \subseteq Files /\ run.sums \subseteq Sums
BY DEF RunType

\* A run begins with the checksums of the state, or fails at once.
LEMMA Starting ==
  ASSUME TypeInv, NEW kind \in {"init", "sync"}, NEW dry \in BOOLEAN, NEW verify \in BOOLEAN,
         Start(kind, dry, verify)
  PROVE  /\ run.pc = "idle" /\ run' \in RunType
         /\ run'.plan = {} /\ run'.failing = FALSE
         /\ \/ run'.pc = "status" /\ run'.kind = kind /\ run'.sums = state.sums
            \/ run'.pc = "failed" /\ run'.sums = {} /\ run'.dry = FALSE
         /\ jobs' = NoJobs /\ touched' = {}
         /\ UNCHANGED <<server, renames, store, loose>>
<1>1. state.sums \subseteq Sums /\ Idle \in RunType /\ {"status", "failed"} \subseteq Stages
  BY IdleType DEF TypeInv, StateType, Stages, Unplanned
<1>2. CASE run' = [Idle EXCEPT !.pc = "status", !.kind = kind, !.dry = dry, !.verify = verify,
                               !.sums = state.sums]
  <2>1. run' \in RunType
    BY <1>1, <1>2 DEF RunType
  <2>2. /\ run'.plan = {} /\ run'.failing = FALSE /\ run'.pc = "status" /\ run'.kind = kind
        /\ run'.sums = state.sums
    BY <1>2 DEF Idle
  <2>3. QED
    BY <2>1, <2>2 DEF Start, At
<1>3. CASE run' = [Idle EXCEPT !.pc = "failed"]
  <2>1. run' \in RunType
    BY <1>1, <1>3 DEF RunType
  <2>2. /\ run'.plan = {} /\ run'.failing = FALSE /\ run'.pc = "failed" /\ run'.sums = {}
        /\ run'.dry = FALSE
    BY <1>3 DEF Idle
  <2>3. QED
    BY <2>1, <2>2 DEF Start, At
<1>4. QED
  BY <1>2, <1>3 DEF Start

\* A request is answered, tried again, or given up; the index is what the
\* server has.
LEMMA Fetching ==
  ASSUME TypeInv, Fetch
  PROVE  /\ run.pc \in {"status", "index", "bindings"} /\ run' \in RunType
         /\ run'.kind = run.kind /\ run'.dry = run.dry /\ run'.verify = run.verify
         /\ run'.plan = run.plan /\ run'.sums = run.sums /\ run'.failing = run.failing
         /\ \/ run.pc = "index" /\ run'.pc \in {"bootstrap", "bindings"} /\ run'.index = server
            \/ run.pc = "status" /\ run'.pc = "index" /\ run'.index = run.index
            \/ run.pc = "bindings" /\ run'.pc = "bootstrap" /\ run'.index = run.index
            \/ run'.pc \in {run.pc, "failed"} /\ run'.index = run.index
         /\ UNCHANGED <<server, renames, store, jobs, loose, touched>>
<1>1. /\ run \in RunType /\ server \in [Files -> Absent .. MaxVersion]
      /\ {"index", "bindings", "bootstrap", "failed"} \subseteq Stages
  BY Bounds DEF TypeInv, Stages, Unplanned
<1>2. CASE run' = [run EXCEPT !.pc = AfterFetch, !.attempt = 1,
                              !.index = IF At("index") THEN server ELSE @]
  <2>1. AfterFetch \in {"index", "bindings", "bootstrap"} /\ 1 \in 1 .. Attempts
    BY Bounds DEF AfterFetch
  <2>2. run' \in RunType
    BY <1>1, <1>2, <2>1 DEF RunType
  <2>3. /\ run'.kind = run.kind /\ run'.dry = run.dry /\ run'.verify = run.verify
        /\ run'.plan = run.plan
    BY <1>1, <1>2 DEF RunType
  <2>4. run'.sums = run.sums /\ run'.failing = run.failing
    BY <1>1, <1>2 DEF RunType
  <2>5. run'.pc = AfterFetch /\ run'.index = IF At("index") THEN server ELSE run.index
    BY <1>1, <1>2 DEF RunType
  <2>6. QED
    BY <2>2, <2>3, <2>4, <2>5 DEF Fetch, AfterFetch, At
<1>3. CASE MayRetry /\ run' = [run EXCEPT !.attempt = @ + 1]
  <2>1. run.attempt + 1 \in 1 .. Attempts
    BY <1>1, <1>3, Fields, Bounds DEF MayRetry
  <2>2. run' \in RunType
    BY <1>1, <1>3, <2>1 DEF RunType
  <2>3. /\ run'.kind = run.kind /\ run'.dry = run.dry /\ run'.verify = run.verify
        /\ run'.plan = run.plan
    BY <1>1, <1>3 DEF RunType
  <2>4. /\ run'.sums = run.sums /\ run'.failing = run.failing /\ run'.pc = run.pc
        /\ run'.index = run.index
    BY <1>1, <1>3 DEF RunType
  <2>5. QED
    BY <2>2, <2>3, <2>4 DEF Fetch
<1>4. CASE Goto("failed")
  BY <1>1, <1>4, Going DEF Fetch, Same
<1>5. QED
  BY <1>2, <1>3, <1>4 DEF Fetch, Fails

\* What the plan stage makes of the record: the plan, and nothing else.
LEMMA Planning ==
  ASSUME TypeInv, Plan
  PROVE  /\ run.pc = "plan" /\ run'.pc = "artwork" /\ run' \in RunType
         /\ run'.kind = run.kind /\ run'.dry = run.dry /\ run'.verify = run.verify
         /\ run'.index = run.index /\ run'.sums = run.sums /\ run'.failing = run.failing
         /\ run'.plan = {f \in Files \ Blocked : Wanted(f)}
<1>1. /\ run \in RunType /\ run.pc = "plan" /\ "artwork" \in Stages
      /\ run' = [run EXCEPT !.pc = "artwork", !.plan = {f \in Files \ Blocked : Wanted(f)}]
  BY DEF TypeInv, Plan, At, Stages, Planned
<1>2. run' \in RunType
  BY <1>1 DEF RunType
<1>3. /\ run'.pc = "artwork" /\ run'.kind = run.kind /\ run'.dry = run.dry
      /\ run'.verify = run.verify
  BY <1>1 DEF RunType
<1>4. /\ run'.index = run.index /\ run'.sums = run.sums /\ run'.failing = run.failing
      /\ run'.plan = {f \in Files \ Blocked : Wanted(f)}
  BY <1>1 DEF RunType
<1>5. QED
  BY <1>1, <1>2, <1>3, <1>4

\* The main thread records a checksum or notes the first error.
LEMMA Taking ==
  ASSUME TypeInv, NEW f \in Files, Take(f)
  PROVE  /\ run.pc \in {"firmware", "content"} /\ run.failing = FALSE /\ run' \in RunType
         /\ run'.pc = run.pc /\ run'.kind = run.kind /\ run'.dry = run.dry
         /\ run'.verify = run.verify /\ run'.index = run.index /\ run'.plan = run.plan
         /\ jobs' = [jobs EXCEPT ![f] = "recorded"]
         /\ \/ jobs[f] = "done" /\ run'.sums = RecordSum(f, run.sums) /\ run'.failing = FALSE
            \/ jobs[f] = "error" /\ run'.sums = run.sums /\ run'.failing = TRUE
         /\ UNCHANGED <<server, renames, store, loose, touched>>
<1>1. run \in RunType /\ run.pc \in {"firmware", "content"} /\ run.failing = FALSE
  BY Fields DEF TypeInv, Take, InGroup, At
<1>2. CASE jobs[f] = "done" /\ Job(f, "recorded") /\ run' = [run EXCEPT !.sums = RecordSum(f, @)]
  <2>1. run.index[f] \in 1 .. MaxVersion
    BY <1>1 DEF TypeInv, Fetched, Planned
  <2>2. RecordSum(f, run.sums) \subseteq Sums
    BY <1>1, <2>1, Fields DEF RecordSum, Sums
  <2>3. run' \in RunType
    BY <1>1, <1>2, <2>2 DEF RunType
  <2>4. /\ run'.pc = run.pc /\ run'.kind = run.kind /\ run'.dry = run.dry
        /\ run'.verify = run.verify
    BY <1>1, <1>2 DEF RunType
  <2>5. /\ run'.index = run.index /\ run'.plan = run.plan
        /\ run'.sums = RecordSum(f, run.sums) /\ run'.failing = run.failing
    BY <1>1, <1>2 DEF RunType
  <2>6. QED
    BY <1>1, <1>2, <2>3, <2>4, <2>5 DEF Take, Job
<1>3. CASE jobs[f] = "error" /\ Job(f, "recorded") /\ run' = [run EXCEPT !.failing = TRUE]
  <2>1. run' \in RunType
    BY <1>1, <1>3 DEF RunType
  <2>2. /\ run'.pc = run.pc /\ run'.kind = run.kind /\ run'.dry = run.dry
        /\ run'.verify = run.verify
    BY <1>1, <1>3 DEF RunType
  <2>3. /\ run'.index = run.index /\ run'.plan = run.plan /\ run'.sums = run.sums
        /\ run'.failing = TRUE
    BY <1>1, <1>3 DEF RunType
  <2>4. QED
    BY <1>1, <1>3, <2>1, <2>2, <2>3 DEF Take, Job
<1>4. QED
  BY <1>2, <1>3 DEF Take

\* The steps of a run that only go on to another stage.
LEMMA Advancing ==
  ASSUME TypeInv, Stage \/ Artwork \/ EndGroup \/ Deploy \/ Commit \/ Replace
  PROVE  /\ run' \in RunType /\ Same
         /\ \/ run'.pc = "failed" /\ run.pc \in {"bootstrap", "saves", "controllers", "steam", "artwork",
                                                "firmware", "content", "deploy"}
            \/ Stage /\ run'.pc = AfterStage
            \/ Artwork /\ run'.pc = (IF run.dry THEN "saves" ELSE "firmware")
            \/ EndGroup /\ run'.pc = (IF run.pc = "firmware" THEN "content" ELSE "saves")
            \/ Deploy /\ run'.pc = "controllers"
            \/ Commit /\ run'.pc \in {"done", "replacing"}
            \/ Replace /\ run'.pc = "done"
<1>1. run \in RunType /\ AfterStage \in Stages
  BY DEF TypeInv, AfterStage, Stages, Unplanned, Planned, Late, Deployed
<1>2. {"failed", "saves", "firmware", "content", "controllers", "done", "replacing"} \subseteq Stages
  BY DEF Stages, Planned, Late, Deployed
<1>3. CASE Stage
  BY <1>1, <1>2, <1>3, Going DEF Stage, Fails
<1>4. CASE Artwork
  BY <1>1, <1>2, <1>4, Going DEF Artwork, Fails, At
<1>5. CASE EndGroup
  BY <1>1, <1>2, <1>5, Going DEF EndGroup, InGroup, At
<1>6. CASE Deploy
  BY <1>1, <1>2, <1>6, Going DEF Deploy, Fails, At
<1>7. CASE Commit \/ Replace
  BY <1>1, <1>2, <1>7, Going DEF Commit, Replace
<1>8. QED
  BY <1>3, <1>4, <1>5, <1>6, <1>7

\* Types hold at the start.
LEMMA InitType ==
  Init => TypeInv
<1> SUFFICES ASSUME Init PROVE TypeInv
  OBVIOUS
<1>1. state \in StateType
  BY DEF Init, StateType
<1>2. /\ server \in [Files -> 1 .. MaxVersion] /\ renames \in BOOLEAN
      /\ disk \in [Files -> Contents] /\ deployed \in [Firmware -> Contents]
  BY Bounds DEF Init
<1>3. parts \subseteq Files /\ art \subseteq Roms /\ loose \subseteq Files /\ touched \subseteq Files
  BY DEF Init
<1>4. run \in RunType /\ run.pc \notin Fetched /\ jobs \in [Files -> JobStates]
  BY IdleType, IdleFields DEF Init, Fetched, Planned, Late, Deployed
<1>5. QED
  BY <1>1, <1>2, <1>3, <1>4 DEF TypeInv

\* Every step keeps the types, and the index complete from the fetch on.
LEMMA TypeStep ==
  TypeInv /\ [Next]_vars => TypeInv'
<1> SUFFICES ASSUME TypeInv, [Next]_vars PROVE TypeInv'
  OBVIOUS
<1> USE Bounds
<1> DEFINE Pcs == run'.pc \in Fetched => \A f \in Files : run'.index[f] \in 1 .. MaxVersion
           Files2 == /\ server' \in [Files -> 1 .. MaxVersion] /\ renames' \in BOOLEAN
                     /\ disk' \in [Files -> Contents] /\ parts' \subseteq Files
                     /\ art' \subseteq Roms /\ deployed' \in [Firmware -> Contents]
           Rest == /\ state' \in StateType /\ jobs' \in [Files -> JobStates]
                   /\ loose' \subseteq Files /\ touched' \subseteq Files
<1> HIDE DEF Pcs, Files2, Rest
<1>1. ASSUME NEW kind \in {"init", "sync"}, NEW dry \in BOOLEAN, NEW verify \in BOOLEAN,
             Start(kind, dry, verify)
      PROVE  TypeInv'
  <2>1. run' \in RunType /\ Pcs
    BY <1>1, Starting DEF Pcs, Fetched, Planned, Late, Deployed
  <2>2. Files2 /\ Rest
    BY <1>1, Starting, IdleType DEF Files2, Rest, TypeInv, store
  <2>3. QED
    BY <2>1, <2>2 DEF TypeInv, Pcs, Files2, Rest
<1>2. CASE Fetch
  <2>1. run' \in RunType /\ Pcs
    BY <1>2, Fetching DEF Pcs, TypeInv, Fetched, Planned, Late, Deployed
  <2>2. Files2 /\ Rest
    BY <1>2, Fetching DEF Files2, Rest, TypeInv, store
  <2>3. QED
    BY <2>1, <2>2 DEF TypeInv, Pcs, Files2, Rest
<1>3. CASE Stage \/ Artwork \/ EndGroup \/ Deploy \/ Commit \/ Replace
  <2>1. run' \in RunType
    BY <1>3, Advancing
  <2>2. Pcs
    BY <1>3, Advancing DEF Pcs, Same, TypeInv, Stage, Artwork, EndGroup, InGroup, Deploy, Commit,
                           Replace, At, AfterStage, Fetched, Planned, Late, Deployed
  <2>3. Files2
    BY <1>3 DEF Files2, TypeInv, Stage, Artwork, EndGroup, Deploy, Commit, Replace, store, Files,
                Copied
  <2>4. Rest
    <3>1. CASE Stage \/ EndGroup \/ Deploy
      BY <1>3, <3>1 DEF Rest, TypeInv, Stage, EndGroup, Deploy, store
    <3>2. CASE Artwork
      BY <3>2 DEF Rest, TypeInv, Artwork, JobStates
    <3>3. CASE Commit \/ Replace
      <4>1. Saved \in StateType /\ [state EXCEPT !.readable = FALSE] \in StateType
        BY Fields DEF TypeInv, Saved, StateType
      <4>2. QED
        BY <3>3, <4>1 DEF Rest, TypeInv, Commit, Replace
    <3>4. QED
      BY <1>3, <3>1, <3>2, <3>3
  <2>5. QED
    BY <2>1, <2>2, <2>3, <2>4 DEF TypeInv, Pcs, Files2, Rest
<1>4. CASE Plan
  <2>1. run' \in RunType /\ Pcs
    BY <1>4, Planning DEF Pcs, TypeInv, Fetched
  <2>2. Files2 /\ Rest
    BY <1>4 DEF Plan, Files2, Rest, TypeInv, store
  <2>3. QED
    BY <2>1, <2>2 DEF TypeInv, Pcs, Files2, Rest
<1>5. CASE End \/ Kill
  BY <1>5, IdleType, IdleFields DEF End, Kill, TypeInv, Fetched, Planned, Late, Deployed, store
<1>6. ASSUME NEW f \in Files, Take(f) PROVE TypeInv'
  <2>1. run' \in RunType /\ Pcs
    BY <1>6, Taking DEF Pcs, TypeInv
  <2>2. Files2 /\ Rest
    BY <1>6, Taking DEF Files2, Rest, TypeInv, store, JobStates
  <2>3. QED
    BY <2>1, <2>2 DEF TypeInv, Pcs, Files2, Rest
<1>7. ASSUME NEW f \in Files, WorkerStep(f) PROVE TypeInv'
  <2>1. run' = run /\ jobs' \in [Files -> JobStates]
    BY <1>7 DEF WorkerStep, Open, Stream, CopyInPlace, Job, JobStates, TypeInv
  <2>2. run.index[f] \in Contents /\ Torn \in Contents
    BY Fields DEF TypeInv
  <2>3. Files2
    <3>1. disk' \in [Files -> Contents]
      BY <1>7, <2>2 DEF WorkerStep, Open, Stream, CopyInPlace, TypeInv
    <3>2. parts' \subseteq Files /\ UNCHANGED <<server, renames, art, deployed>>
      BY <1>7 DEF WorkerStep, Open, Stream, CopyInPlace, TypeInv
    <3>3. QED
      BY <3>1, <3>2 DEF Files2, TypeInv
  <2>4. loose' \subseteq Files /\ touched' = touched /\ state' = state
    BY <1>7 DEF WorkerStep, Open, Stream, CopyInPlace, TypeInv
  <2>5. QED
    BY <2>1, <2>3, <2>4 DEF TypeInv, Files2
<1>8. ASSUME NEW f \in Files, ServerChanges(f) PROVE TypeInv'
  BY <1>8 DEF ServerChanges, store, TypeInv
<1>9. ASSUME NEW f \in Files, UserWrites(f) PROVE TypeInv'
  BY <1>9 DEF UserWrites, TypeInv
<1>10. CASE UserRemovesState
  <2>1. state' \in StateType /\ loose' \subseteq Files
    BY <1>10 DEF UserRemovesState, StateType
  <2>2. QED
    BY <1>10, <2>1 DEF UserRemovesState, TypeInv
<1>11. CASE UNCHANGED vars
  BY <1>11 DEF vars, store, TypeInv
<1>12. QED
  BY <1>1, <1>2, <1>3, <1>4, <1>5, <1>6, <1>7, <1>8, <1>9, <1>10, <1>11
     DEF Next, RunStep, UserStarts, Environment

-----------------------------------------------------------------------------
(* Whole files                                                               *)

\* A file is only ever put in place by a rename of what was verified, so a step
\* keeps every file whole where rename works.
LEMMA WholeStep ==
  TypeInv /\ WholeInv /\ [Next]_vars => WholeInv'
<1> SUFFICES ASSUME TypeInv, WholeInv, [Next]_vars, renames' PROVE WholeInv'
  BY DEF WholeInv
<1>0. Absent .. MaxVersion \subseteq Contents \ {Torn} /\ NoJobs \in [Files -> {"none"}]
  BY Bounds DEF NoJobs
<1>1. ASSUME NEW kind \in {"init", "sync"}, NEW dry \in BOOLEAN, NEW verify \in BOOLEAN,
             Start(kind, dry, verify)
      PROVE  WholeInv'
  BY <1>0, <1>1, Starting DEF WholeInv, store
<1>2. CASE Fetch
  BY <1>2, Fetching DEF WholeInv, store
<1>t. run \in RunType /\ AfterStage \in Stages \ {"replacing"}
      /\ {"failed", "saves", "firmware", "content", "controllers", "done"} \subseteq Stages
  BY DEF TypeInv, AfterStage, Stages, Unplanned, Planned, Late, Deployed
<1>3. CASE Stage \/ EndGroup \/ Deploy
  <2>1. state' = state /\ disk' = disk /\ jobs' = jobs /\ renames' = renames
    BY <1>3 DEF Stage, EndGroup, Deploy, store
  <2>2. run'.pc # "replacing"
    BY <1>3, <1>t, Going DEF Stage, EndGroup, Deploy, Fails
  <2>3. QED
    BY <2>1, <2>2 DEF WholeInv
<1>4. CASE Artwork
  <2>1. run'.pc # "replacing" /\ state' = state /\ disk' = disk /\ renames' = renames
    BY <1>4, <1>t, Going DEF Artwork, Fails
  <2>2. \A f \in Files : jobs'[f] # "copying"
    BY <1>4, <2>1 DEF Artwork, WholeInv
  <2>3. QED
    BY <2>1, <2>2 DEF WholeInv
<1>5. CASE Commit \/ Replace
  <2>1. renames
    BY <1>5 DEF Commit, Replace
  <2>2. state' = Saved /\ run'.pc = "done"
    BY <1>5, <1>t, <2>1, Going DEF Commit, Replace, WholeInv, At
  <2>3. QED
    BY <1>5, <2>1, <2>2 DEF Commit, Replace, Saved, WholeInv
<1>6. CASE Plan
  BY <1>6, Planning DEF Plan, WholeInv, store
<1>7. CASE End \/ Kill
  BY <1>0, <1>7, IdleFields DEF End, Kill, WholeInv, store
<1>8. ASSUME NEW f \in Files, Take(f) PROVE WholeInv'
  BY ZenonT(60), <1>8, Taking DEF WholeInv, TypeInv, store
<1>9. ASSUME NEW f \in Files, WorkerStep(f) PROVE WholeInv'
  <2>1. run.index[f] # Torn /\ run' = run /\ state' = state /\ renames
    BY <1>0, <1>9, Fields DEF TypeInv, WorkerStep, Open, Stream, CopyInPlace
  <2>2. QED
    BY <1>9, <2>1 DEF WholeInv, TypeInv, WorkerStep, Open, Stream, CopyInPlace, Job
<1>10. ASSUME NEW f \in Files, ServerChanges(f) \/ UserWrites(f) PROVE WholeInv'
  BY <1>10 DEF ServerChanges, UserWrites, WholeInv, TypeInv, store
<1>11. CASE UserRemovesState
  BY <1>11 DEF UserRemovesState, WholeInv
<1>12. CASE UNCHANGED vars
  BY <1>12 DEF vars, store, WholeInv
<1>13. QED
  BY <1>1, <1>2, <1>3, <1>4, <1>5, <1>6, <1>7, <1>8, <1>9, <1>10, <1>11, <1>12
     DEF Next, RunStep, UserStarts, Environment

-----------------------------------------------------------------------------
(* Stages                                                                    *)

\* Which stages a job, a plan and a dry run can be in.
LEMMA StageStep ==
  TypeInv /\ StageInv /\ [Next]_vars => StageInv'
<1> SUFFICES ASSUME TypeInv, StageInv, [Next]_vars PROVE StageInv'
  OBVIOUS
<1>0. NoJobs \in [Files -> {"none"}] /\ Firmware \cap Roms = {}
  BY PipelineAssumption DEF NoJobs
<1>t. run \in RunType /\ run.pc \in Stages /\ run.kind \in {"none", "init", "sync"}
      /\ run.dry \in BOOLEAN /\ run.failing \in BOOLEAN
  BY Fields DEF TypeInv
<1> DEFINE AtStage(f) ==
        /\ f \notin run.plan => jobs[f] = "none"
        /\ jobs[f] \in {"streaming", "copying"} => run.pc \in {"firmware", "content"}
        /\ run.pc = "firmware" /\ f \in Roms => jobs[f] \in {"none", "queued"}
        /\ run.pc = "content" /\ f \in Firmware => jobs[f] \in {"none", "recorded"}
        /\ run.pc \in Late => jobs[f] \in {"none", IF run.dry THEN "queued" ELSE "recorded"}
        /\ run.pc \in {"content"} \cup Late /\ ~run.dry /\ f \in run.plan \cap Firmware => jobs[f] = "recorded"
        /\ run.pc \in Late /\ ~run.dry /\ f \in run.plan => jobs[f] = "recorded"
<1> DEFINE Overall ==
        /\ Live => run.kind # "none"
        /\ run.pc \in Unplanned => run.plan = {}
        /\ run.pc \in Unplanned \cup {"artwork"} => jobs = NoJobs
        /\ run.pc \in {"plan", "artwork", "firmware", "content", "saves"} => run.kind = "sync"
        /\ run.dry => run.pc \notin Writing
        /\ run.failing => run.pc \in {"firmware", "content", "failed"}
<1>s. Overall /\ \A f \in Files : AtStage(f)
  BY DEF StageInv
<1>e. Overall' /\ (\A f \in Files : AtStage(f)') => StageInv'
  BY DEF StageInv
<1> HIDE DEF AtStage, Overall
<1> USE DEF Live, Unplanned, Writing, Late, Deployed
<1>1. ASSUME NEW kind \in {"init", "sync"}, NEW dry \in BOOLEAN, NEW verify \in BOOLEAN,
             Start(kind, dry, verify)
      PROVE  StageInv'
  <2>1. Overall'
    BY <1>0, <1>1, Starting DEF Overall
  <2>2. ASSUME NEW f \in Files PROVE AtStage(f)'
    BY <1>0, <1>1, Starting DEF AtStage
  <2>3. QED
    BY <1>e, <2>1, <2>2
<1>2. CASE Fetch
  <2>1. Overall'
    BY <1>2, <1>s, <1>t, Fetching DEF Overall, Fetch
  <2>2. ASSUME NEW f \in Files PROVE AtStage(f)'
    BY <1>0, <1>2, <1>s, Fetching DEF AtStage, Overall
  <2>3. QED
    BY <1>e, <2>1, <2>2
<1>3. CASE Stage
  <2>a. AfterStage \in Stages /\ "failed" \in Stages
    BY DEF AfterStage, Stages, Planned
  <2>1. Overall'
    BY <1>3, <1>s, <1>t, <2>a, Going DEF Same, Stage, Fails, At, AfterStage, Overall
  <2>2. ASSUME NEW f \in Files PROVE AtStage(f)'
    BY <1>0, <1>3, <1>s, <1>t, <2>a, Going DEF Same, Stage, Fails, At, AfterStage, AtStage, Overall
  <2>3. QED
    BY <1>e, <2>1, <2>2
<1>4. CASE Plan
  <2>1. Overall'
    BY <1>4, <1>s, Planning DEF Plan, Overall
  <2>2. ASSUME NEW f \in Files PROVE AtStage(f)'
    BY <1>0, <1>4, <1>s, Planning DEF Plan, AtStage, Overall
  <2>3. QED
    BY <1>e, <2>1, <2>2
<1>5. CASE Artwork
  <2>1. Overall'
    BY <1>5, <1>s, <1>t, Going DEF Artwork, At, Fails, Same, Overall, Stages, Planned
  <2>2. ASSUME NEW f \in Files PROVE AtStage(f)'
    BY <1>0, <1>5, <1>s, <1>t, Going DEF Artwork, At, Fails, Same, AtStage, Overall, Stages, Planned
  <2>3. QED
    BY <1>e, <2>1, <2>2
<1>6. CASE EndGroup
  <2>1. Overall'
    BY <1>6, <1>s, <1>t, Going DEF EndGroup, InGroup, At, Same, Overall, Stages, Planned
  <2>2. ASSUME NEW f \in Files PROVE AtStage(f)'
    BY <1>0, <1>6, <1>s, <1>t, Going
       DEF EndGroup, InGroup, At, Same, AtStage, Overall, Stages, Planned, Busy, Group, Files, TypeInv, JobStates
  <2>3. QED
    BY <1>e, <2>1, <2>2
<1>7. CASE Deploy
  <2>1. Overall'
    BY <1>7, <1>s, <1>t, Going DEF Deploy, Fails, At, Same, Overall, Stages, Planned
  <2>2. ASSUME NEW f \in Files PROVE AtStage(f)'
    BY <1>7, <1>s, <1>t, Going DEF Deploy, Fails, At, Same, AtStage, Overall, Stages, Planned
  <2>3. QED
    BY <1>e, <2>1, <2>2
<1>8. CASE Commit \/ Replace
  <2>1. Overall'
    BY <1>8, <1>s, <1>t, Going DEF Commit, Replace, At, Same, Overall, Stages, Planned
  <2>2. ASSUME NEW f \in Files PROVE AtStage(f)'
    BY <1>8, <1>s, <1>t, Going DEF Commit, Replace, At, Same, AtStage, Overall, Stages, Planned
  <2>3. QED
    BY <1>e, <2>1, <2>2
<1>9. CASE End \/ Kill
  BY <1>0, <1>9, <1>e, IdleFields DEF End, Kill, Overall, AtStage
<1>10. ASSUME NEW f \in Files, Take(f) PROVE StageInv'
  <2>1. Overall'
    BY <1>10, <1>s, <1>t, Taking DEF Overall
  <2>2. ASSUME NEW g \in Files PROVE AtStage(g)'
    BY <1>10, <1>s, Taking DEF AtStage, TypeInv
  <2>3. QED
    BY <1>e, <2>1, <2>2
<1>11. ASSUME NEW f \in Files, WorkerStep(f) PROVE StageInv'
  <2>1. /\ run' = run /\ run.pc \in {"firmware", "content"}
        /\ \E st \in JobStates \ {"none"} : jobs' = [jobs EXCEPT ![f] = st]
    BY <1>11, <1>s DEF WorkerStep, Open, Stream, CopyInPlace, Job, InGroup, At, AtStage, JobStates
  <2>2. f \in Group
    BY <1>0, <1>11, <1>s, <2>1 DEF WorkerStep, Open, Stream, CopyInPlace, AtStage, Group, At, Files
  <2>3. Overall'
    BY <1>s, <2>1 DEF Overall
  <2>4. ASSUME NEW g \in Files PROVE AtStage(g)'
    BY <1>0, <1>s, <2>1, <2>2 DEF AtStage, TypeInv, Group, At
  <2>5. QED
    BY <1>e, <2>3, <2>4
<1>12. CASE (\E f \in Files : ServerChanges(f) \/ UserWrites(f)) \/ UserRemovesState
  BY <1>12 DEF ServerChanges, UserWrites, UserRemovesState, StageInv, Live
<1>13. CASE UNCHANGED vars
  BY <1>13 DEF vars, StageInv, Live
<1>14. QED
  BY <1>1, <1>2, <1>3, <1>4, <1>5, <1>6, <1>7, <1>8, <1>9, <1>10, <1>11, <1>12, <1>13
     DEF Next, RunStep, UserStarts, Environment

-----------------------------------------------------------------------------
(* Checksums                                                                 *)

\* What a run does between two stages leaves its checksums as they are.
LEMMA SumsGoing ==
  ASSUME SumsInv, Same, UNCHANGED <<state, jobs, disk, touched>>,
         Live \/ run'.pc = run.pc, run'.pc # "idle"
  PROVE  SumsInv'
BY DEF SumsInv, Same, Live

\* Before the first download there is nothing but the state's checksums.
LEMMA NoJobsSums ==
  ASSUME TypeInv, StageInv, SumsInv, run.pc \in Unplanned \cup {"artwork"}
  PROVE  /\ jobs = NoJobs /\ run.sums \subseteq state.sums
         /\ Live => run.sums = state.sums
<1>1. jobs = NoJobs
  BY DEF StageInv
<1>2. run.sums \subseteq Sums /\ state.sums \subseteq Sums
  BY Fields DEF TypeInv, StateType
<1>3. \A s \in Sums : jobs[s[1]] = "none"
  BY <1>1 DEF Sums, NoJobs
<1>4. QED
  BY <1>1, <1>2, <1>3 DEF SumsInv

\* The checksums of a run and those on record belong to contents that were there.
LEMMA SumsStep ==
  TypeInv /\ StageInv /\ SumsInv /\ [Next]_vars => SumsInv'
<1> SUFFICES ASSUME TypeInv, StageInv, SumsInv, [Next]_vars PROVE SumsInv'
  OBVIOUS
<1>0. \A f \in Files : NoJobs[f] = "none"
  BY DEF NoJobs
<1>t. /\ run \in RunType /\ run.pc \in Stages /\ run.sums \subseteq Sums /\ state.sums \subseteq Sums
      /\ \A s \in Sums : s[1] \in Files
  BY Fields DEF TypeInv, StateType, Sums
<1>1. ASSUME NEW kind \in {"init", "sync"}, NEW dry \in BOOLEAN, NEW verify \in BOOLEAN,
             Start(kind, dry, verify)
      PROVE  SumsInv'
  <2>1. run'.pc # "idle" /\ run'.sums \subseteq state.sums /\ (Live' => run'.sums = state.sums)
    BY <1>1, Starting DEF Live
  <2>2. state' = state /\ jobs' = NoJobs
    BY <1>1, Starting DEF store
  <2>3. QED
    BY <1>0, <2>1, <2>2 DEF SumsInv
<1>2. CASE Fetch
  <2>1. run.pc \in Unplanned \cup {"artwork"} /\ Live /\ run'.pc # "idle"
    BY <1>2, Fetching DEF Unplanned, Live
  <2>2. run'.sums = run.sums /\ state' = state /\ jobs' = jobs
    BY <1>2, Fetching DEF store
  <2>3. QED
    BY <1>0, <2>1, <2>2, NoJobsSums DEF SumsInv
<1>3. CASE Stage \/ EndGroup \/ Deploy
  <2>1. Live /\ UNCHANGED <<state, jobs, disk, touched>>
    BY <1>3 DEF Stage, EndGroup, InGroup, Deploy, At, Live, store
  <2>2. Same /\ run'.pc # "idle"
    BY <1>3, Advancing DEF AfterStage
  <2>3. QED
    BY <2>1, <2>2, SumsGoing
<1>4. CASE Plan
  <2>1. run.pc \in Unplanned \cup {"artwork"} /\ Live /\ run'.pc # "idle"
    BY <1>4, Planning DEF Unplanned, Live
  <2>2. run'.sums = run.sums /\ state' = state /\ jobs' = jobs
    BY <1>4, Planning DEF Plan, store
  <2>3. QED
    BY <1>0, <2>1, <2>2, NoJobsSums DEF SumsInv
<1>5. CASE Artwork
  <2>1. run.pc \in Unplanned \cup {"artwork"} /\ Live /\ run'.pc # "idle" /\ run'.sums = run.sums
    BY <1>5, <1>t, Going DEF Artwork, At, Fails, Same, Live, Stages, Planned, Late
  <2>2. state' = state /\ \A f \in Files : jobs'[f] \in {"none", "queued"}
    BY <1>0, <1>5, <2>1, NoJobsSums DEF Artwork
  <2>3. QED
    BY <2>1, <2>2, NoJobsSums DEF SumsInv
<1>6. CASE Commit \/ Replace
  <2>1. Live /\ Same /\ run'.pc # "idle" /\ UNCHANGED <<jobs, disk, touched>>
    BY <1>6, <1>t, Going DEF Commit, Replace, At, Live, Stages, Planned, Late, Deployed
  <2>2. state'.sums \in {state.sums, run.sums}
    BY <1>6 DEF Commit, Replace, Saved, TypeInv, StateType
  <2>3. QED
    BY <2>1, <2>2 DEF SumsInv, Same, Live
<1>7. CASE End \/ Kill
  <2>1. run' = Idle /\ jobs' = NoJobs
    BY <1>7 DEF End, Kill
  <2>2. QED
    BY <1>0, <2>1, IdleFields DEF SumsInv, Live
<1>8. ASSUME NEW f \in Files, Take(f) PROVE SumsInv'
  <2> DEFINE new == <<f, run.index[f]>>
  <2>1. /\ jobs' = [jobs EXCEPT ![f] = "recorded"] /\ jobs \in [Files -> JobStates]
        /\ UNCHANGED <<state, disk, touched>> /\ run'.index = run.index /\ run'.pc = run.pc
        /\ run.failing = FALSE /\ Live
    BY <1>8, Taking DEF TypeInv, Live, store
  <2>2. CASE jobs[f] = "done" /\ run'.sums = RecordSum(f, run.sums) /\ run'.failing = FALSE
    <3>1. /\ new \in run'.sums /\ new[1] = f /\ new[2] = run.index[f]
          /\ \A s \in run'.sums : s \in run.sums \/ s = new
          /\ \A s \in run.sums : s \in run'.sums \/ s[1] = f
      BY <2>2 DEF RecordSum
    <3>2. f \in touched \/ disk[f] = run.index[f]
      BY <2>2 DEF SumsInv
    <3>3. \A s \in run'.sums \ state'.sums :
             jobs'[s[1]] = "recorded" /\ (s[1] \in touched \/ disk[s[1]] = s[2])
      BY <1>t, <2>1, <3>1, <3>2 DEF SumsInv
    <3>4. \A s \in state'.sums : s \in run'.sums \/ jobs'[s[1]] = "recorded"
      BY <1>t, <2>1, <3>1 DEF SumsInv
    <3>5. ASSUME NEW g \in Files, jobs'[g] = "recorded"
          PROVE  <<g, run.index[g]>> \in run'.sums /\ (g \in touched \/ disk[g] = run.index[g])
      <4>1. CASE g = f
        BY <3>1, <3>2, <4>1
      <4>2. CASE g # f
        BY <2>1, <3>1, <3>5, <4>2 DEF SumsInv
      <4>3. QED
        BY <4>1, <4>2
    <3>6. \A g \in Files : jobs'[g] = "done" => g \in touched \/ disk[g] = run.index[g]
      BY <2>1 DEF SumsInv
    <3>7. QED
      BY <2>1, <3>3, <3>4, <3>5, <3>6 DEF SumsInv, Live
  <2>3. CASE jobs[f] = "error" /\ run'.sums = run.sums /\ run'.failing = TRUE
    BY <1>t, <2>1, <2>3 DEF SumsInv, Live
  <2>4. QED
    BY <1>8, <2>2, <2>3, Taking
<1>9. ASSUME NEW f \in Files, WorkerStep(f) PROVE SumsInv'
  <2>1. /\ run' = run /\ UNCHANGED <<state, touched>> /\ jobs[f] \in {"queued", "streaming", "copying"}
        /\ \A g \in Files \ {f} : jobs'[g] = jobs[g] /\ disk'[g] = disk[g]
    BY <1>9 DEF WorkerStep, Open, Stream, CopyInPlace, Job, TypeInv
  <2>2. jobs'[f] # "recorded" /\ (jobs'[f] = "done" => disk'[f] = run.index[f])
    BY <1>9 DEF WorkerStep, Open, Stream, CopyInPlace, Job, TypeInv
  <2>3. \A s \in run.sums \ state.sums : s[1] \in Files \ {f}
    BY <1>t, <2>1 DEF SumsInv
  <2>4. Live => \A s \in state.sums :
                   s \in run.sums \/ (s[1] \in Files \ {f} /\ jobs[s[1]] = "recorded")
    BY <1>t, <2>1 DEF SumsInv
  <2>5. QED
    BY <2>1, <2>2, <2>3, <2>4 DEF SumsInv, Live
<1>10. ASSUME NEW f \in Files, UserWrites(f) PROVE SumsInv'
  <2>1. /\ UNCHANGED <<run, state, jobs>> /\ touched' = touched \cup {f}
        /\ \A g \in Files \ {f} : disk'[g] = disk[g]
    BY <1>10 DEF UserWrites, TypeInv
  <2>2. QED
    BY <1>t, <2>1 DEF SumsInv, Live
<1>11. CASE UserRemovesState
  <2>1. UNCHANGED <<run, jobs, disk, touched>> /\ run.pc = "idle"
    BY <1>11 DEF UserRemovesState, At
  <2>2. QED
    BY <2>1 DEF SumsInv, Live
<1>12. CASE (\E f \in Files : ServerChanges(f)) \/ UNCHANGED vars
  BY <1>12 DEF ServerChanges, vars, store, SumsInv, Live
<1>13. QED
  BY <1>1, <1>2, <1>3, <1>4, <1>5, <1>6, <1>7, <1>8, <1>9, <1>10, <1>11, <1>12
     DEF Next, RunStep, UserStarts, Environment

-----------------------------------------------------------------------------
(* What is on record of the firmware                                         *)

\* A firmware file the record does not account for is a loose one.
LEMMA LooseStep ==
  TypeInv /\ StageInv /\ SumsInv /\ LooseInv /\ [Next]_vars => LooseInv'
<1> SUFFICES ASSUME TypeInv, StageInv, SumsInv, LooseInv, [Next]_vars PROVE LooseInv'
  OBVIOUS
<1>0. (\A f \in Files : NoJobs[f] = "none") /\ Firmware \subseteq Files
  BY DEF NoJobs, Files
<1>t. run \in RunType /\ run.pc \in Stages
  BY Fields DEF TypeInv
<1>1. ASSUME NEW kind \in {"init", "sync"}, NEW dry \in BOOLEAN, NEW verify \in BOOLEAN,
             Start(kind, dry, verify)
      PROVE  LooseInv'
  BY <1>0, <1>1, Starting DEF LooseInv, store
<1>2. CASE Fetch
  <2>1. UNCHANGED <<loose, disk, state, jobs>> /\ run.pc \in Unplanned
    BY <1>2, Fetching DEF store, Unplanned
  <2>2. QED
    BY <1>0, <2>1 DEF LooseInv, StageInv
<1>3. CASE Stage \/ EndGroup \/ Deploy
  <2>1. /\ UNCHANGED <<loose, disk, state, jobs>> /\ Live /\ run.pc # "done"
    BY <1>3 DEF Stage, EndGroup, InGroup, Deploy, At, Live, store
  <2>2. Same
    BY <1>3, Advancing
  <2>3. QED
    BY <2>1, <2>2 DEF LooseInv, Same
<1>4. CASE Plan
  <2>1. UNCHANGED <<loose, disk, state, jobs>> /\ run.pc \in Unplanned
    BY <1>4 DEF Plan, At, store, Unplanned
  <2>2. QED
    BY <1>0, <2>1 DEF LooseInv, StageInv
<1>5. CASE Artwork
  <2>1. UNCHANGED <<loose, disk, state>> /\ \A f \in Files : jobs'[f] \in {"none", "queued"}
    BY <1>0, <1>5 DEF Artwork, At, StageInv
  <2>2. QED
    BY <2>1 DEF LooseInv
<1>6. CASE Commit \/ Replace
  <2>1. /\ UNCHANGED <<jobs, disk>> /\ Live /\ run.pc \in {"commit", "replacing"} /\ ~run.failing
        /\ Same
    BY <1>6, Advancing, <1>t DEF Commit, Replace, At, Live, StageInv
  <2>2. \A f \in Files : jobs[f] \notin {"copying", "done"}
    BY <2>1, <1>t DEF StageInv, Late, Deployed
  <2>3. CASE Goto("replacing") /\ state' = [state EXCEPT !.readable = FALSE] /\ UNCHANGED loose
    <3>1. state'.sums = state.sums
      BY <2>3 DEF TypeInv, StateType
    <3>2. QED
      BY <2>1, <2>3, <3>1 DEF LooseInv, Same
  <2>4. CASE Goto("done") /\ state' = Saved /\ loose' = loose \ Settled
    <3>1. run'.pc = "done" /\ state'.sums = run.sums
      BY <1>t, <2>4, Going DEF Saved, Stages, Planned, Late, Deployed
    <3>2. ASSUME NEW f \in Firmware, f \notin loose', disk[f] # Absent
          PROVE  <<f, disk[f]>> \in run.sums
      <4>1. CASE f \in Settled
        <5>1. jobs[f] = "recorded" /\ f \notin touched
          BY <4>1 DEF Settled
        <5>2. QED
          BY <1>0, <2>1, <5>1 DEF SumsInv
      <4>2. CASE f \notin loose
        <5>1. <<f, disk[f]>> \in state.sums /\ <<f, disk[f]>>[1] = f
          BY <3>2, <4>2 DEF LooseInv
        <5>2. jobs[f] # "recorded"
          BY <1>0, <2>1, <4>2 DEF LooseInv
        <5>3. QED
          BY <2>1, <5>1, <5>2 DEF SumsInv
      <4>3. QED
        BY <2>4, <3>2, <4>1, <4>2
    <3>3. QED
      BY <2>1, <2>2, <3>1, <3>2 DEF LooseInv
  <2>5. QED
    BY <1>6, <2>3, <2>4 DEF Commit, Replace
<1>7. CASE End \/ Kill
  BY <1>0, <1>7, IdleFields DEF End, Kill, LooseInv, store
<1>8. ASSUME NEW f \in Files, Take(f) PROVE LooseInv'
  <2>1. /\ jobs' = [jobs EXCEPT ![f] = "recorded"] /\ jobs \in [Files -> JobStates]
        /\ UNCHANGED <<state, disk, loose>> /\ run'.pc = run.pc
        /\ run.failing = FALSE /\ Live /\ run.pc # "done"
        /\ jobs[f] = "done" \/ run'.failing = TRUE
    BY <1>8, Taking DEF TypeInv, Live, store
  <2>2. QED
    BY <2>1 DEF LooseInv
<1>9. ASSUME NEW f \in Files, WorkerStep(f) PROVE LooseInv'
  <2>1. /\ run' = run /\ state' = state /\ loose \subseteq loose'
        /\ \A g \in Files \ {f} : jobs'[g] = jobs[g] /\ disk'[g] = disk[g]
    BY <1>9 DEF WorkerStep, Open, Stream, CopyInPlace, Job, TypeInv
  <2>2. /\ jobs'[f] # "recorded" /\ (jobs'[f] \in {"copying", "done"} => f \in loose')
        /\ disk'[f] = disk[f] \/ f \in loose'
    BY <1>9 DEF WorkerStep, Open, Stream, CopyInPlace, Job, TypeInv, LooseInv
  <2>3. QED
    BY <1>0, <2>1, <2>2 DEF LooseInv, Live
<1>10. ASSUME NEW f \in Files, UserWrites(f) PROVE LooseInv'
  <2>1. /\ UNCHANGED <<run, state, jobs>> /\ loose' = loose \cup {f}
        /\ \A g \in Files \ {f} : disk'[g] = disk[g]
    BY <1>10 DEF UserWrites, TypeInv
  <2>2. QED
    BY <1>0, <2>1 DEF LooseInv, Live
<1>11. CASE UserRemovesState
  BY <1>0, <1>11 DEF UserRemovesState, LooseInv
<1>12. CASE (\E f \in Files : ServerChanges(f)) \/ UNCHANGED vars
  BY <1>12 DEF ServerChanges, vars, store, LooseInv, Live
<1>13. QED
  BY <1>1, <1>2, <1>3, <1>4, <1>5, <1>6, <1>7, <1>8, <1>9, <1>10, <1>11, <1>12
     DEF Next, RunStep, UserStarts, Environment

-----------------------------------------------------------------------------
(* The plan and the deployment                                               *)

\* What the plan left alone stays current while disk, index and plan stay.
LEMMA LeftAloneKept ==
  ASSUME NEW f \in Files, LeftAlone(f), disk'[f] = disk[f],
         run'.index = run.index, run'.plan = run.plan, run'.verify = run.verify,
         f \in loose => f \in loose'
  PROVE  LeftAlone(f)'
BY DEF LeftAlone

\* A file that the plan neither takes nor has blocked is valid, as far as
\* its size, its checksum or the record of it tell.
LEMMA UnwantedIsCurrent ==
  ASSUME TypeInv, StageInv, SumsInv, LooseInv, run.pc = "plan", NEW f \in Files, ~Wanted(f)
  PROVE  \/ disk[f] = run.index[f]
         \/ ~run.verify /\ f \in SameSize /\ disk[f] \notin {Absent, Torn}
         \/ ~run.verify /\ f \in Firmware \cap loose
<1>1. IsFileValid(f) /\ Agrees(f, run.sums)
  BY DEF Wanted
<1>2. /\ disk[f] \in 0 .. MaxVersion + 1 /\ run.index[f] \in 1 .. MaxVersion
      /\ f \in Firmware \/ f \in Roms
  BY Bounds DEF TypeInv, Fetched, Files
<1>3. CASE run.verify
  BY <1>1, <1>3 DEF IsFileValid
<1>4. CASE ~run.verify /\ f \in Roms
  <2>1. disk[f] # 0 /\ Size(f, disk[f]) = Size(f, run.index[f])
    BY <1>1, <1>4 DEF IsFileValid, Absent
  <2>2. CASE f \in SameSize
    <3>1. Size(f, run.index[f]) = 1
      BY <1>2, <2>2, Bounds DEF Size
    <3>2. disk[f] # Torn
      BY <2>1, <3>1, Bounds DEF Size
    <3>3. QED
      BY <1>4, <2>1, <2>2, <3>2 DEF Absent
  <2>3. CASE f \notin SameSize
    BY <2>1, <2>3 DEF Size
  <2>4. QED
    BY <2>2, <2>3
<1>5. CASE ~run.verify /\ f \in Firmware /\ f \notin loose
  <2>1. disk[f] # Absent
    BY <1>1 DEF IsFileValid
  <2>2. <<f, disk[f]>> \in state.sums
    BY <1>5, <2>1 DEF LooseInv
  <2>3. run.sums = state.sums
    BY NoJobsSums DEF Unplanned, Live
  <2>4. <<f, disk[f]>> \in Recorded(f, run.sums)
    BY <1>5, <2>2, <2>3 DEF Recorded
  <2>5. QED
    BY <1>1, <2>4 DEF Agrees
<1>6. QED
  BY <1>2, <1>3, <1>4, <1>5, Fields DEF TypeInv

\* The plan leaves out only what is current.
LEMMA PlanMakes ==
  ASSUME TypeInv, StageInv, SumsInv, LooseInv, Plan
  PROVE  PlanInv'
<1>1. /\ run.pc = "plan" /\ run'.index = run.index /\ run'.verify = run.verify
      /\ run'.plan = {f \in Files \ Blocked : Wanted(f)} /\ UNCHANGED <<disk, loose>>
  BY Planning DEF Plan, store
<1>2. ASSUME NEW f \in Files, f \notin run'.plan PROVE LeftAlone(f)'
  <2>1. CASE f \in Blocked
    <3>1. PICK g \in Firmware : Wanted(g)
      BY <2>1 DEF Blocked
    <3>2. f \in NeedsFirmware /\ g \in Files \ Blocked
      BY <2>1, <3>1, PipelineAssumption DEF Blocked, Files
    <3>3. g \in run'.plan \cap Firmware
      BY <1>1, <3>1, <3>2
    <3>4. QED
      BY <3>2, <3>3 DEF LeftAlone
  <2>2. CASE f \notin Blocked
    <3>1. ~Wanted(f)
      BY <1>1, <1>2, <2>2
    <3>2. QED
      BY <1>1, <3>1, UnwantedIsCurrent DEF LeftAlone
  <2>3. QED
    BY <2>1, <2>2
<1>3. QED
  BY <1>2 DEF PlanInv

\* Planned files are current once their job is done; the others still are.
LEMMA PlanStep ==
  TypeInv /\ StageInv /\ SumsInv /\ LooseInv /\ PlanInv /\ [Next]_vars => PlanInv'
<1> SUFFICES ASSUME TypeInv, StageInv, SumsInv, LooseInv, PlanInv, [Next]_vars PROVE PlanInv'
  OBVIOUS
<1>t. run \in RunType /\ run.pc \in Stages
  BY Fields DEF TypeInv
<1> USE DEF Planned, Late, Deployed
<1>1. ASSUME NEW kind \in {"init", "sync"}, NEW dry \in BOOLEAN, NEW verify \in BOOLEAN,
             Start(kind, dry, verify)
      PROVE  PlanInv'
  BY <1>1, Starting DEF PlanInv
<1>2. CASE Fetch
  BY <1>2, Fetching DEF PlanInv
<1>3. CASE Plan
  BY <1>3, PlanMakes
<1>4. CASE Stage \/ Artwork \/ EndGroup \/ Deploy \/ Commit \/ Replace
  <2>1. Same /\ UNCHANGED <<disk, touched>>
    BY <1>4, Advancing DEF Stage, Artwork, EndGroup, Deploy, Commit, Replace, store
  <2>2. loose \ Settled \subseteq loose'
    BY <1>4 DEF Stage, Artwork, EndGroup, Deploy, Commit, Replace
  <2>3. run'.pc \in Planned /\ run.kind = "sync" => run.pc \in Planned
    <3>1. CASE Stage
      <4>1. AfterStage \in Stages /\ "failed" \in Stages
        BY DEF AfterStage, Stages, Unplanned
      <4>2. QED
        BY <1>t, <3>1, <4>1, Going DEF Stage, At, AfterStage, Fails
    <3>2. CASE Artwork \/ EndGroup \/ Deploy \/ Commit \/ Replace
      BY <3>2 DEF Artwork, EndGroup, InGroup, Deploy, Commit, Replace, At
    <3>3. QED
      BY <1>4, <3>1, <3>2
  <2>4. \A f \in Files \ run.plan : f \in loose => f \in loose'
    BY <2>2 DEF Settled, StageInv
  <2>5. QED
    BY <2>1, <2>3, <2>4, LeftAloneKept DEF PlanInv, Same
<1>5. CASE End \/ Kill
  BY <1>5, IdleFields DEF End, Kill, PlanInv
<1>6. ASSUME NEW f \in Files, Take(f) PROVE PlanInv'
  BY <1>6, Taking, LeftAloneKept DEF PlanInv, store
<1>7. ASSUME NEW f \in Files, WorkerStep(f) PROVE PlanInv'
  <2>1. f \in run.plan
    BY <1>7 DEF WorkerStep, Open, Stream, CopyInPlace, Group, StageInv
  <2>2. /\ UNCHANGED <<run, touched>> /\ loose \subseteq loose'
        /\ \A g \in Files \ {f} : disk'[g] = disk[g]
    BY <1>7 DEF WorkerStep, Open, Stream, CopyInPlace, TypeInv
  <2>3. QED
    BY <2>1, <2>2, LeftAloneKept DEF PlanInv
<1>8. ASSUME NEW f \in Files, UserWrites(f) PROVE PlanInv'
  <2>1. /\ run' = run /\ loose' = loose \cup {f} /\ touched' = touched \cup {f}
        /\ \A g \in Files \ {f} : disk'[g] = disk[g]
    BY <1>8 DEF UserWrites, TypeInv
  <2>2. QED
    BY <2>1, LeftAloneKept DEF PlanInv
<1>9. CASE UserRemovesState
  BY <1>9 DEF UserRemovesState, At, PlanInv
<1>10. CASE (\E f \in Files : ServerChanges(f)) \/ UNCHANGED vars
  BY <1>10, LeftAloneKept DEF ServerChanges, vars, store, PlanInv
<1>11. QED
  BY <1>1, <1>2, <1>3, <1>4, <1>5, <1>6, <1>7, <1>8, <1>9, <1>10
     DEF Next, RunStep, UserStarts, Environment

\* What is deployed is what the library has, file by file as the stage goes on.
LEMMA DeployStep ==
  TypeInv /\ StageInv /\ DeployInv /\ [Next]_vars => DeployInv'
<1> SUFFICES ASSUME TypeInv, StageInv, DeployInv, [Next]_vars PROVE DeployInv'
  OBVIOUS
<1>t. run \in RunType /\ run.pc \in Stages /\ Firmware \subseteq Files
  BY Fields DEF TypeInv, Files
<1> USE DEF Deployed
<1>1. ASSUME NEW kind \in {"init", "sync"}, NEW dry \in BOOLEAN, NEW verify \in BOOLEAN,
             Start(kind, dry, verify)
      PROVE  DeployInv'
  BY <1>1, Starting DEF DeployInv
<1>2. CASE Fetch
  BY <1>2, Fetching DEF DeployInv
<1>3. CASE Plan
  BY <1>3, Planning DEF DeployInv
<1>4. CASE Stage
  <2>1. AfterStage \in Stages /\ "failed" \in Stages
    BY DEF AfterStage, Stages, Unplanned, Planned, Late
  <2>2. Same /\ (run'.pc \in Deployed => run.pc \in Deployed)
    BY <1>t, <1>4, <2>1, Going DEF Stage, At, AfterStage, Fails
  <2>3. QED
    BY <1>4, <2>2 DEF Stage, store, DeployInv, Same
<1>5. CASE Artwork \/ EndGroup
  <2>1. run'.pc \notin Deployed
    BY <1>t, <1>5, Going DEF Artwork, EndGroup, Fails, Stages, Planned, Late
  <2>2. QED
    BY <2>1 DEF DeployInv
<1>6. CASE Deploy
  <2>1. /\ Same /\ disk' = disk
        /\ run'.pc = "failed" \/ deployed' = IF run.dry THEN deployed ELSE Copied
    BY <1>t, <1>6, Going DEF Deploy, Fails, Stages, Planned, Late
  <2>2. QED
    BY <2>1 DEF DeployInv, Same, Copied
<1>7. CASE Commit \/ Replace
  <2>1. Same /\ UNCHANGED <<disk, deployed, touched>> /\ run.pc \in Deployed
    BY <1>7, Advancing DEF Commit, Replace, At
  <2>2. QED
    BY <2>1 DEF DeployInv, Same
<1>8. CASE End \/ Kill
  BY <1>8, IdleFields DEF End, Kill, DeployInv
<1>9. ASSUME NEW f \in Files, Take(f) PROVE DeployInv'
  BY <1>9, Taking DEF DeployInv
<1>10. ASSUME NEW f \in Files, WorkerStep(f) PROVE DeployInv'
  <2>1. run' = run /\ run.pc \in {"firmware", "content"}
    BY <1>10 DEF WorkerStep, Open, Stream, CopyInPlace, InGroup, At, StageInv
  <2>2. QED
    BY <2>1 DEF DeployInv
<1>11. ASSUME NEW f \in Files, UserWrites(f) PROVE DeployInv'
  <2>1. /\ UNCHANGED <<run, deployed>> /\ touched' = touched \cup {f}
        /\ \A g \in Files \ {f} : disk'[g] = disk[g]
    BY <1>11 DEF UserWrites, TypeInv
  <2>2. QED
    BY <1>t, <2>1 DEF DeployInv
<1>12. CASE UserRemovesState \/ (\E f \in Files : ServerChanges(f)) \/ UNCHANGED vars
  BY <1>12 DEF UserRemovesState, ServerChanges, vars, store, DeployInv
<1>13. QED
  BY <1>1, <1>2, <1>3, <1>4, <1>5, <1>6, <1>7, <1>8, <1>9, <1>10, <1>11, <1>12
     DEF Next, RunStep, UserStarts, Environment

-----------------------------------------------------------------------------
(* Theorems                                                                  *)

\* All of it together holds of every reachable state.
LEMMA Invariance ==
  Spec => []IInv
<1>1. Init => IInv
  <2> SUFFICES ASSUME Init PROVE IInv
    OBVIOUS
  <2>1. /\ run = Idle /\ jobs = NoJobs /\ disk = [f \in Files |-> Absent]
        /\ state.sums = {} /\ state.readable = TRUE /\ Torn # Absent
    BY Bounds DEF Init
  <2>2. /\ \A f \in Files : jobs[f] = "none" /\ disk[f] = Absent
        /\ Firmware \subseteq Files
    BY <2>1 DEF NoJobs, Files
  <2>3. TypeInv
    BY InitType
  <2>4. WholeInv /\ StageInv
    BY <2>1, <2>2, IdleFields DEF WholeInv, StageInv, Live, Writing, Late, Deployed
  <2>5. SumsInv /\ LooseInv
    BY <2>1, <2>2, IdleFields DEF SumsInv, LooseInv, Live
  <2>6. PlanInv /\ DeployInv
    BY <2>1, IdleFields DEF PlanInv, DeployInv, Planned, Late, Deployed
  <2>7. QED
    BY <2>3, <2>4, <2>5, <2>6 DEF IInv
<1>2. IInv /\ [Next]_vars => IInv'
  BY TypeStep, WholeStep, StageStep, SumsStep, LooseStep, PlanStep, DeployStep DEF IInv
<1>3. QED
  BY <1>1, <1>2, PTL DEF Spec

\* All variables of a sync are of their types: whatever is taken into the
\* state as a checksum names a file and a version of it.
THEOREM TypeCorrect ==
  Spec => []TypeOK
<1>1. IInv => TypeOK
  BY Fields DEF IInv, TypeInv, TypeOK, StateType, Sums
<1>2. QED
  BY <1>1, Invariance, PTL

\* Where a rename replaces a file, neither a kill nor an error at any point
\* of any number of runs leaves half a file or a state that cannot be read.
THEOREM WholeFiles ==
  Spec => []NoHalfFiles
<1>1. IInv => NoHalfFiles
  BY DEF IInv, WholeInv, NoHalfFiles
<1>2. QED
  BY <1>1, Invariance, PTL

\* A sync that completes has brought every title to what the index says, but
\* for those whose firmware came with it and for what it cannot tell without
\* verifying; and the emulators have the firmware.
THEOREM CompletedIsCurrent ==
  Spec => []CompleteIsCurrent
<1>1. IInv => CompleteIsCurrent
  <2> SUFFICES ASSUME IInv, run.pc = "done", ~run.dry PROVE CompleteIsCurrent
    BY DEF CompleteIsCurrent, At
  <2>1. ASSUME run.kind = "sync", NEW f \in Files \ touched PROVE LeftAlone(f)
    <3>1. CASE f \in run.plan
      <4>1. jobs[f] = "recorded" /\ ~run.failing
        BY <3>1 DEF IInv, StageInv, Late, Deployed
      <4>2. QED
        BY <2>1, <4>1 DEF IInv, SumsInv, Live, LeftAlone
    <3>2. CASE f \notin run.plan
      BY <2>1, <3>2 DEF IInv, PlanInv, Planned, Late, Deployed
    <3>3. QED
      BY <3>1, <3>2
  <2>2. \A f \in Firmware \ touched : disk[f] # Absent => deployed[f] = disk[f]
    BY DEF IInv, DeployInv, Deployed
  <2>3. QED
    BY <2>1, <2>2 DEF CompleteIsCurrent, LeftAlone
<1>2. QED
  BY <1>1, Invariance, PTL

\* A checksum comes into the state file only for a file that has just that
\* content, unless the user changed it during the run; and a dry run writes
\* nothing, to the state, the library, the cache or the emulators.
THEOREM RecordsAreTrue ==
  Spec => RecordedWasThere
<1>1. IInv /\ [Next]_vars =>
        [/\ \A s \in state'.sums \ state.sums : s[1] \in touched \/ disk[s[1]] = s[2]
         /\ RunStep /\ run.dry => UNCHANGED store]_vars
  <2> SUFFICES ASSUME IInv, [Next]_vars
               PROVE  /\ \A s \in state'.sums \ state.sums : s[1] \in touched \/ disk[s[1]] = s[2]
                      /\ RunStep /\ run.dry => UNCHANGED store
    OBVIOUS
  <2>1. state'.sums \subseteq state.sums \cup run.sums
    <3>1. CASE Commit \/ Replace
      BY <3>1 DEF Commit, Replace, Saved, IInv, TypeInv, StateType
    <3>2. CASE UserRemovesState
      BY <3>2 DEF UserRemovesState
    <3>3. CASE state' = state
      BY <3>3
    <3>4. QED
      BY <3>1, <3>2, <3>3
         DEF Next, RunStep, UserStarts, Environment, vars, store, Start, Fetch, Stage, Plan, Artwork,
             EndGroup, Deploy, End, Kill, Take, WorkerStep, Open, Stream, CopyInPlace, ServerChanges,
             UserWrites
  <2>2. \A s \in state'.sums \ state.sums : s[1] \in touched \/ disk[s[1]] = s[2]
    BY <2>1 DEF IInv, SumsInv
  <2>3. ASSUME RunStep, run.dry PROVE UNCHANGED store
    <3>1. run.pc \notin Writing
      BY <2>3 DEF IInv, StageInv
    <3>2. QED
      BY <2>3, <3>1 DEF RunStep, Fetch, Stage, Plan, Artwork, EndGroup, InGroup, Deploy, Commit,
                        Replace, End, Take, At, Writing, store
  <2>4. QED
    BY <2>2, <2>3
<1>2. QED
  BY <1>1, Invariance, PTL DEF Spec, RecordedWasThere
=============================================================================
