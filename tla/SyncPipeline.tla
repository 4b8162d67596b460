---------------------------- MODULE SyncPipeline ----------------------------
(***************************************************************************)
(* gamehub init and gamehub sync as a whole (sync/orchestrator.py): the    *)
(* checks of the server, the plan, the artwork, the parallel downloads     *)
(* with their .part files, the deployment of the firmware to the emulators *)
(* and the state file, over several runs of which any may be killed.  The  *)
(* save stage, the controllers and Steam have modules of their own and are *)
(* stages here that pass or fail.                                          *)
(*                                                                         *)
(* A content is the number of its version on the server.                   *)
(***************************************************************************)
EXTENDS Naturals, FiniteSets

CONSTANTS
    Firmware, Roms,  \* files of the library
    NeedsFirmware,   \* the roms whose system requires the firmware
    SameSize,        \* the roms whose versions have all one size
    Attempts,        \* index_fetch_attempts
    Workers,         \* max_parallel_downloads
    MaxVersion,      \* bound: versions of a file on the server
    MaxFaults        \* bound: failures, kills, and changes by the user or on the server

Files == Firmware \cup Roms
ASSUME PipelineAssumption ==
    /\ IsFiniteSet(Files) /\ Firmware \cap Roms = {}
    /\ NeedsFirmware \subseteq Roms /\ SameSize \subseteq Roms
    /\ {Attempts, Workers, MaxVersion} \subseteq Nat \ {0} /\ MaxFaults \in Nat

Absent == 0
Torn == MaxVersion + 1
Contents == Absent .. Torn

VARIABLES
    server,    \* version of each file in the server's data
    renames,   \* the file system lets a rename replace a file
    disk,      \* content of each destination
    parts,     \* destinations with a .part file
    state,     \* the state file: bootstrap marker, recorded checksums, readable
    art,       \* roms with all their artwork in the cache
    deployed,  \* firmware in the emulators' directories
    run,       \* the process: stage, options, index and plan
    jobs,      \* the download of each file in this run
    loose,     \* history: files written since their checksum was last saved
    touched,   \* history: files the user changed during this run
    faults     \* the bounded counter

store == <<disk, parts, state, art, deployed>>
vars == <<server, renames, store, run, jobs, loose, touched, faults>>

Idle == [pc |-> "idle", kind |-> "none", dry |-> FALSE, verify |-> FALSE, attempt |-> 1,
         index |-> [f \in Files |-> Absent], plan |-> {}, sums |-> {}, failing |-> FALSE]
NoJobs == [f \in Files |-> "none"]

Init ==
    /\ server = [f \in Files |-> 1] /\ renames \in BOOLEAN
    /\ disk = [f \in Files |-> Absent] /\ parts = {} /\ art = {}
    /\ state = [boot |-> FALSE, sums |-> {}, readable |-> TRUE]
    /\ deployed = [f \in Firmware |-> Absent]
    /\ run = Idle /\ jobs = NoJobs /\ loose = {} /\ touched = {} /\ faults = 0

At(pc) == run.pc = pc
Goto(pc) == run' = [run EXCEPT !.pc = pc, !.attempt = 1]
Fault == faults < MaxFaults /\ faults' = faults + 1
Fails == Goto("failed") /\ Fault

-----------------------------------------------------------------------------
(* load_state and the bootstrap marker: a sync asks for an init before it. *)
Start(kind, dry, verify) ==
    /\ At("idle")
    /\ run' = IF state.readable /\ (kind = "init" \/ state.boot)
              THEN [Idle EXCEPT !.pc = "status", !.kind = kind, !.dry = dry, !.verify = verify,
                                !.sums = state.sums]
              ELSE [Idle EXCEPT !.pc = "failed"]
    /\ jobs' = NoJobs /\ touched' = {}
    /\ UNCHANGED <<server, renames, store, loose, faults>>

(* _fetch_json_with_retries for /v1/status, /v1/index, /v1/save-bindings:  *)
(* an error that a retry may help is retried until the last attempt.       *)
AfterFetch ==
    CASE At("status") -> "index"
      [] At("index")  -> IF run.kind = "init" THEN "bootstrap" ELSE "bindings"
      [] OTHER -> "bootstrap"
MayRetryLast == run.attempt <= Attempts
MayRetry == run.attempt < Attempts
Fetch ==
    /\ run.pc \in {"status", "index", "bindings"}
    /\ \/ /\ run' = [run EXCEPT !.pc = AfterFetch, !.attempt = 1,
                                !.index = IF At("index") THEN server ELSE @]
          /\ UNCHANGED faults
       \/ MayRetry /\ Fault /\ run' = [run EXCEPT !.attempt = @ + 1]
       \/ Fails
    /\ UNCHANGED <<server, renames, store, jobs, loose, touched>>

(* The stages whose work is modelled elsewhere, in the order of the kind   *)
(* of run.  A dry run does not go on to Steam.                             *)
AfterStageForgetsDry ==
    CASE At("bootstrap")   -> IF run.kind = "init" THEN "deploy" ELSE "plan"
      [] At("saves")       -> "deploy"
      [] At("controllers") -> IF run.kind = "init" THEN "commit" ELSE "steam"
      [] OTHER             -> "commit"
AfterStage ==
    CASE At("bootstrap")   -> IF run.kind = "init" THEN "deploy" ELSE "plan"
      [] At("saves")       -> "deploy"
      [] At("controllers") /\ run.dry  -> "done"
      [] At("controllers") /\ ~run.dry -> IF run.kind = "init" THEN "commit" ELSE "steam"
      [] OTHER             -> "commit"
Stage ==
    /\ run.pc \in {"bootstrap", "saves", "controllers", "steam"}
    /\ (Goto(AfterStage) /\ UNCHANGED faults) \/ Fails
    /\ UNCHANGED <<server, renames, store, jobs, loose, touched>>

-----------------------------------------------------------------------------
(* create_sync_plan.  A rom's checksum is recorded under its file id,      *)
(* which is made of its path and its content; firmware under its name.     *)
Size(f, c) == IF f \in SameSize /\ c # Torn THEN 1 ELSE c
Recorded(f, sums) == IF f \in Firmware THEN {s \in sums : s[1] = f}
                     ELSE {s \in sums : s = <<f, run.index[f]>>}
Agrees(f, sums) == \A s \in Recorded(f, sums) : s[2] = run.index[f]
IsFileValid(f) ==
    /\ disk[f] # Absent
    /\ f \in Roms => Size(f, disk[f]) = Size(f, run.index[f])
    /\ run.verify => disk[f] = run.index[f]
WantedBySizeOnly(f) == ~IsFileValid(f)
Wanted(f) == ~(IsFileValid(f) /\ Agrees(f, run.sums))
BlockedUnrecorded == IF \E f \in Firmware : Recorded(f, run.sums) = {} THEN NeedsFirmware ELSE {}
Blocked == IF \E f \in Firmware : Wanted(f) THEN NeedsFirmware ELSE {}
Plan ==
    /\ At("plan")
    /\ run' = [run EXCEPT !.pc = "artwork", !.plan = {f \in Files \ Blocked : Wanted(f)}]
    /\ UNCHANGED <<server, renames, store, jobs, loose, touched, faults>>

(* SgdbArtworkPipeline.sync: titles with their artwork in the cache are    *)
(* not asked for.  A status or a length that is wrong is a warning for the *)
(* title; an error of the connection is not caught.                        *)
Artwork ==
    /\ At("artwork")
    /\ \/ /\ art' \in IF run.dry THEN {art} ELSE {art, Roms}
          /\ Goto(IF run.dry THEN "saves" ELSE "firmware")
          /\ jobs' = [f \in Files |-> IF f \in run.plan THEN "queued" ELSE "none"]
          /\ UNCHANGED faults
       \/ /\ art # Roms /\ ~run.dry /\ Fails
          /\ UNCHANGED <<art, jobs>>
    /\ UNCHANGED <<server, renames, disk, parts, state, deployed, loose, touched>>

-----------------------------------------------------------------------------
(* _apply_download_group, for the firmware and then for the content: a     *)
(* pool of threads, and the main thread that takes the results as they     *)
(* come.                                                                   *)
Group == IF At("firmware") THEN Firmware \cap run.plan ELSE Roms \cap run.plan
InGroup == At("firmware") \/ At("content")
Busy == {f \in Files : jobs[f] \in {"streaming", "copying"}}
WorkerCount == IF Workers < Cardinality(Group) THEN Workers ELSE Cardinality(Group)
Job(f, s) == jobs' = [jobs EXCEPT ![f] = s]

(* One worker downloads in turn and stops at the first error; the pool     *)
(* runs all that was submitted to it, also after an error.                 *)
Open(f) ==
    /\ InGroup /\ f \in Group /\ jobs[f] = "queued"
    /\ Cardinality(Busy) < WorkerCount
    /\ WorkerCount = 1 => ~run.failing /\ \A g \in Group : jobs[g] \in {"queued", "recorded"}
    /\ Job(f, "streaming") /\ parts' = parts \cup {f}
    /\ UNCHANGED <<server, renames, disk, state, art, deployed, run, loose, touched, faults>>

(* download_with_atomic_write: what the server has now is compared with    *)
(* what its index said; a wrong checksum removes the .part file, a broken  *)
(* connection leaves it.                                                   *)
StreamUnchecked(f) ==
    /\ jobs[f] = "streaming"
    /\ \/ /\ disk' = [disk EXCEPT ![f] = run.index[f]] /\ parts' = parts \ {f}
          /\ loose' = loose \cup {f} /\ Job(f, "done") /\ UNCHANGED faults
       \/ Job(f, "done") /\ Fault /\ UNCHANGED <<disk, parts, loose>>
    /\ UNCHANGED <<server, renames, state, art, deployed, run, touched>>
StreamInPlace(f) ==
    /\ jobs[f] = "streaming"
    /\ \/ /\ server[f] = run.index[f]
          /\ disk' = [disk EXCEPT ![f] = Torn]
          /\ loose' = loose \cup {f} /\ Job(f, "copying") /\ UNCHANGED <<parts, faults>>
       \/ Job(f, "error") /\ Fault /\ UNCHANGED <<disk, parts, loose>>
    /\ UNCHANGED <<server, renames, state, art, deployed, run, touched>>
Stream(f) ==
    /\ jobs[f] = "streaming"
    /\ \/ /\ server[f] = run.index[f] /\ renames
          /\ disk' = [disk EXCEPT ![f] = run.index[f]] /\ parts' = parts \ {f}
          /\ loose' = loose \cup {f} /\ Job(f, "done") /\ UNCHANGED faults
       \/ /\ server[f] = run.index[f] /\ ~renames
          /\ disk' = [disk EXCEPT ![f] = Torn]
          /\ loose' = loose \cup {f} /\ Job(f, "copying") /\ UNCHANGED <<parts, faults>>
       \/ /\ server[f] # run.index[f]
          /\ parts' = parts \ {f} /\ Job(f, "error") /\ UNCHANGED <<disk, loose, faults>>
       \/ Job(f, "error") /\ Fault /\ UNCHANGED <<disk, parts, loose>>
    /\ UNCHANGED <<server, renames, state, art, deployed, run, touched>>
CopyInPlace(f) ==
    /\ jobs[f] = "copying"
    /\ disk' = [disk EXCEPT ![f] = run.index[f]] /\ parts' = parts \ {f}
    /\ Job(f, "done")
    /\ UNCHANGED <<server, renames, state, art, deployed, run, loose, touched, faults>>

(* The checksum is recorded in memory when the main thread takes the       *)
(* result; after the first error it takes no more.                         *)
RecordSum(f, sums) == (sums \ {s \in sums : f \in Firmware /\ s[1] = f}) \cup {<<f, run.index[f]>>}
Take(f) ==
    /\ InGroup /\ ~run.failing
    /\ \/ /\ jobs[f] = "done" /\ Job(f, "recorded")
          /\ run' = [run EXCEPT !.sums = RecordSum(f, @)]
       \/ /\ jobs[f] = "error" /\ Job(f, "recorded")
          /\ run' = [run EXCEPT !.failing = TRUE]
    /\ UNCHANGED <<server, renames, store, loose, touched, faults>>

EndGroup ==
    /\ InGroup /\ Busy = {}
    /\ \/ /\ \A f \in Group : jobs[f] = "recorded"
          /\ ~run.failing /\ Goto(IF At("firmware") THEN "content" ELSE "saves")
       \/ /\ run.failing /\ (WorkerCount = 1 \/ \A f \in Group : jobs[f] # "queued")
          /\ Goto("failed")
    /\ UNCHANGED <<server, renames, store, jobs, loose, touched, faults>>

-----------------------------------------------------------------------------
(* deploy_firmware_to_emulators: what is in the firmware directory and     *)
(* differs by checksum is copied, file by file.                            *)
CopiedIfMissing == [f \in Firmware |-> IF deployed[f] = Absent THEN disk[f] ELSE deployed[f]]
Copied == [f \in Firmware |-> IF disk[f] = Absent THEN deployed[f] ELSE disk[f]]
Deploy ==
    /\ At("deploy")
    /\ \/ Goto("controllers") /\ deployed' = (IF run.dry THEN deployed ELSE Copied) /\ UNCHANGED faults
       \/ Fails /\ UNCHANGED deployed
    /\ UNCHANGED <<server, renames, disk, parts, state, art, jobs, loose, touched>>

(* The state is saved once, at the very end, and never by a dry run or one *)
(* that failed.                                                            *)
Saved == [boot |-> TRUE, sums |-> run.sums, readable |-> TRUE]
Settled == {f \in Files \ touched : jobs[f] = "recorded"}
Commit ==
    /\ At("commit")
    /\ IF renames
       THEN Goto("done") /\ state' = Saved /\ loose' = loose \ Settled
       ELSE Goto("replacing") /\ state' = [state EXCEPT !.readable = FALSE] /\ UNCHANGED loose
    /\ UNCHANGED <<server, renames, disk, parts, art, deployed, jobs, touched, faults>>
Replace ==
    /\ At("replacing")
    /\ Goto("done") /\ state' = Saved /\ loose' = loose \ Settled
    /\ UNCHANGED <<server, renames, disk, parts, art, deployed, jobs, touched, faults>>

End ==
    /\ run.pc \in {"done", "failed"}
    /\ run' = Idle /\ jobs' = NoJobs /\ touched' = {}
    /\ UNCHANGED <<server, renames, store, loose, faults>>

-----------------------------------------------------------------------------
(* The process is killed, the operator changes the server's data, the user *)
(* removes or overwrites a file, or removes an unreadable state file.      *)
Kill ==
    /\ run.pc \notin {"idle", "done", "failed"} /\ Fault
    /\ run' = Idle /\ jobs' = NoJobs /\ touched' = {}
    /\ UNCHANGED <<server, renames, store, loose>>

ServerChanges(f) ==
    /\ server[f] < MaxVersion /\ Fault
    /\ server' = [server EXCEPT ![f] = @ + 1]
    /\ UNCHANGED <<renames, store, run, jobs, loose, touched>>

UserWrites(f) ==
    /\ Fault /\ jobs[f] # "copying"
    /\ \E c \in (Contents \ {Torn}) \ {disk[f]} : disk' = [disk EXCEPT ![f] = c]
    /\ loose' = loose \cup {f} /\ touched' = touched \cup {f}
    /\ UNCHANGED <<server, renames, parts, state, art, deployed, run, jobs>>

UserRemovesState ==
    /\ ~state.readable /\ At("idle")
    /\ state' = [boot |-> FALSE, sums |-> {}, readable |-> TRUE] /\ loose' = Files
    /\ UNCHANGED <<server, renames, disk, parts, art, deployed, run, jobs, touched, faults>>

RunStep ==
    \/ Fetch \/ Stage \/ Plan \/ Artwork \/ EndGroup \/ Deploy \/ Commit \/ Replace \/ End
    \/ \E f \in Files : Take(f)
WorkerStep(f) == Open(f) \/ Stream(f) \/ CopyInPlace(f)
UserStarts ==
    \/ \E dry \in BOOLEAN : Start("init", dry, FALSE)
    \/ \E dry, verify \in BOOLEAN : Start("sync", dry, verify)
Environment ==
    \/ Kill \/ UserRemovesState
    \/ \E f \in Files : ServerChanges(f) \/ UserWrites(f)
Next == RunStep \/ (\E f \in Files : WorkerStep(f)) \/ UserStarts \/ Environment

(* A run goes on, and the user keeps running init while it is asked for    *)
(* and verifying syncs.                                                    *)
Fairness ==
    /\ WF_vars(RunStep) /\ \A f \in Files : WF_vars(WorkerStep(f))
    /\ SF_vars(Start("sync", FALSE, TRUE)) /\ SF_vars(Start("init", FALSE, FALSE) /\ ~state.boot)
    /\ SF_vars(UserRemovesState)
Spec == Init /\ [][Next]_vars /\ Fairness

-----------------------------------------------------------------------------
(* All variables are of their types.                                       *)
TypeOK ==
    /\ disk \in [Files -> Contents] /\ parts \subseteq Files /\ art \subseteq Roms
    /\ server \in [Files -> 1 .. MaxVersion] /\ deployed \in [Firmware -> Contents]
    /\ state.sums \subseteq Files \X (1 .. MaxVersion) /\ run.sums \subseteq Files \X (1 .. MaxVersion)
    /\ run.attempt \in 1 .. Attempts /\ run.plan \subseteq Files
    /\ loose \subseteq Files /\ touched \subseteq Files

(* After a completed sync each file of a title that was not blocked is the *)
(* index's, but for what a sync without --verify cannot tell: a rom of the *)
(* right size, and firmware that was last written by a run that saved no   *)
(* state or by the user.  The emulators have the firmware there is.        *)
CompleteIsCurrent ==
    At("done") /\ ~run.dry =>
        /\ run.kind = "sync" => \A f \in Files \ touched :
            \/ disk[f] = run.index[f]
            \/ f \in NeedsFirmware /\ run.plan \cap Firmware # {}
            \/ ~run.verify /\ f \in SameSize /\ disk[f] \notin {Absent, Torn}
            \/ ~run.verify /\ f \in Firmware \cap loose
        /\ \A f \in Firmware \ touched : disk[f] # Absent => deployed[f] = disk[f]

(* A checksum gets on record only for a file that has that content, and a  *)
(* dry run, planned like any other, changes nothing on disk.               *)
RecordedWasThere ==
    [][/\ \A s \in state'.sums \ state.sums : s[1] \in touched \/ disk[s[1]] = s[2]
       /\ RunStep /\ run.dry => UNCHANGED store]_vars

(* With renames, neither a kill nor an error leaves half a file under a    *)
(* name that anybody reads, nor an unreadable state.                       *)
NoHalfFiles ==
    renames => state.readable /\ \A f \in Files : disk[f] # Torn

(* However often it fails, a user who goes on verifying gets the server's  *)
(* library, the titles that were blocked for their firmware included.      *)
Converges == <>[](\A f \in Files : disk[f] = server[f])
=============================================================================
