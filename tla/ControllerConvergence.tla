------------------------ MODULE ControllerConvergence ------------------------
(***************************************************************************)
(* One directory of controller profiles and the metadata file that says    *)
(* which of them GameHub owns (controllers/convergence.py, profiles.py and *)
(* managed_metadata.py).  gamehub sync seeds what is missing and converges *)
(* what it owns; the doctor reports, repairs or, forced, takes over.  The  *)
(* user edits, copies in and deletes profiles and damages the metadata at  *)
(* any time, GameHub is upgraded between runs, and a run may be killed     *)
(* between a profile and its metadata.                                     *)
(***************************************************************************)
EXTENDS Naturals, Sequences, Functions

CONSTANTS
    Order,         \* the profiles of the directory, in the order they are visited
    UserTexts,     \* texts that are not GameHub's
    Versions,      \* number of GameHub versions, each with its own payload
    KeepLimit,     \* config.backups.keep_limit
    MaxEdits       \* bound: edits, upgrades and kills

Files == Range(Order)
None == <<"none", 0>>
Own(v) == <<"own", v>>
User(u) == <<"user", u>>
Texts == {None} \cup {Own(v) : v \in 1 .. Versions} \cup {User(u) : u \in UserTexts}
IsUser(t) == t[1] = "user"

ASSUME ControllerAssumption ==
    /\ Order \in Seq(Files) /\ UserTexts # {}
    /\ Versions \in Nat \ {0} /\ KeepLimit \in Nat \ {0} /\ MaxEdits \in Nat

VARIABLES
    version,     \* the payload of the installed GameHub
    text,        \* the text of each profile, or none
    meta,        \* .gamehub metadata: "absent", "ok" or "broken"
    entry,       \* the fingerprint on file for each profile, 0 without an entry
    backups,     \* backups beside each profile, oldest first
    archive,     \* profiles, and backups of profiles, moved to the archive
    litter,      \* files of no profile: the user's, and backups of the metadata
    job,         \* the run in progress
    edits        \* edits so far

profile == <<text, meta, entry, backups, archive, litter>>
vars == <<version, profile, job, edits>>

PushOneMore(s, t) ==
    LET all == Append(s, t)
    IN  SubSeq(all, (IF Len(all) > KeepLimit + 1 THEN Len(all) - KeepLimit - 1 ELSE 0) + 1, Len(all))

(* backup_existing_file: a family keeps its newest members.                *)
Push(s, t) ==
    LET all == Append(s, t)
    IN  SubSeq(all, (IF Len(all) > KeepLimit THEN Len(all) - KeepLimit ELSE 0) + 1, Len(all))

(* read_managed_metadata_entry and _metadata_is_managed_target: a file that *)
(* does not parse holds no entry, and the fingerprint does not count.      *)
Owned(f) == meta = "ok" /\ entry[f] # 0

RecordOnly(owners) ==
    /\ meta' = "ok"
    /\ entry' = [f \in Files |-> IF f \in owners THEN version ELSE 0]
    /\ litter' = litter \cup IF meta = "absent" THEN {} ELSE {"metadata backup"}

(* write_managed_metadata_entries: the file is rewritten with its other    *)
(* entries, those that could be read.                                      *)
Record(owners) ==
    /\ meta' = "ok"
    /\ entry' = [f \in Files |-> IF f \in owners THEN version
                                 ELSE IF meta = "ok" THEN entry[f] ELSE 0]
    /\ litter' = litter \cup IF meta = "absent" THEN {} ELSE {"metadata backup"}

-----------------------------------------------------------------------------
Idle == [pc |-> "idle", at |-> 1, apply |-> FALSE, force |-> FALSE, doctor |-> FALSE,
         seeded |-> {}, found |-> {}, touched |-> FALSE]
Running == job.pc # "idle"
File == Order[job.at]

Init ==
    /\ version = 1
    /\ text \in [Files -> {None, User(CHOOSE u \in UserTexts : TRUE)}]
    /\ meta = "absent"
    /\ entry = [f \in Files |-> 0]
    /\ backups = [f \in Files |-> <<>>]
    /\ archive = [f \in Files |-> [own |-> <<>>, moved |-> {}]]
    /\ litter = {}
    /\ job = Idle
    /\ edits = 0

(* The user, the operating system, and the installer.                      *)
Outside ==
    /\ edits < MaxEdits
    /\ edits' = edits + 1
    /\ job' = IF Running THEN [job EXCEPT !.touched = TRUE] ELSE job

EditProfile(f) ==
    /\ Outside
    /\ \E u \in UserTexts : text' = [text EXCEPT ![f] = User(u)]
    /\ text' # text
    /\ UNCHANGED <<version, meta, entry, backups, archive, litter>>

DeleteProfile(f) ==
    /\ Outside
    /\ text[f] # None
    /\ text' = [text EXCEPT ![f] = None]
    /\ UNCHANGED <<version, meta, entry, backups, archive, litter>>

DamageMetadata ==
    /\ Outside
    /\ meta = "ok"
    /\ meta' = "broken"
    /\ UNCHANGED <<version, text, entry, backups, archive, litter>>

AddLitter ==
    /\ Outside
    /\ litter' = litter \cup {"user file"}
    /\ UNCHANGED <<version, text, meta, entry, backups, archive>>

Upgrade ==
    /\ ~Running /\ version < Versions
    /\ version' = version + 1
    /\ UNCHANGED <<profile, job, edits>>

Kill ==
    /\ Running /\ edits < MaxEdits
    /\ edits' = edits + 1
    /\ job' = Idle
    /\ UNCHANGED <<version, profile>>

-----------------------------------------------------------------------------
(* gamehub sync: profiles are seeded, but on a dry run, then converged.    *)
StartSync(apply, reseed) ==
    /\ ~Running
    /\ job' = [Idle EXCEPT !.pc = IF apply THEN "seed" ELSE "converge",
                           !.apply = apply, !.force = reseed]
    /\ UNCHANGED <<version, profile, edits>>

(* gamehub controllers doctor; force needs apply.                          *)
StartDoctor(apply, force) ==
    /\ ~Running /\ (force => apply)
    /\ job' = [Idle EXCEPT !.pc = "converge", !.apply = apply, !.force = force, !.doctor = TRUE]
    /\ UNCHANGED <<version, profile, edits>>

WriteNoBackup(f) == text' = [text EXCEPT ![f] = Own(version)] /\ UNCHANGED backups
WriteBackedUp(f) ==
    /\ text' = [text EXCEPT ![f] = Own(version)]
    /\ backups' = IF text[f] = None THEN backups
                  ELSE [backups EXCEPT ![f] = Push(@, text[f])]

(* seed_default_profiles, first loop: a profile that is there is written   *)
(* over only when profiles are reseeded ...                                *)
SeedProfile ==
    /\ job.pc = "seed" /\ job.at <= Len(Order)
    /\ IF text[File] = None \/ job.force
       THEN WriteBackedUp(File) /\ job' = [job EXCEPT !.at = @ + 1, !.seeded = @ \cup {File}]
       ELSE UNCHANGED <<text, backups>> /\ job' = [job EXCEPT !.at = @ + 1]
    /\ UNCHANGED <<version, meta, entry, archive, litter, edits>>

(* ... and the metadata of all that were written, in one rewrite.          *)
SeedMetadata ==
    /\ job.pc = "seed" /\ job.at > Len(Order)
    /\ IF job.seeded = {} THEN UNCHANGED <<meta, entry, litter>> ELSE Record(job.seeded)
    /\ job' = [job EXCEPT !.pc = "converge", !.at = 1]
    /\ UNCHANGED <<version, text, backups, archive, edits>>

(* _evaluate_managed_target.  A profile that is written has its metadata   *)
(* recorded in a second step.                                              *)
Seen(f, status) == job' = [job EXCEPT !.at = @ + 1, !.found = @ \cup {<<f, status>>}]
Written == job' = [job EXCEPT !.pc = "record"]
Matches(f) == text[f] = Own(version)
FingerprintNever(f) == FALSE
FingerprintOk(f) == Owned(f) /\ entry[f] = version
MayRepairAny(f) == TRUE
MayRepairCurrent(f) == (job.force /\ ~job.doctor) \/ FingerprintOk(f)
MayRepair(f) == (job.force /\ ~job.doctor) \/ Owned(f)

Missing ==
    /\ text[File] = None
    /\ IF job.apply
       THEN WriteNoBackup(File) /\ Written
       ELSE Seen(File, "missing") /\ UNCHANGED <<text, backups>>
    /\ UNCHANGED archive

Equal ==
    /\ Matches(File)
    /\ IF FingerprintOk(File)
       THEN job' = [job EXCEPT !.at = @ + 1]
       ELSE IF job.apply THEN Written ELSE Seen(File, "drift")
    /\ UNCHANGED <<text, backups, archive>>

Repair ==
    /\ text[File] # None /\ ~Matches(File) /\ MayRepair(File)
    /\ IF job.apply
       THEN WriteBackedUp(File) /\ Written
       ELSE Seen(File, "drift") /\ UNCHANGED <<text, backups>>
    /\ UNCHANGED archive

TakeOver ==
    /\ text[File] # None /\ ~Matches(File) /\ ~MayRepair(File)
    /\ job.doctor /\ job.force
    /\ archive' = [archive EXCEPT ![File].own = Push(@, text[File])]
    /\ text' = [text EXCEPT ![File] = Own(version)]
    /\ Written
    /\ UNCHANGED backups

Leave ==
    /\ text[File] # None /\ ~Matches(File) /\ ~MayRepair(File)
    /\ ~(job.doctor /\ job.force)
    /\ Seen(File, "unmanaged")
    /\ UNCHANGED <<text, backups, archive>>

Evaluate ==
    /\ job.pc = "converge" /\ job.at <= Len(Order)
    /\ Missing \/ Equal \/ Repair \/ TakeOver \/ Leave
    /\ UNCHANGED <<version, meta, entry, litter, edits>>

RecordOne ==
    /\ job.pc = "record"
    /\ Record({File})
    /\ job' = [job EXCEPT !.pc = "converge", !.at = @ + 1]
    /\ UNCHANGED <<version, text, backups, archive, edits>>

(* The last profile ends a sync; the doctor goes on to the other files.    *)
Evaluated ==
    /\ job.pc = "converge" /\ job.at > Len(Order)
    /\ job' = IF job.doctor THEN [job EXCEPT !.pc = "scan"] ELSE Idle
    /\ UNCHANGED <<version, profile, edits>>

(* _unmanaged_profile_findings: every other file of the directory, and the *)
(* backups GameHub left there are such files.                              *)
Strays == litter \cup {kind \in {"profile backup"} : \E f \in Files : backups[f] # <<>>}
ScanKeepsBackups ==
    /\ job.pc = "scan"
    /\ litter' = IF job.force THEN {} ELSE litter
    /\ job' = Idle
    /\ UNCHANGED <<version, text, meta, entry, backups, archive, edits>>
Scan ==
    /\ job.pc = "scan"
    /\ IF job.force
       THEN /\ archive' = [f \in Files |-> [archive[f] EXCEPT !.moved = @ \cup Range(backups[f])]]
            /\ backups' = [f \in Files |-> <<>>]
            /\ litter' = {}
       ELSE UNCHANGED <<archive, backups, litter>>
    /\ job' = Idle
    /\ UNCHANGED <<version, text, meta, entry, edits>>

JobStep == SeedProfile \/ SeedMetadata \/ Evaluate \/ RecordOne \/ Evaluated \/ Scan
UserStep ==
    \/ \E f \in Files : EditProfile(f) \/ DeleteProfile(f)
    \/ DamageMetadata \/ AddLitter
Next ==
    \/ \E apply, reseed \in BOOLEAN : StartSync(apply, reseed)
    \/ \E apply, force \in BOOLEAN : StartDoctor(apply, force)
    \/ JobStep \/ UserStep \/ Upgrade \/ Kill

(* A run goes on until it ends, and the user keeps syncing.                *)
Fairness == WF_vars(JobStep) /\ SF_vars(StartSync(TRUE, FALSE))
Spec == Init /\ [][Next]_vars /\ Fairness

-----------------------------------------------------------------------------
(* All variables are of their types, and no family outgrows its limit.     *)
TypeOK ==
    /\ version \in 1 .. Versions
    /\ text \in [Files -> Texts]
    /\ meta \in {"absent", "ok", "broken"} /\ entry \in [Files -> 0 .. Versions]
    /\ \A f \in Files :
        /\ backups[f] \in Seq(Texts) /\ Len(backups[f]) <= KeepLimit
        /\ archive[f].own \in Seq(Texts) /\ Len(archive[f].own) <= KeepLimit
        /\ archive[f].moved \subseteq Texts
    /\ litter \subseteq {"user file", "metadata backup"}
    /\ job.at \in 1 .. Len(Order) + 1 /\ job.seeded \subseteq Files
    /\ edits \in 0 .. MaxEdits

Settled == \A f \in Files : Matches(f) /\ Owned(f) /\ entry[f] = version
UserTextsOf(f) ==
    {t \in {text[f]} \cup Range(backups[f]) \cup Range(archive[f].own) \cup archive[f].moved :
        IsUser(t)}
Ends == JobStep /\ ~Running' /\ ~job.touched

(* A run drops a text of the user only to keep as many newer ones as the   *)
(* limit allows: nothing it overwrites, archives or moves is lost.  And a  *)
(* profile that is not on record as GameHub's stays in place unless the    *)
(* user asks for its replacement, damaged metadata included.               *)
UserTextKept ==
    [][JobStep => \A f \in Files :
        /\ \A t \in UserTextsOf(f) :
            \/ t \in UserTextsOf(f)'
            \/ Len(backups'[f]) = KeepLimit \/ Len(archive'[f].own) = KeepLimit
        /\ ~job.force /\ IsUser(text[f]) /\ (meta # "ok" \/ entry[f] = 0) =>
            text'[f] = text[f]]_vars

(* After a run that applies, each profile is the installed payload and on  *)
(* record with its fingerprint, or was reported as the user's; the forced  *)
(* doctor leaves no other file and nothing to report.                      *)
RunSettles ==
    Ends /\ job.apply =>
        /\ \A f \in Files :
            \/ text'[f] = Own(version) /\ meta' = "ok" /\ entry'[f] = version
            \/ <<f, "unmanaged">> \in job.found
        /\ job.doctor /\ job.force => Strays' = {} /\ job.found = {}

(* ... and a run on a settled directory changes nothing in it.             *)
RunsSettle ==
    [][/\ RunSettles
       /\ JobStep /\ job.pc # "record" /\ job.seeded = {} /\ ~job.force /\ Settled =>
            UNCHANGED profile /\ job'.pc # "record"]_vars

(* Without interference every profile GameHub wrote is on record as its    *)
(* own; otherwise the next upgrade would leave it as the user's for ever.  *)
NoOrphans ==
    edits = 0 /\ ~Running => \A f \in Files : text[f] # None /\ ~IsUser(text[f]) => Owned(f)

(* An upgraded payload reaches every profile GameHub owns.                 *)
UpgradeArrives == \A f \in Files : Owned(f) ~> (Matches(f) \/ ~Owned(f))
=============================================================================
