--------------------- MODULE ControllerConvergenceProofs ---------------------
(***************************************************************************)
(* Proofs about the controller profiles (ControllerConvergence), for any   *)
(* number of profiles, user's texts, GameHub versions and interferences:   *)
(* that no run loses what the user wrote, that GameHub keeps account of    *)
(* what it wrote itself, and that a run settles the directory.             *)
(***************************************************************************)
EXTENDS ControllerConvergence, SequenceTheorems, TLAPS

JobType == [pc : {"idle", "seed", "converge", "record", "scan"}, at : 1 .. Len(Order) + 1,
            apply : BOOLEAN, force : BOOLEAN, doctor : BOOLEAN, seeded : SUBSET Files,
            found : SUBSET (Files \X {"missing", "drift", "unmanaged"}), touched : BOOLEAN]
Litter == {"user file", "metadata backup"}
Few(family) == Len(family) <= KeepLimit
Archived == [own : Seq(Texts), moved : SUBSET Texts]

-----------------------------------------------------------------------------
(* The inductive invariant                                                   *)

TypeInv ==
    /\ version \in 1 .. Versions /\ text \in [Files -> Texts]
    /\ meta \in {"absent", "ok", "broken"} /\ entry \in [Files -> 0 .. Versions]
    /\ backups \in [Files -> Seq(Texts)] /\ \A f \in Files : Few(backups[f])
    /\ archive \in [Files -> Archived] /\ \A f \in Files : Few(archive[f].own)
    /\ litter \subseteq Litter
    /\ job \in JobType /\ (job.pc = "record" => job.at <= Len(Order))
    /\ (job.doctor /\ job.force => job.apply)
    /\ edits \in 0 .. MaxEdits

\* GameHub's own files are on record, but for those that the run in progress
\* has written and not recorded yet.
Accounted ==
    edits = 0 => \A f \in Files : text[f] # None /\ ~IsUser(text[f]) =>
        \/ Owned(f)
        \/ job.pc = "seed" /\ f \in job.seeded
        \/ job.pc = "record" /\ f = File

\* What a run that nobody interferes with has passed is settled or reported.
Dealt(f) ==
    \/ text[f] = Own(version) /\ meta = "ok" /\ entry[f] = version
    \/ <<f, "unmanaged">> \in job.found
Progress ==
    job.apply /\ ~job.touched =>
        /\ job.pc \in {"converge", "record"} => \A i \in 1 .. job.at - 1 : Dealt(Order[i])
        /\ job.pc = "record" => text[File] = Own(version)
        /\ job.pc = "scan" => \A f \in Files : Dealt(f)
        /\ job.doctor /\ job.force => job.found = {}
        /\ job.doctor => job.pc # "seed"

IInv == TypeInv /\ Accounted /\ Progress

-----------------------------------------------------------------------------
(* Texts and families of backups                                             *)

\* The bounds, and the order as a sequence that visits every file.
LEMMA Numbers ==
  Versions \in Nat \ {0} /\ KeepLimit \in Nat \ {0} /\ MaxEdits \in Nat
BY ControllerAssumption

LEMMA Bounds ==
  /\ Versions \in Nat \ {0} /\ KeepLimit \in Nat \ {0} /\ MaxEdits \in Nat
  /\ Order \in Seq(Files) /\ Len(Order) \in Nat
  /\ \A i \in 1 .. Len(Order) : Order[i] \in Files
  /\ \A f \in Files : \E i \in 1 .. Len(Order) : Order[i] = f
BY ControllerAssumption DEF Files, Range

\* A text is none, a payload of GameHub's, or the user's, and not two of them.
LEMMA TextFacts ==
  /\ None \in Texts /\ ~IsUser(None)
  /\ \A v \in 1 .. Versions : Own(v) \in Texts /\ ~IsUser(Own(v)) /\ Own(v) # None
  /\ \A u \in UserTexts : User(u) \in Texts /\ IsUser(User(u))
BY DEF Texts, None, Own, User, IsUser

\* A family that gets one more member keeps all it had, or is full.
LEMMA PushKeeps ==
  ASSUME NEW s \in Seq(Texts), NEW t \in Texts
  PROVE  /\ Push(s, t) \in Seq(Texts) /\ Few(Push(s, t))
         /\ \/ Len(Push(s, t)) = KeepLimit
            \/ Range(s) \cup {t} \subseteq Range(Push(s, t))
<1> DEFINE all == Append(s, t)
           first == (IF Len(all) > KeepLimit THEN Len(all) - KeepLimit ELSE 0) + 1
<1>1. /\ all \in Seq(Texts) /\ Len(all) = Len(s) + 1 /\ Len(s) \in Nat
      /\ \A i \in 1 .. Len(s) : all[i] = s[i]
      /\ all[Len(s) + 1] = t
  BY AppendProperties
<1>2. /\ first \in 1 .. Len(all) /\ first \in Int /\ Len(all) \in Int
      /\ \A i \in first .. Len(all) : all[i] \in Texts
  BY <1>1, Bounds
<1> HIDE DEF all
<1> USE DEF Few
<1>3. /\ SubSeq(all, first, Len(all)) \in Seq(Texts)
      /\ Len(SubSeq(all, first, Len(all))) = Len(all) - first + 1
  <2> HIDE DEF first
  <2>1. QED
    BY <1>2, SubSeqProperties
<1>4. Push(s, t) = SubSeq(all, first, Len(all))
  BY DEF Push, all
<1>5. CASE Len(all) > KeepLimit
  BY <1>1, <1>3, <1>4, <1>5, Bounds
<1>6. CASE ~(Len(all) > KeepLimit)
  <2>1. Push(s, t) = all
    BY <1>1, <1>4, <1>6, SubSeqFull
  <2>2. Range(s) \cup {t} \subseteq Range(all)
    BY <1>1 DEF Range
  <2>3. QED
    BY <1>1, <1>6, <2>1, <2>2, Bounds
<1>7. QED
  BY <1>5, <1>6

-----------------------------------------------------------------------------
(* The steps of a run                                                        *)

\* Where a job starts and ends.
LEMMA IdleType ==
  /\ Idle \in JobType /\ Idle.pc = "idle" /\ Idle.at = 1 /\ Idle.apply = FALSE
  /\ Idle.force = FALSE /\ Idle.doctor = FALSE /\ Idle.seeded = {} /\ Idle.found = {}
  /\ Idle.touched = FALSE
BY Bounds DEF Idle, JobType

\* The fields of a job, one by one.
LEMMA Fields ==
  ASSUME job \in JobType
  PROVE  /\ job.pc \in {"idle", "seed", "converge", "record", "scan"} /\ job.at \in 1 .. Len(Order) + 1
         /\ job.apply \in BOOLEAN /\ job.force \in BOOLEAN /\ job.doctor \in BOOLEAN
         /\ job.seeded \subseteq Files /\ job.touched \in BOOLEAN
BY DEF JobType

\* Going one file on passes that file.
LEMMA Passed ==
  ASSUME NEW n \in 1 .. Len(Order)
  PROVE  /\ \A i \in 1 .. n - 1 : Order[i] \in Files
         /\ \A i \in 1 .. (n + 1) - 1 : i \in 1 .. n - 1 \/ i = n
<1>1. Len(Order) \in Nat /\ \A i \in 1 .. Len(Order) : Order[i] \in Files
  BY Bounds
<1>2. \A i \in 1 .. n - 1 : i \in 1 .. Len(Order)
  BY <1>1
<1>3. QED
  BY <1>1, <1>2

\* A pass that is over has passed every file.
LEMMA PassedAll ==
  ASSUME NEW n \in 1 .. Len(Order) + 1, n > Len(Order), NEW f \in Files
  PROVE  \E i \in 1 .. n - 1 : Order[i] = f
<1>1. Len(Order) \in Nat /\ \E i \in 1 .. Len(Order) : Order[i] = f
  BY Bounds
<1>2. \A i \in 1 .. Len(Order) : i \in 1 .. n - 1
  BY <1>1
<1>3. QED
  BY <1>1, <1>2

\* A pass that is not over stands at a file.
LEMMA FileHere ==
  ASSUME job \in JobType, job.at <= Len(Order)
  PROVE  File \in Files /\ job.at \in 1 .. Len(Order) /\ job.at + 1 \in 1 .. Len(Order) + 1
<1>1. job.at \in 1 .. Len(Order) /\ Len(Order) \in Nat
  BY Fields, Bounds
<1>2. Order[job.at] \in Files
  BY <1>1, Bounds
<1>3. QED
  BY <1>1, <1>2 DEF File

\* The options of a run do not change while it goes on.
SameRun == /\ job'.apply = job.apply /\ job'.force = job.force /\ job'.doctor = job.doctor
           /\ job'.touched = job.touched

\* The ways a job moves on: with files seeded, with nothing, with a finding, to
\* another pass.
LEMMA MovesOn ==
  ASSUME job \in JobType, job.at <= Len(Order), NEW more \in SUBSET Files,
         job' = [job EXCEPT !.at = @ + 1, !.seeded = @ \cup more]
  PROVE  /\ job' \in JobType /\ SameRun /\ job'.at = job.at + 1 /\ job'.pc = job.pc
         /\ job'.seeded = job.seeded \cup more /\ job'.found = job.found
<1>0. job.at + 1 \in 1 .. Len(Order) + 1
  BY FileHere
<1>1. job.seeded \cup more \in SUBSET Files
  BY Fields
<1>2. job' \in JobType
  BY <1>0, <1>1 DEF JobType
<1>3. SameRun /\ job'.at = job.at + 1
  BY DEF JobType, SameRun
<1>4. job'.pc = job.pc /\ job'.seeded = job.seeded \cup more /\ job'.found = job.found
  BY DEF JobType
<1>5. QED
  BY <1>2, <1>3, <1>4

LEMMA Skips ==
  ASSUME job \in JobType, job.at <= Len(Order), job' = [job EXCEPT !.at = @ + 1]
  PROVE  /\ job' \in JobType /\ SameRun /\ job'.at = job.at + 1 /\ job'.pc = job.pc
         /\ job'.seeded = job.seeded /\ job'.found = job.found
<1>1. job.at + 1 \in 1 .. Len(Order) + 1
  BY FileHere
<1>2. job' \in JobType
  BY <1>1 DEF JobType
<1>3. SameRun /\ job'.at = job.at + 1
  BY DEF JobType, SameRun
<1>4. job'.pc = job.pc /\ job'.seeded = job.seeded /\ job'.found = job.found
  BY DEF JobType
<1>5. QED
  BY <1>2, <1>3, <1>4

LEMMA Reports ==
  ASSUME job \in JobType, job.at <= Len(Order), NEW f \in Files,
         NEW status \in {"missing", "drift", "unmanaged"}, Seen(f, status)
  PROVE  /\ job' \in JobType /\ SameRun /\ job'.at = job.at + 1 /\ job'.pc = job.pc
         /\ job'.seeded = job.seeded /\ job'.found = job.found \cup {<<f, status>>}
<1>0. job' = [job EXCEPT !.at = @ + 1, !.found = @ \cup {<<f, status>>}]
  BY DEF Seen
<1>1. job.at + 1 \in 1 .. Len(Order) + 1
  BY FileHere
<1>2. job.found \cup {<<f, status>>} \in SUBSET (Files \X {"missing", "drift", "unmanaged"})
  BY DEF JobType
<1>3. job' \in JobType
  BY <1>0, <1>1, <1>2 DEF JobType
<1>4. SameRun /\ job'.at = job.at + 1
  BY <1>0 DEF JobType, SameRun
<1>5. /\ job'.pc = job.pc /\ job'.seeded = job.seeded
      /\ job'.found = job.found \cup {<<f, status>>}
  BY <1>0 DEF JobType
<1>6. QED
  BY <1>3, <1>4, <1>5

LEMMA Goes ==
  ASSUME job \in JobType, NEW p \in {"converge", "record", "scan"}, NEW i \in 1 .. Len(Order) + 1,
         \/ job' = [job EXCEPT !.pc = p, !.at = i]
         \/ job' = [job EXCEPT !.pc = p] /\ i = job.at
  PROVE  /\ job' \in JobType /\ SameRun /\ job'.at = i /\ job'.pc = p
         /\ job'.seeded = job.seeded /\ job'.found = job.found
<1>1. job' \in JobType
  BY DEF JobType
<1>2. SameRun /\ job'.at = i
  BY DEF JobType, SameRun
<1>3. job'.pc = p /\ job'.seeded = job.seeded /\ job'.found = job.found
  BY DEF JobType
<1>4. QED
  BY <1>1, <1>2, <1>3

\* A profile is seeded when it is missing or profiles are reseeded.
LEMMA SeedProfileDoes ==
  ASSUME TypeInv, SeedProfile
  PROVE  /\ job.pc = "seed" /\ job.at <= Len(Order) /\ File \in Files
         /\ job' \in JobType /\ SameRun /\ job'.pc = "seed" /\ job'.found = job.found
         /\ UNCHANGED <<version, meta, entry, archive, litter, edits>>
         /\ \/ /\ text[File] = None \/ job.force
               /\ WriteBackedUp(File) /\ job'.seeded = job.seeded \cup {File}
            \/ /\ text[File] # None /\ ~job.force
               /\ UNCHANGED <<text, backups>> /\ job'.seeded = job.seeded
<1>1. job \in JobType /\ job.pc = "seed" /\ job.at <= Len(Order) /\ File \in Files
  BY FileHere DEF TypeInv, SeedProfile
<1>2. CASE text[File] = None \/ job.force
  <2>1. WriteBackedUp(File) /\ job' = [job EXCEPT !.at = @ + 1, !.seeded = @ \cup {File}]
    BY <1>2 DEF SeedProfile
  <2>2. {File} \in SUBSET Files
    BY <1>1
  <2>3. QED
    BY <1>1, <1>2, <2>1, <2>2, MovesOn DEF SeedProfile
<1>3. CASE ~(text[File] = None \/ job.force)
  <2>1. UNCHANGED <<text, backups>> /\ job' = [job EXCEPT !.at = @ + 1]
    BY <1>3 DEF SeedProfile
  <2>2. QED
    BY <1>1, <1>3, <2>1, Skips DEF SeedProfile
<1>4. QED
  BY <1>2, <1>3

\* The metadata of what was seeded is recorded before the convergence.
LEMMA SeedMetadataDoes ==
  ASSUME TypeInv, SeedMetadata
  PROVE  /\ job.pc = "seed" /\ job' \in JobType /\ SameRun /\ job'.pc = "converge" /\ job'.at = 1
         /\ job'.found = job.found /\ job'.seeded = job.seeded
         /\ UNCHANGED <<version, text, backups, archive, edits>>
         /\ IF job.seeded = {} THEN UNCHANGED <<meta, entry, litter>> ELSE Record(job.seeded)
<1>0. job \in JobType
  BY DEF TypeInv
<1>1. 1 \in 1 .. Len(Order) + 1
  BY Bounds
<1>2. job' = [job EXCEPT !.pc = "converge", !.at = 1]
  BY DEF SeedMetadata
<1>3. QED
  BY <1>0, <1>1, <1>2, Goes DEF SeedMetadata

\* A profile is written, and to be recorded next; or it is passed, because it
\* is settled, because the run only looks, or because it is the user's.
LEMMA EvaluateDoes ==
  ASSUME TypeInv, Evaluate
  PROVE  /\ job.pc = "converge" /\ job.at <= Len(Order) /\ File \in Files
         /\ job' \in JobType /\ SameRun /\ job'.seeded = job.seeded
         /\ UNCHANGED <<version, meta, entry, litter, edits>>
         /\ \/ /\ job.apply /\ job'.pc = "record" /\ job'.at = job.at /\ job'.found = job.found
               /\ text' = [text EXCEPT ![File] = Own(version)]
            \/ /\ job'.pc = "converge" /\ job'.at = job.at + 1
               /\ UNCHANGED <<text, backups, archive>>
               /\ \/ Matches(File) /\ FingerprintOk(File) /\ job'.found = job.found
                  \/ ~job.apply /\ ~(Matches(File) /\ FingerprintOk(File))
                  \/ job'.found = job.found \cup {<<File, "unmanaged">>} /\ ~(job.doctor /\ job.force)
                     /\ ~Matches(File)
<1>1. job \in JobType /\ job.pc = "converge" /\ job.at <= Len(Order) /\ File \in Files
      /\ job.at \in 1 .. Len(Order) + 1 /\ job.apply \in BOOLEAN
      /\ text \in [Files -> Texts] /\ (job.doctor /\ job.force => job.apply)
  BY FileHere, Fields DEF TypeInv, Evaluate
<1>2. ASSUME Written
      PROVE  /\ job' \in JobType /\ SameRun /\ job'.seeded = job.seeded
             /\ job'.pc = "record" /\ job'.at = job.at /\ job'.found = job.found
  BY <1>1, <1>2, Goes DEF Written
<1>3. CASE Missing
  <2>1. CASE job.apply
    BY <1>1, <1>2, <1>3, <2>1 DEF Missing, WriteNoBackup, Evaluate
  <2>2. CASE ~job.apply
    <3>1. Seen(File, "missing") /\ UNCHANGED <<text, backups, archive>> /\ ~Matches(File)
      BY <1>3, <2>2 DEF Missing, Matches, None, Own
    <3>2. QED
      BY <1>1, <2>2, <3>1, Reports DEF Evaluate
  <2>3. QED
    BY <2>1, <2>2
<1>4. CASE Equal
  <2>1. UNCHANGED <<text, backups, archive>> /\ text = [text EXCEPT ![File] = Own(version)]
    BY <1>1, <1>4 DEF Equal, Matches
  <2>2. CASE FingerprintOk(File)
    <3>1. job' = [job EXCEPT !.at = @ + 1] /\ Matches(File)
      BY <1>4, <2>2 DEF Equal
    <3>2. QED
      BY <1>1, <2>1, <2>2, <3>1, Skips DEF Evaluate
  <2>3. CASE ~FingerprintOk(File) /\ job.apply
    <3>1. Written
      BY <1>4, <2>3 DEF Equal
    <3>2. QED
      BY <1>1, <1>2, <2>1, <2>3, <3>1 DEF Evaluate
  <2>4. CASE ~FingerprintOk(File) /\ ~job.apply
    <3>1. Seen(File, "drift")
      BY <1>4, <2>4 DEF Equal
    <3>2. QED
      BY <1>1, <2>1, <2>4, <3>1, Reports DEF Evaluate
  <2>5. QED
    BY <2>2, <2>3, <2>4
<1>5. CASE Repair
  <2>1. CASE job.apply
    BY <1>1, <1>2, <1>5, <2>1 DEF Repair, WriteBackedUp, Evaluate
  <2>2. CASE ~job.apply
    <3>1. Seen(File, "drift") /\ UNCHANGED <<text, backups, archive>> /\ ~Matches(File)
      BY <1>5, <2>2 DEF Repair
    <3>2. QED
      BY <1>1, <2>2, <3>1, Reports DEF Evaluate
  <2>3. QED
    BY <2>1, <2>2
<1>6. CASE TakeOver
  <2>1. CASE job.apply
    BY <1>1, <1>2, <1>6, <2>1 DEF TakeOver, Evaluate
  <2>2. job.apply
    BY <1>1, <1>6 DEF TakeOver
  <2>3. QED
    BY <2>1, <2>2
<1>7. CASE Leave
  <2>1. Seen(File, "unmanaged") /\ UNCHANGED <<text, backups, archive>> /\ ~Matches(File)
        /\ ~(job.doctor /\ job.force)
    BY <1>7 DEF Leave
  <2>2. QED
    BY <1>1, <2>1, Reports DEF Evaluate
<1>8. QED
  BY <1>3, <1>4, <1>5, <1>6, <1>7 DEF Evaluate

\* A profile that was written goes on record, and the next is looked at.
LEMMA RecordOneDoes ==
  ASSUME TypeInv, RecordOne
  PROVE  /\ job.pc = "record" /\ job.at <= Len(Order) /\ File \in Files
         /\ job' \in JobType /\ SameRun /\ job'.pc = "converge" /\ job'.at = job.at + 1
         /\ job'.found = job.found /\ job'.seeded = job.seeded
         /\ UNCHANGED <<version, text, backups, archive, edits>> /\ Record({File})
<1>1. job \in JobType /\ job.pc = "record" /\ job.at <= Len(Order) /\ File \in Files
      /\ job.at + 1 \in 1 .. Len(Order) + 1
  BY FileHere DEF TypeInv, RecordOne
<1>2. job' = [job EXCEPT !.pc = "converge", !.at = job.at + 1]
  BY DEF RecordOne
<1>3. QED
  BY <1>1, <1>2, Goes DEF RecordOne

\* The scan ends the run, and forced it leaves only profiles.
LEMMA ScanDoes ==
  ASSUME Scan
  PROVE  /\ job.pc = "scan" /\ job' = Idle
         /\ UNCHANGED <<version, text, meta, entry, edits>>
         /\ IF job.force
            THEN /\ archive' = [f \in Files |-> [archive[f] EXCEPT !.moved = @ \cup Range(backups[f])]]
                 /\ backups' = [f \in Files |-> <<>>] /\ litter' = {}
            ELSE UNCHANGED <<archive, backups, litter>>
BY DEF Scan

\* The user, the system or a kill, at most MaxEdits times.
LEMMA OutsideDoes ==
  ASSUME job \in JobType, edits \in 0 .. MaxEdits, Outside
  PROVE  /\ job' \in JobType /\ edits' \in 0 .. MaxEdits /\ edits' # 0
         /\ job'.pc = job.pc /\ job'.at = job.at /\ job'.found = job.found /\ job'.apply = job.apply
         /\ job'.force = job.force /\ job'.doctor = job.doctor
         /\ job'.touched \/ (job' = job /\ job.pc = "idle")
<1>1. edits' \in 0 .. MaxEdits /\ edits' # 0
  BY Bounds DEF Outside
<1>2. CASE Running
  <2>1. job' = [job EXCEPT !.touched = TRUE]
    BY <1>2 DEF Outside
  <2>2. job' \in JobType
    BY <2>1 DEF JobType
  <2>3. job'.pc = job.pc /\ job'.at = job.at /\ job'.found = job.found /\ job'.touched
    BY <2>1 DEF JobType
  <2>4. job'.apply = job.apply /\ job'.force = job.force /\ job'.doctor = job.doctor
    BY <2>1 DEF JobType
  <2>5. QED
    BY <1>1, <2>2, <2>3, <2>4
<1>3. CASE ~Running
  BY <1>1, <1>3 DEF Outside, Running
<1>4. QED
  BY <1>2, <1>3

\* A run begins with no file seen.
LEMMA Starts ==
  ASSUME NEW apply \in BOOLEAN, NEW force \in BOOLEAN, NEW p \in {"seed", "converge"},
         NEW doctor \in BOOLEAN,
         \/ /\ job' = [Idle EXCEPT !.pc = p, !.apply = apply, !.force = force, !.doctor = doctor]
            /\ doctor
         \/ job' = [Idle EXCEPT !.pc = p, !.apply = apply, !.force = force] /\ ~doctor
  PROVE  /\ job' \in JobType /\ job'.pc = p /\ job'.at = 1 /\ job'.apply = apply
         /\ job'.force = force /\ job'.doctor = doctor /\ job'.found = {} /\ job'.touched = FALSE
<1>1. Idle \in JobType
  BY IdleType
<1>2. job' \in JobType
  BY <1>1 DEF JobType
<1>3. job'.pc = p /\ job'.at = 1 /\ job'.apply = apply /\ job'.force = force
  BY DEF Idle
<1>4. job'.doctor = doctor /\ job'.found = {} /\ job'.touched = FALSE
  BY DEF Idle
<1>5. QED
  BY <1>2, <1>3, <1>4

-----------------------------------------------------------------------------
(* Types                                                                     *)

\* What Record puts into the metadata.
LEMMA RecordType ==
  ASSUME TypeInv, NEW owners \in SUBSET Files, Record(owners)
  PROVE  /\ meta' = "ok" /\ entry' \in [Files -> 0 .. Versions]
         /\ litter' \subseteq Litter
         /\ \A f \in Files : entry'[f] = IF f \in owners THEN version
                                        ELSE IF meta = "ok" THEN entry[f] ELSE 0
<1>1. version \in 0 .. Versions /\ 0 \in 0 .. Versions /\ \A f \in Files : entry[f] \in 0 .. Versions
  BY Numbers DEF TypeInv
<1>2. /\ meta' = "ok"
      /\ entry' = [f \in Files |-> IF f \in owners THEN version
                                   ELSE IF meta = "ok" THEN entry[f] ELSE 0]
      /\ litter' = litter \cup IF meta = "absent" THEN {} ELSE {"metadata backup"}
  BY DEF Record
<1>3. entry' \in [Files -> 0 .. Versions]
  BY <1>1, <1>2
<1>4. QED
  BY <1>2, <1>3 DEF TypeInv, Litter

\* A write that backs the old text up keeps texts and backups well formed.
LEMMA WriteType ==
  ASSUME TypeInv, NEW f \in Files, WriteBackedUp(f)
  PROVE  /\ text' \in [Files -> Texts] /\ backups' \in [Files -> Seq(Texts)]
         /\ \A g \in Files : Few(backups'[g])
<1>1. Own(version) \in Texts /\ text[f] \in Texts /\ backups[f] \in Seq(Texts)
  BY TextFacts DEF TypeInv
<1>2. Push(backups[f], text[f]) \in Seq(Texts) /\ Few(Push(backups[f], text[f]))
  BY <1>1, PushKeeps
<1>3. \/ backups' = backups
      \/ backups' = [backups EXCEPT ![f] = Push(backups[f], text[f])]
  BY DEF WriteBackedUp
<1>4. text' \in [Files -> Texts]
  BY <1>1 DEF WriteBackedUp, TypeInv
<1>5. QED
  BY <1>2, <1>3, <1>4 DEF TypeInv

\* Every step keeps the types.
LEMMA TypeStep ==
  TypeInv /\ [Next]_vars => TypeInv'
<1> SUFFICES ASSUME TypeInv, [Next]_vars PROVE TypeInv'
  OBVIOUS
<1>t. job \in JobType /\ edits \in 0 .. MaxEdits /\ version \in 1 .. Versions
  BY DEF TypeInv
<1>1. ASSUME NEW apply \in BOOLEAN, NEW reseed \in BOOLEAN, StartSync(apply, reseed) PROVE TypeInv'
  <2>1. \E p \in {"seed", "converge"} :
            job' = [Idle EXCEPT !.pc = p, !.apply = apply, !.force = reseed]
    BY <1>1 DEF StartSync
  <2>2. job' \in JobType /\ job'.pc # "record" /\ ~job'.doctor
    BY <2>1, Starts
  <2>3. QED
    BY <1>1, <2>2 DEF StartSync, TypeInv, profile
<1>2. ASSUME NEW apply \in BOOLEAN, NEW force \in BOOLEAN, StartDoctor(apply, force) PROVE TypeInv'
  <2>1. /\ job' = [Idle EXCEPT !.pc = "converge", !.apply = apply, !.force = force, !.doctor = TRUE]
        /\ (force => apply)
    BY <1>2 DEF StartDoctor
  <2>2. job' \in JobType /\ job'.pc # "record" /\ (job'.force => job'.apply)
    BY <2>1, Starts
  <2>3. QED
    BY <1>2, <2>2 DEF StartDoctor, TypeInv, profile
<1>3. CASE SeedProfile
  <2>1. CASE WriteBackedUp(File)
    BY <1>3, <2>1, SeedProfileDoes, WriteType DEF TypeInv, SameRun
  <2>2. CASE UNCHANGED <<text, backups>>
    BY <1>3, <2>2, SeedProfileDoes DEF TypeInv, SameRun
  <2>3. QED
    BY <1>3, <2>1, <2>2, SeedProfileDoes
<1>4. CASE SeedMetadata
  <2>1. CASE UNCHANGED <<meta, entry, litter>>
    BY <1>4, <2>1, SeedMetadataDoes DEF TypeInv, SameRun
  <2>2. CASE Record(job.seeded)
    <3>1. job.seeded \in SUBSET Files
      BY <1>t, Fields
    <3>2. QED
      BY <1>4, <2>2, <3>1, SeedMetadataDoes, RecordType DEF TypeInv, SameRun
  <2>3. QED
    BY <1>4, <2>1, <2>2, SeedMetadataDoes
<1>5. CASE Evaluate
  <2>1. /\ job' \in JobType /\ (job'.pc = "record" => job'.at <= Len(Order))
        /\ (job'.doctor /\ job'.force => job'.apply)
        /\ UNCHANGED <<version, meta, entry, litter, edits>> /\ File \in Files
    BY <1>5, EvaluateDoes DEF TypeInv, SameRun
  <2>2. text' \in [Files -> Texts]
    <3>1. Own(version) \in Texts
      BY <1>t, TextFacts
    <3>2. text' = text \/ text' = [text EXCEPT ![File] = Own(version)]
      BY <1>5, EvaluateDoes
    <3>3. QED
      BY <3>1, <3>2 DEF TypeInv
  <2>3. backups' \in [Files -> Seq(Texts)] /\ \A f \in Files : Few(backups'[f])
    <3>1. CASE UNCHANGED backups
      BY <3>1 DEF TypeInv
    <3>2. CASE WriteBackedUp(File)
      BY <2>1, <3>2, WriteType
    <3>3. QED
      BY <1>5, <3>1, <3>2 DEF Evaluate, Missing, WriteNoBackup, Equal, Repair, TakeOver, Leave
  <2>4. archive' \in [Files -> Archived] /\ \A f \in Files : Few(archive'[f].own)
    <3>1. CASE UNCHANGED archive
      BY <3>1 DEF TypeInv
    <3>2. CASE TakeOver
      <4>1. /\ archive' = [archive EXCEPT ![File].own = Push(@, text[File])]
            /\ archive[File] \in Archived /\ text[File] \in Texts
        BY <2>1, <3>2 DEF TakeOver, TypeInv
      <4>2. archive[File].own \in Seq(Texts)
        BY <4>1 DEF Archived
      <4>3. /\ Push(archive[File].own, text[File]) \in Seq(Texts)
            /\ Few(Push(archive[File].own, text[File]))
        BY <4>1, <4>2, PushKeeps
      <4>4. /\ archive'[File] = [archive[File] EXCEPT !.own = Push(archive[File].own, text[File])]
            /\ \A g \in Files \ {File} : archive'[g] = archive[g]
            /\ DOMAIN archive' = Files /\ archive' = [g \in Files |-> archive'[g]]
        BY <2>1, <4>1 DEF TypeInv
      <4>5. archive'[File] \in Archived /\ archive'[File].own = Push(archive[File].own, text[File])
        BY <4>1, <4>3, <4>4 DEF Archived
      <4>6. \A g \in Files : archive'[g] \in Archived /\ Few(archive'[g].own)
        <5>1. \A g \in Files \ {File} : archive[g] \in Archived /\ Few(archive[g].own)
          BY DEF TypeInv
        <5>2. archive'[File] \in Archived /\ Few(archive'[File].own)
          BY <4>3, <4>5
        <5>3. QED
          BY <4>4, <5>1, <5>2
      <4>7. QED
        BY <4>4, <4>6
    <3>3. QED
      BY <1>5, <3>1, <3>2 DEF Evaluate, Missing, Equal, Repair, Leave
  <2>5. QED
    BY <2>1, <2>2, <2>3, <2>4 DEF TypeInv
<1>6. CASE RecordOne
  <2>1. {File} \in SUBSET Files
    BY <1>6, RecordOneDoes
  <2>2. QED
    BY <1>6, <2>1, RecordOneDoes, RecordType DEF TypeInv, SameRun
<1>7. CASE Evaluated
  <2>1. CASE job' = Idle
    BY <1>7, <2>1, IdleType DEF Evaluated, TypeInv, profile
  <2>2. CASE job' = [job EXCEPT !.pc = "scan"]
    <3>1. job.at \in 1 .. Len(Order) + 1
      BY <1>t, Fields
    <3>2. job' \in JobType /\ SameRun /\ job'.pc = "scan"
      BY <1>t, <2>2, <3>1, Goes
    <3>3. QED
      BY <1>7, <3>2 DEF Evaluated, TypeInv, profile, SameRun
  <2>3. QED
    BY <1>7, <2>1, <2>2 DEF Evaluated
<1>8. CASE Scan
  <2>1. CASE UNCHANGED <<archive, backups, litter>>
    BY <1>8, <2>1, ScanDoes, IdleType DEF TypeInv
  <2>2. CASE job.force
    <3>1. backups' \in [Files -> Seq(Texts)] /\ \A f \in Files : Few(backups'[f])
      <4>1. backups' = [f \in Files |-> <<>>] /\ <<>> \in Seq(Texts) /\ Len(<<>>) = 0
        BY <1>8, <2>2, ScanDoes
      <4>2. QED
        BY <4>1, Numbers DEF Few
    <3>2. ASSUME NEW f \in Files
          PROVE  /\ [archive[f] EXCEPT !.moved = @ \cup Range(backups[f])] \in Archived
                 /\ [archive[f] EXCEPT !.moved = @ \cup Range(backups[f])].own = archive[f].own
      <4>1. backups[f] \in Seq(Texts) /\ archive[f] \in Archived
        BY DEF TypeInv
      <4>2. Range(backups[f]) \subseteq Texts
        BY <4>1 DEF Range
      <4>3. QED
        BY <4>1, <4>2 DEF Archived
    <3>3. archive' \in [Files -> Archived] /\ \A f \in Files : Few(archive'[f].own)
      <4>1. archive' = [f \in Files |-> [archive[f] EXCEPT !.moved = @ \cup Range(backups[f])]]
        BY <1>8, <2>2, ScanDoes
      <4>2. \A f \in Files : Few(archive[f].own)
        BY DEF TypeInv
      <4>3. QED
        BY <3>2, <4>1, <4>2
    <3>4. QED
      BY <1>8, <2>2, <3>1, <3>3, ScanDoes, IdleType DEF TypeInv
  <2>3. QED
    BY <1>8, <2>1, <2>2, ScanDoes
<1>9. ASSUME NEW f \in Files, EditProfile(f) \/ DeleteProfile(f) PROVE TypeInv'
  <2>1. text' \in [Files -> Texts]
    BY <1>9, TextFacts DEF EditProfile, DeleteProfile, TypeInv
  <2>2. QED
    BY <1>t, <1>9, <2>1, OutsideDoes DEF EditProfile, DeleteProfile, TypeInv
<1>10. CASE DamageMetadata \/ AddLitter
  BY <1>t, <1>10, OutsideDoes DEF DamageMetadata, AddLitter, TypeInv, Litter
<1>11. CASE Upgrade
  BY <1>t, <1>11, Numbers DEF Upgrade, TypeInv, profile
<1>12. CASE Kill
  BY <1>t, <1>12, Numbers, IdleType DEF Kill, TypeInv, profile
<1>13. CASE UNCHANGED vars
  BY <1>13 DEF vars, profile, TypeInv
<1>14. QED
  BY <1>1, <1>2, <1>3, <1>4, <1>5, <1>6, <1>7, <1>8, <1>9, <1>10, <1>11, <1>12, <1>13
     DEF Next, JobStep, UserStep

-----------------------------------------------------------------------------
(* GameHub's account of its own files                                        *)

\* What is on record stays on record unless the metadata is damaged.
LEMMA OwnedStays ==
  ASSUME TypeInv, NEW owners \in SUBSET Files, Record(owners), NEW f \in Files,
         Owned(f) \/ f \in owners
  PROVE  Owned(f)'
<1>1. version # 0
  BY Numbers DEF TypeInv
<1>2. QED
  BY <1>1, RecordType DEF Owned

\* A payload that is written is one the job will record, in a run that nothing
\* disturbs; see Accounted.
LEMMA AccountStep ==
  TypeInv /\ Accounted /\ [Next]_vars => Accounted'
<1> SUFFICES ASSUME TypeInv, Accounted, [Next]_vars, edits' = 0 PROVE Accounted'
  BY DEF Accounted
<1>t. job \in JobType /\ edits \in 0 .. MaxEdits /\ text \in [Files -> Texts]
  BY DEF TypeInv
<1> DEFINE Ours(f) == text[f] # None /\ ~IsUser(text[f])
<1>a. ASSUME edits = 0, NEW f \in Files, Ours(f)
      PROVE  \/ Owned(f)
             \/ job.pc = "seed" /\ f \in job.seeded
             \/ job.pc = "record" /\ f = File
  BY <1>a DEF Accounted
<1>e. ASSUME \A f \in Files : Ours(f)' =>
                 \/ Owned(f)'
                 \/ job'.pc = "seed" /\ f \in job'.seeded
                 \/ job'.pc = "record" /\ f = File'
      PROVE  Accounted'
  BY <1>e DEF Accounted
<1> HIDE DEF Ours
<1>1. CASE \E apply, force \in BOOLEAN : StartSync(apply, force) \/ StartDoctor(apply, force)
  <2>1. job.pc = "idle" /\ UNCHANGED <<text, meta, entry, edits>>
    BY <1>1 DEF StartSync, StartDoctor, Running, profile
  <2>2. QED
    BY <1>a, <1>e, <2>1 DEF Ours, Owned
<1>2. CASE SeedProfile
  <2>1. /\ job.pc = "seed" /\ job'.pc = "seed" /\ job.seeded \subseteq job'.seeded
        /\ \A f \in Files : text'[f] = text[f] \/ f \in job'.seeded
        /\ UNCHANGED <<meta, entry, edits>>
    BY <1>2, <1>t, SeedProfileDoes DEF WriteBackedUp
  <2>2. QED
    BY <1>a, <1>e, <2>1 DEF Ours, Owned
<1>3. CASE SeedMetadata
  <2>1. job.pc = "seed" /\ UNCHANGED <<text, edits>> /\ job.seeded \in SUBSET Files
    BY <1>3, <1>t, Fields, SeedMetadataDoes
  <2>2. CASE job.seeded = {} /\ UNCHANGED <<meta, entry>>
    BY <1>a, <1>e, <2>1, <2>2 DEF Ours, Owned
  <2>3. CASE Record(job.seeded)
    BY <1>a, <1>e, <2>1, <2>3, OwnedStays DEF Ours
  <2>4. QED
    BY <1>3, <2>2, <2>3, SeedMetadataDoes
<1>4. CASE Evaluate
  <2>1. /\ job.pc = "converge" /\ UNCHANGED <<meta, entry, edits>>
        /\ \/ text' = text
           \/ /\ job'.pc = "record" /\ job'.at = job.at
              /\ \A f \in Files : text'[f] = text[f] \/ f = File
    BY <1>4, <1>t, EvaluateDoes
  <2>2. job'.at = job.at => File' = File
    BY DEF File
  <2>3. QED
    BY <1>a, <1>e, <2>1, <2>2 DEF Ours, Owned
<1>5. CASE RecordOne
  <2>1. /\ job.pc = "record" /\ UNCHANGED <<text, edits>> /\ Record({File})
        /\ {File} \in SUBSET Files
    BY <1>5, RecordOneDoes
  <2>2. QED
    BY <1>a, <1>e, <2>1, OwnedStays DEF Ours
<1>6. CASE Evaluated \/ Scan
  <2>1. job.pc \in {"converge", "scan"} /\ UNCHANGED <<text, meta, entry, edits>>
    BY <1>6 DEF Evaluated, Scan, profile
  <2>2. QED
    BY <1>a, <1>e, <2>1 DEF Ours, Owned
<1>7. CASE UserStep \/ Kill
  <2>1. edits' # 0
    <3>1. edits' = edits + 1
      BY <1>7 DEF UserStep, EditProfile, DeleteProfile, DamageMetadata, AddLitter, Outside, Kill
    <3>2. QED
      BY <1>t, <3>1, Numbers
  <2>2. QED
    BY <2>1
<1>8. CASE Upgrade \/ UNCHANGED vars
  <2>1. UNCHANGED <<text, meta, entry, edits, job>>
    BY <1>8 DEF Upgrade, vars, profile
  <2>2. File' = File
    BY <2>1 DEF File
  <2>3. QED
    BY <1>a, <1>e, <2>1, <2>2 DEF Ours, Owned
<1>9. QED
  BY <1>1, <1>2, <1>3, <1>4, <1>5, <1>6, <1>7, <1>8 DEF Next, JobStep

-----------------------------------------------------------------------------
(* What a run has dealt with                                                 *)

\* Recording another profile leaves what was dealt with as it was.
LEMMA DealtStays ==
  ASSUME TypeInv, NEW owners \in SUBSET Files, Record(owners), UNCHANGED <<version, text>>,
         job'.found = job.found, NEW f \in Files, Dealt(f)
  PROVE  Dealt(f)'
<1>1. CASE text[f] = Own(version) /\ meta = "ok" /\ entry[f] = version
  BY <1>1, RecordType DEF Dealt, Own
<1>2. CASE <<f, "unmanaged">> \in job.found
  BY <1>2 DEF Dealt
<1>3. QED
  BY <1>1, <1>2 DEF Dealt

\* Every file that a pass has left behind is settled, or was reported; see
\* Progress.
LEMMA ProgressStep ==
  TypeInv /\ Progress /\ [Next]_vars => Progress'
<1> SUFFICES ASSUME TypeInv, Progress, [Next]_vars, job'.apply, ~job'.touched PROVE Progress'
  BY DEF Progress
<1>t. /\ job \in JobType /\ edits \in 0 .. MaxEdits /\ text \in [Files -> Texts]
      /\ version \in 1 .. Versions
  BY DEF TypeInv
<1>1. ASSUME NEW apply \in BOOLEAN, NEW reseed \in BOOLEAN, StartSync(apply, reseed) PROVE Progress'
  <2>1. \E p \in {"seed", "converge"} :
            job' = [Idle EXCEPT !.pc = p, !.apply = apply, !.force = reseed]
    BY <1>1 DEF StartSync
  <2>2. job'.pc \in {"seed", "converge"} /\ job'.at = 1 /\ job'.found = {} /\ ~job'.doctor
    BY <2>1, Starts
  <2>3. QED
    BY <2>2 DEF Progress
<1>2. ASSUME NEW apply \in BOOLEAN, NEW force \in BOOLEAN, StartDoctor(apply, force) PROVE Progress'
  <2>1. job' = [Idle EXCEPT !.pc = "converge", !.apply = apply, !.force = force, !.doctor = TRUE]
    BY <1>2 DEF StartDoctor
  <2>2. job'.pc = "converge" /\ job'.at = 1 /\ job'.found = {}
    BY <2>1, Starts
  <2>3. QED
    BY <2>2 DEF Progress
<1>3. CASE SeedProfile
  BY <1>3, SeedProfileDoes DEF Progress, SameRun
<1>4. CASE SeedMetadata
  <2>1. job.pc = "seed" /\ SameRun /\ job'.pc = "converge" /\ job'.at = 1
    BY <1>4, SeedMetadataDoes
  <2>2. ~job.doctor
    BY <2>1 DEF Progress, SameRun
  <2>3. QED
    BY <2>1, <2>2 DEF Progress, SameRun
<1>5. CASE Evaluate
  <2>1. /\ job.pc = "converge" /\ SameRun /\ UNCHANGED <<version, meta, entry>>
        /\ job.at \in 1 .. Len(Order) /\ File \in Files /\ job.apply /\ ~job.touched
    BY <1>5, <1>t, FileHere, EvaluateDoes DEF SameRun
  <2>2. /\ \A i \in 1 .. job.at - 1 : Dealt(Order[i])
        /\ job.doctor /\ job.force => job.found = {}
    BY <2>1 DEF Progress
  <2>3. CASE /\ job'.pc = "record" /\ job'.at = job.at /\ job'.found = job.found
             /\ text' = [text EXCEPT ![File] = Own(version)]
    <3>1. File' = File /\ text'[File] = Own(version)
      BY <1>t, <2>1, <2>3 DEF File
    <3>2. ASSUME NEW i \in 1 .. job.at - 1 PROVE Dealt(Order[i])'
      <4>1. Order[i] \in Files
        BY <2>1, Passed
      <4>2. text'[Order[i]] = IF Order[i] = File THEN Own(version) ELSE text[Order[i]]
        BY <1>t, <2>3, <4>1
      <4>3. QED
        BY <2>1, <2>2, <2>3, <4>2 DEF Dealt, Own
    <3>3. QED
      BY <2>1, <2>2, <2>3, <3>1, <3>2 DEF Progress, SameRun, Own
  <2>4. CASE /\ job'.pc = "converge" /\ job'.at = job.at + 1 /\ text' = text
             /\ \/ Matches(File) /\ FingerprintOk(File) /\ job'.found = job.found
                \/ /\ job'.found = job.found \cup {<<File, "unmanaged">>}
                   /\ ~(job.doctor /\ job.force)
    <3>1. ASSUME NEW f \in Files, f = Order[job.at] PROVE Dealt(f)'
      BY <2>1, <2>4, <3>1 DEF Dealt, Matches, FingerprintOk, Owned, Own, File
    <3>2. \A i \in 1 .. job.at - 1 : Dealt(Order[i])'
      BY <2>1, <2>2, <2>4 DEF Dealt, Own
    <3>3. \A i \in 1 .. job'.at - 1 : i \in 1 .. job.at - 1 \/ i = job.at
      BY <2>1, <2>4, Passed
    <3>4. \A i \in 1 .. job'.at - 1 : Dealt(Order[i])'
      BY <2>1, <3>1, <3>2, <3>3 DEF File
    <3>5. QED
      BY <2>1, <2>2, <2>4, <3>4 DEF Progress, SameRun
  <2>5. QED
    BY <1>5, <2>1, <2>3, <2>4, EvaluateDoes
<1>6. CASE RecordOne
  <2>1. /\ job.pc = "record" /\ SameRun /\ job'.pc = "converge" /\ job'.at = job.at + 1
        /\ job'.found = job.found /\ UNCHANGED <<version, text>> /\ Record({File})
        /\ job.at \in 1 .. Len(Order) /\ File \in Files /\ {File} \in SUBSET Files
        /\ job.apply /\ ~job.touched
    BY <1>6, <1>t, FileHere, RecordOneDoes DEF SameRun
  <2>2. /\ \A i \in 1 .. job.at - 1 : Dealt(Order[i])
        /\ text[File] = Own(version) /\ (job.doctor /\ job.force => job.found = {})
    BY <2>1 DEF Progress
  <2>3. ASSUME NEW f \in Files, f = Order[job.at] PROVE Dealt(f)'
    <3>1. text[f] = Own(version) /\ meta' = "ok" /\ entry'[f] = version
      BY <2>1, <2>2, <2>3, RecordType DEF File
    <3>2. QED
      BY <2>1, <3>1 DEF Dealt, Own
  <2>4. ASSUME NEW i \in 1 .. job'.at - 1 PROVE Dealt(Order[i])'
    <3>1. (i \in 1 .. job.at - 1 /\ Order[i] \in Files) \/ i = job.at
      BY <2>1, Passed
    <3>2. CASE i = job.at
      BY <2>1, <2>3, <3>2 DEF File
    <3>3. CASE i \in 1 .. job.at - 1 /\ Order[i] \in Files
      <4>1. \A f \in Files : Dealt(f) => Dealt(f)'
        BY <2>1, DealtStays
      <4>2. QED
        BY <2>2, <3>3, <4>1
    <3>4. QED
      BY <3>1, <3>2, <3>3
  <2>5. QED
    BY <2>1, <2>2, <2>4 DEF Progress, SameRun
<1>7. CASE Evaluated
  <2>1. job' # Idle
    BY IdleType
  <2>2. /\ job.pc = "converge" /\ job.at > Len(Order) /\ job' = [job EXCEPT !.pc = "scan"]
        /\ UNCHANGED <<version, text, meta, entry>> /\ job.at \in 1 .. Len(Order) + 1
    BY <1>7, <1>t, <2>1, Fields DEF Evaluated, profile
  <2>3. SameRun /\ job'.pc = "scan" /\ job'.found = job.found
    BY <1>t, <2>2, Goes
  <2>4. /\ \A i \in 1 .. job.at - 1 : Dealt(Order[i])
        /\ job.doctor /\ job.force => job.found = {}
    BY <2>2, <2>3 DEF Progress, SameRun
  <2>5. ASSUME NEW f \in Files PROVE Dealt(f)'
    <3>1. PICK i \in 1 .. job.at - 1 : Order[i] = f
      BY <2>2, PassedAll
    <3>2. QED
      BY <2>2, <2>3, <2>4, <3>1 DEF Dealt, Own
  <2>6. QED
    BY <2>3, <2>4, <2>5 DEF Progress, SameRun
<1>8. CASE Scan \/ Kill
  <2>1. job' = Idle
    BY <1>8 DEF Scan, Kill
  <2>2. QED
    BY <2>1, IdleType
<1>9. CASE UserStep
  <2>1. Outside
    BY <1>9 DEF UserStep, EditProfile, DeleteProfile, DamageMetadata, AddLitter
  <2>2. job' = job /\ job.pc = "idle"
    BY <1>t, <2>1, OutsideDoes
  <2>3. QED
    BY <2>2 DEF Progress
<1>10. CASE Upgrade
  <2>1. job' = job /\ job.pc = "idle"
    BY <1>10 DEF Upgrade, Running
  <2>2. QED
    BY <2>1 DEF Progress
<1>11. CASE UNCHANGED vars
  <2>1. UNCHANGED <<job, version, text, meta, entry>>
    BY <1>11 DEF vars, profile
  <2>2. QED
    BY <2>1 DEF Progress, Dealt, File, Own
<1>12. QED
  BY <1>1, <1>2, <1>3, <1>4, <1>5, <1>6, <1>7, <1>8, <1>9, <1>10, <1>11 DEF Next, JobStep

-----------------------------------------------------------------------------
(* What the user wrote                                                       *)

\* A step that changes no text and no family keeps the user's texts.
LEMMA NothingDropped ==
  ASSUME UNCHANGED <<text, backups, archive>>, NEW f \in Files
  PROVE  UserTextsOf(f)' = UserTextsOf(f)
BY DEF UserTextsOf

\* What is written over with a backup is kept, unless its family is full.
LEMMA BackedUpKept ==
  ASSUME TypeInv, NEW g \in Files, WriteBackedUp(g), UNCHANGED archive,
         NEW f \in Files, NEW t \in UserTextsOf(f)
  PROVE  t \in UserTextsOf(f)' \/ Len(backups'[f]) = KeepLimit
<1>1. /\ text \in [Files -> Texts] /\ backups \in [Files -> Seq(Texts)]
      /\ text' = [text EXCEPT ![g] = Own(version)]
      /\ backups' = IF text[g] = None THEN backups
                    ELSE [backups EXCEPT ![g] = Push(@, text[g])]
  BY DEF TypeInv, WriteBackedUp
<1>2. /\ IsUser(t)
      /\ t \in {text[f]} \cup Range(backups[f]) \cup Range(archive[f].own) \cup archive[f].moved
  BY DEF UserTextsOf
<1>3. CASE f # g
  BY <1>1, <1>2, <1>3 DEF UserTextsOf
<1>4. CASE f = g /\ text[g] = None
  <2>1. t # text[f] /\ backups' = backups
    BY <1>1, <1>2, <1>4, TextFacts
  <2>2. QED
    BY <1>2, <2>1 DEF UserTextsOf
<1>5. CASE f = g /\ text[g] # None
  <2>1. backups'[f] = Push(backups[f], text[f])
    BY <1>1, <1>5
  <2>2. backups[f] \in Seq(Texts) /\ text[f] \in Texts
    BY <1>1
  <2>3. \/ Len(backups'[f]) = KeepLimit
        \/ Range(backups[f]) \cup {text[f]} \subseteq Range(backups'[f])
    BY <2>1, <2>2, PushKeeps
  <2>4. QED
    BY <1>2, <2>3 DEF UserTextsOf
<1>6. QED
  BY <1>3, <1>4, <1>5

\* What the forced doctor takes over goes to the archive.
LEMMA ArchivedKept ==
  ASSUME TypeInv, File \in Files, TakeOver, NEW f \in Files, NEW t \in UserTextsOf(f)
  PROVE  t \in UserTextsOf(f)' \/ Len(archive'[f].own) = KeepLimit
<1>1. /\ text \in [Files -> Texts] /\ archive \in [Files -> Archived]
      /\ text' = [text EXCEPT ![File] = Own(version)] /\ UNCHANGED backups
      /\ archive' = [archive EXCEPT ![File].own = Push(@, text[File])]
  BY DEF TypeInv, TakeOver
<1>2. /\ IsUser(t)
      /\ t \in {text[f]} \cup Range(backups[f]) \cup Range(archive[f].own) \cup archive[f].moved
  BY DEF UserTextsOf
<1>3. CASE f # File
  <2>1. text'[f] = text[f] /\ archive'[f] = archive[f]
    BY <1>1, <1>3
  <2>2. QED
    BY <1>1, <1>2, <2>1 DEF UserTextsOf
<1>4. CASE f = File
  <2>1. archive[f] \in Archived /\ text[f] \in Texts
    BY <1>1
  <2>2. archive[f].own \in Seq(Texts)
    BY <2>1 DEF Archived
  <2>3. archive'[f] = [archive[f] EXCEPT !.own = Push(archive[f].own, text[f])]
    BY <1>1, <1>4
  <2>4. archive'[f].own = Push(archive[f].own, text[f]) /\ archive'[f].moved = archive[f].moved
    BY <2>1, <2>3 DEF Archived
  <2>5. \/ Len(archive'[f].own) = KeepLimit
        \/ Range(archive[f].own) \cup {text[f]} \subseteq Range(archive'[f].own)
    BY <2>1, <2>2, <2>4, PushKeeps
  <2>6. QED
    BY <1>1, <1>2, <2>4, <2>5 DEF UserTextsOf
<1>5. QED
  BY <1>3, <1>4

\* Backups that the forced doctor moves are in the archive.
LEMMA MovedKept ==
  ASSUME TypeInv, Scan, NEW f \in Files, NEW t \in UserTextsOf(f)
  PROVE  t \in UserTextsOf(f)'
<1>1. CASE UNCHANGED <<archive, backups, litter>>
  BY <1>1, ScanDoes, NothingDropped
<1>2. CASE job.force
  <2>1. archive[f] \in Archived
    BY DEF TypeInv
  <2>2. archive'[f] = [archive[f] EXCEPT !.moved = @ \cup Range(backups[f])] /\ text' = text
    BY <1>2, ScanDoes
  <2>3. archive'[f].own = archive[f].own /\ archive'[f].moved = archive[f].moved \cup Range(backups[f])
    BY <2>1, <2>2 DEF Archived
  <2>4. QED
    BY <2>2, <2>3 DEF UserTextsOf
<1>3. QED
  BY <1>1, <1>2, ScanDoes

\* A profile of the user's that is not on record is written over on request only.
LEMMA UnownedStays ==
  ASSUME TypeInv, JobStep, ~job.force, NEW f \in Files, IsUser(text[f]), meta # "ok" \/ entry[f] = 0
  PROVE  text'[f] = text[f]
<1>1. text \in [Files -> Texts] /\ text[f] # None
  BY TextFacts DEF TypeInv
<1>2. CASE SeedProfile
  <2>1. CASE text[File] = None
    BY <1>1, <1>2, <2>1, SeedProfileDoes DEF WriteBackedUp
  <2>2. CASE text[File] # None
    BY <1>2, <2>2, SeedProfileDoes
  <2>3. QED
    BY <2>1, <2>2
<1>3. CASE Evaluate
  <2>1. CASE f = File
    <3>1. ~MayRepair(f)
      BY DEF MayRepair, Owned
    <3>2. ~Missing /\ ~Repair /\ ~TakeOver
      BY <1>1, <2>1, <3>1 DEF Missing, Repair, TakeOver
    <3>3. QED
      BY <1>3, <3>2 DEF Evaluate, Equal, Leave
  <2>2. CASE f # File
    BY <1>1, <1>3, <2>2, EvaluateDoes
  <2>3. QED
    BY <2>1, <2>2
<1>4. CASE SeedMetadata \/ RecordOne \/ Evaluated \/ Scan
  BY <1>4 DEF SeedMetadata, RecordOne, Evaluated, Scan, profile
<1>5. QED
  BY <1>2, <1>3, <1>4 DEF JobStep

\* A step of a job keeps the user's text of a file somewhere, until the keep
\* limit of its backups or its archive drops it.
LEMMA StepKeepsTexts ==
  ASSUME TypeInv, JobStep, NEW f \in Files, NEW t \in UserTextsOf(f)
  PROVE  \/ t \in UserTextsOf(f)'
         \/ Len(backups'[f]) = KeepLimit \/ Len(archive'[f].own) = KeepLimit
<1>1. CASE SeedProfile
  <2>1. CASE WriteBackedUp(File)
    BY <1>1, <2>1, SeedProfileDoes, BackedUpKept
  <2>2. CASE UNCHANGED <<text, backups>>
    BY <1>1, <2>2, SeedProfileDoes, NothingDropped
  <2>3. QED
    BY <1>1, <2>1, <2>2, SeedProfileDoes
<1>2. CASE Evaluate
  <2>1. File \in Files
    BY <1>2, EvaluateDoes
  <2>2. CASE UNCHANGED <<text, backups, archive>>
    BY <2>2, NothingDropped
  <2>3. CASE WriteBackedUp(File) /\ UNCHANGED archive
    BY <2>1, <2>3, BackedUpKept
  <2>4. CASE TakeOver
    BY <2>1, <2>4, ArchivedKept
  <2>5. CASE Missing /\ WriteNoBackup(File)
    <3>1. /\ text[File] = None /\ text' = [text EXCEPT ![File] = Own(version)]
          /\ UNCHANGED <<backups, archive>> /\ text \in [Files -> Texts]
      BY <2>5 DEF Missing, WriteNoBackup, TypeInv
    <3>2. /\ IsUser(t)
          /\ t \in {text[f]} \cup Range(backups[f]) \cup Range(archive[f].own) \cup archive[f].moved
      BY DEF UserTextsOf
    <3>3. t = text[f] => text'[f] = text[f]
      BY <3>1, <3>2, TextFacts
    <3>4. QED
      BY <3>1, <3>2, <3>3 DEF UserTextsOf
  <2>6. QED
    BY <1>2, <2>2, <2>3, <2>4, <2>5 DEF Evaluate, Missing, Equal, Repair, Leave
<1>3. CASE SeedMetadata \/ RecordOne \/ Evaluated
  <2>1. UNCHANGED <<text, backups, archive>>
    BY <1>3 DEF SeedMetadata, RecordOne, Evaluated, profile
  <2>2. QED
    BY <2>1, NothingDropped
<1>4. CASE Scan
  BY <1>4, MovedKept
<1>5. QED
  BY <1>1, <1>2, <1>3, <1>4 DEF JobStep

-----------------------------------------------------------------------------
(* Runs that settle the directory                                            *)

\* A run that ends undisturbed leaves every file its own, or reported.
LEMMA RunEndsSettled ==
  ASSUME TypeInv, Progress
  PROVE  RunSettles
<1> SUFFICES ASSUME JobStep, ~Running', ~job.touched, job.apply
             PROVE  /\ \A f \in Files :
                          \/ text'[f] = Own(version) /\ meta' = "ok" /\ entry'[f] = version
                          \/ <<f, "unmanaged">> \in job.found
                    /\ job.doctor /\ job.force => Strays' = {} /\ job.found = {}
  BY DEF RunSettles, Ends
<1>1. CASE Evaluated
  <2>1. ~job.doctor /\ UNCHANGED <<text, meta, entry>> /\ job.pc = "converge" /\ job.at > Len(Order)
    <3>1. CASE job.doctor
      <4>1. job' = [job EXCEPT !.pc = "scan"] /\ job \in JobType
        BY <1>1, <3>1 DEF Evaluated, TypeInv
      <4>2. job'.pc = "scan"
        BY <4>1 DEF JobType
      <4>3. QED
        BY <4>2 DEF Running
    <3>2. CASE ~job.doctor
      BY <1>1, <3>2 DEF Evaluated, profile
    <3>3. QED
      BY <3>1, <3>2
  <2>2. job.at \in 1 .. Len(Order) + 1
    BY Fields DEF TypeInv
  <2>3. \A i \in 1 .. job.at - 1 : Dealt(Order[i])
    BY <2>1 DEF Progress
  <2>4. \A f \in Files : Dealt(f)
    BY <2>1, <2>2, <2>3, PassedAll
  <2>5. QED
    BY <2>1, <2>4 DEF Dealt
<1>2. CASE Scan
  <2>1. (\A f \in Files : Dealt(f)) /\ UNCHANGED <<text, meta, entry>>
        /\ (job.doctor /\ job.force => job.found = {})
    BY <1>2, ScanDoes DEF Progress
  <2>2. job.force => Strays' = {}
    <3>1. ASSUME job.force PROVE litter' = {} /\ \A f \in Files : backups'[f] = <<>>
      BY <1>2, <3>1, ScanDoes
    <3>2. QED
      BY <3>1 DEF Strays
  <2>3. QED
    BY <2>1, <2>2 DEF Dealt
<1>3. CASE SeedProfile \/ SeedMetadata \/ Evaluate \/ RecordOne
  <2>1. job'.pc # "idle"
    BY <1>3, SeedProfileDoes, SeedMetadataDoes, EvaluateDoes, RecordOneDoes
  <2>2. QED
    BY <2>1 DEF Running
<1>4. QED
  BY <1>1, <1>2, <1>3 DEF JobStep

\* A run over settled files changes none.
LEMMA SettledIsLeft ==
  ASSUME TypeInv, JobStep, job.pc # "record", job.seeded = {}, ~job.force, Settled
  PROVE  UNCHANGED profile /\ job'.pc # "record"
<1>1. \A f \in Files : Matches(f) /\ FingerprintOk(f) /\ text[f] # None
  BY TextFacts DEF Settled, FingerprintOk, Matches, TypeInv
<1>2. CASE SeedProfile
  BY <1>1, <1>2, SeedProfileDoes DEF profile
<1>3. CASE SeedMetadata
  BY <1>3, SeedMetadataDoes DEF profile
<1>4. CASE Evaluate
  <2>1. File \in Files /\ job \in JobType /\ job.at <= Len(Order)
    BY <1>4, EvaluateDoes DEF TypeInv
  <2>2. Equal
    BY <1>1, <1>4, <2>1 DEF Evaluate, Missing, Repair, TakeOver, Leave
  <2>3. job' = [job EXCEPT !.at = @ + 1] /\ UNCHANGED <<text, backups, archive>>
    BY <1>1, <2>1, <2>2 DEF Equal
  <2>4. job'.pc = job.pc
    BY <2>1, <2>3, Skips
  <2>5. QED
    BY <1>4, <2>3, <2>4 DEF Evaluate, profile
<1>5. CASE Evaluated
  <2>1. job'.pc # "record"
    <3>1. CASE job' = Idle
      BY <3>1, IdleType
    <3>2. CASE job' = [job EXCEPT !.pc = "scan"]
      BY <3>2 DEF TypeInv, JobType
    <3>3. QED
      BY <1>5, <3>1, <3>2 DEF Evaluated
  <2>2. QED
    BY <1>5, <2>1 DEF Evaluated
<1>6. CASE Scan
  BY <1>6, ScanDoes, IdleType DEF profile
<1>7. QED
  BY <1>2, <1>3, <1>4, <1>5, <1>6 DEF JobStep, RecordOne

-----------------------------------------------------------------------------
(* Theorems                                                                  *)

\* All of it together holds of every reachable state.
LEMMA Invariance ==
  Spec => []IInv
<1>1. Init => IInv
  <2> SUFFICES ASSUME Init PROVE IInv
    OBVIOUS
  <2>1. text \in [Files -> Texts] /\ \A f \in Files : text[f] = None \/ IsUser(text[f])
    <3>1. (CHOOSE u \in UserTexts : TRUE) \in UserTexts
      BY ControllerAssumption
    <3>2. QED
      BY <3>1, TextFacts DEF Init
  <2>2. backups \in [Files -> Seq(Texts)] /\ \A f \in Files : Few(backups[f])
    <3>1. <<>> \in Seq(Texts) /\ Few(<<>>)
      BY Numbers DEF Few
    <3>2. QED
      BY <3>1 DEF Init
  <2>3. archive \in [Files -> Archived] /\ \A f \in Files : Few(archive[f].own)
    <3>1. /\ [own |-> <<>>, moved |-> {}] \in Archived
          /\ [own |-> <<>>, moved |-> {}].own = <<>> /\ Few(<<>>)
      BY Numbers DEF Archived, Few
    <3>2. QED
      BY <3>1 DEF Init
  <2>4. /\ version \in 1 .. Versions /\ meta = "absent" /\ entry \in [Files -> 0 .. Versions]
        /\ edits \in 0 .. MaxEdits /\ litter \subseteq Litter
    BY Numbers DEF Init
  <2>5. job \in JobType /\ job.pc = "idle" /\ job.doctor = FALSE /\ job.apply = FALSE
    BY IdleType DEF Init
  <2>6. TypeInv
    BY <2>1, <2>2, <2>3, <2>4, <2>5 DEF TypeInv
  <2>7. QED
    BY <2>1, <2>5, <2>6 DEF IInv, Accounted, Progress
<1>2. IInv /\ [Next]_vars => IInv'
  BY TypeStep, AccountStep, ProgressStep DEF IInv
<1>3. QED
  BY <1>1, <1>2, PTL DEF Spec

\* All variables are of their types, and no family of backups of a profile
\* outgrows the configured limit.
THEOREM TypeCorrect ==
  Spec => []TypeOK
<1>1. IInv => TypeOK
  <2> SUFFICES ASSUME IInv PROVE TypeOK
    OBVIOUS
  <2>1. job.at \in 1 .. Len(Order) + 1 /\ job.seeded \subseteq Files
    BY Fields DEF IInv, TypeInv
  <2>2. ASSUME NEW f \in Files
        PROVE  /\ backups[f] \in Seq(Texts) /\ Len(backups[f]) <= KeepLimit
               /\ archive[f].own \in Seq(Texts) /\ Len(archive[f].own) <= KeepLimit
               /\ archive[f].moved \subseteq Texts
    <3>1. backups[f] \in Seq(Texts) /\ Few(backups[f]) /\ archive[f] \in Archived /\ Few(archive[f].own)
      BY DEF IInv, TypeInv
    <3>2. archive[f].own \in Seq(Texts) /\ archive[f].moved \subseteq Texts
      BY <3>1 DEF Archived
    <3>3. QED
      BY <3>1, <3>2 DEF Few
  <2>3. /\ version \in 1 .. Versions /\ text \in [Files -> Texts] /\ meta \in {"absent", "ok", "broken"}
        /\ entry \in [Files -> 0 .. Versions] /\ edits \in 0 .. MaxEdits
        /\ litter \subseteq {"user file", "metadata backup"}
    BY DEF IInv, TypeInv, Litter
  <2>4. QED
    BY <2>1, <2>2, <2>3 DEF TypeOK
<1>2. QED
  BY <1>1, Invariance, PTL

\* As long as nobody interferes, and between runs, every profile that GameHub
\* wrote is on record as its own, whatever runs there were.
THEOREM OwnFilesOnRecord ==
  Spec => []NoOrphans
<1>1. IInv => NoOrphans
  BY DEF IInv, Accounted, NoOrphans, Running
<1>2. QED
  BY <1>1, Invariance, PTL

\* No step of a run loses a text of the user's while its family has room, and
\* none writes over a profile that is not on record unless it was asked to.
THEOREM TextsAreKept ==
  Spec => UserTextKept
<1>1. IInv /\ [Next]_vars =>
        [JobStep => \A f \in Files :
            /\ \A t \in UserTextsOf(f) :
                \/ t \in UserTextsOf(f)'
                \/ Len(backups'[f]) = KeepLimit \/ Len(archive'[f].own) = KeepLimit
            /\ ~job.force /\ IsUser(text[f]) /\ (meta # "ok" \/ entry[f] = 0) =>
                text'[f] = text[f]]_vars
  BY StepKeepsTexts, UnownedStays DEF IInv
<1>2. QED
  BY <1>1, Invariance, PTL DEF Spec, UserTextKept

\* A run that applies, and that nobody interferes with, ends with each profile
\* current and on record or reported as the user's; the forced doctor leaves
\* nothing else; and a run on a settled directory changes nothing.
THEOREM RunsDoSettle ==
  Spec => RunsSettle
<1>1. IInv /\ [Next]_vars =>
        [/\ RunSettles
         /\ JobStep /\ job.pc # "record" /\ job.seeded = {} /\ ~job.force /\ Settled =>
              UNCHANGED profile /\ job'.pc # "record"]_vars
  BY RunEndsSettled, SettledIsLeft DEF IInv
<1>2. QED
  BY <1>1, Invariance, PTL DEF Spec, RunsSettle

=============================================================================
