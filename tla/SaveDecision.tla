---------------------------- MODULE SaveDecision -----------------------------
(***************************************************************************)
(* How a client decides what to do with one save (gamehub_cli/common/      *)
(* save_sync.py and sync/planner.py): the content on the server and in the *)
(* local file are compared with the lineage, the contents recorded when    *)
(* the two were last equal.                                                *)
(***************************************************************************)
CONSTANT None  \* no file, no save, no lineage, no unresolved conflict

Modes == {"download", "bidirectional"}
Policies == {"manual", "prefer_server", "prefer_local"}
Decisions == {"download", "skip", "upload_existing", "upload_new", "conflict"}

\* How the modification time of the local file compares with that of the
\* server's, in whole seconds; "unknown" stands for a tie and for timestamps
\* that are missing or cannot be parsed.
TimeOrders == {"local", "remote", "unknown"}

\* MISSED_POSTEXIT_UPLOAD_REASON
Missed == "missed-upload"

Decide(decision, reason) == [decision |-> decision, reason |-> reason]

\* Mutant: prefer_local counts as manual.
ByPolicyNoLocal(policy, reason) ==
  Decide(IF policy = "prefer_server" THEN "download" ELSE "conflict", reason)

\* _resolve_conflict_policy_outcome
ByPolicy(policy, reason) ==
  Decide(CASE policy = "prefer_server" -> "download"
           [] policy = "prefer_local" -> "upload_existing"
           [] OTHER -> "conflict",
         reason)

\* Mutant: a side without a lineage counts as changed.
ChangedUnknown(content, lineage) == content # lineage

\* A side without a lineage counts as unchanged.
Changed(content, lineage) == lineage # None /\ content # lineage

\* Mutant: a change on the server wins whatever happened to the local file.
ByLineageServerFirst(remote, local, policy, lineLocal, lineRemote) ==
  CASE lineLocal = None /\ lineRemote = None -> ByPolicy(policy, "lineage-missing")
    [] Changed(remote, lineRemote) -> Decide("download", "remote-changed-local-unchanged")
    [] OTHER -> Decide("upload_existing", "local-changed-remote-unchanged")

\* The two sides differ and may be written: what the lineage tells about them.
ByLineage(remote, local, policy, lineLocal, lineRemote) ==
  LET localChanged == Changed(local, lineLocal)
      remoteChanged == Changed(remote, lineRemote)
  IN CASE lineLocal = None /\ lineRemote = None -> ByPolicy(policy, "lineage-missing")
       [] localChanged /\ ~remoteChanged ->
            Decide("upload_existing", "local-changed-remote-unchanged")
       [] remoteChanged /\ ~localChanged ->
            Decide("download", "remote-changed-local-unchanged")
       [] localChanged /\ remoteChanged -> ByPolicy(policy, "both-changed")
       [] OTHER -> ByPolicy(policy, "lineage-ambiguous")

\* classify_save_action
Classify(remote, local, mode, policy, lineLocal, lineRemote) ==
  CASE local = None -> Decide("download", "local-missing")
    [] local = remote -> Decide("skip", "already-synced")
    [] mode = "download" /\ local \notin {None, remote} ->
         Decide("skip", "download-mode-local-drift")
    [] OTHER -> ByLineage(remote, local, policy, lineLocal, lineRemote)

\* resolve_missed_upload_timestamp_decision, when it decides at all
TimestampDecides(mode, unresolved, order) ==
  mode = "bidirectional" /\ unresolved = Missed /\ order # "unknown"

ByTimestamp(order) == IF order = "local"
                      THEN Decide("upload_existing", "missed-upload-local-newer")
                      ELSE Decide("download", "missed-upload-remote-newer")

TimestampReasons == {"missed-upload-local-newer", "missed-upload-remote-newer"}

\* resolve_save_action
Resolve(remote, local, mode, policy, lineLocal, lineRemote, unresolved, order) ==
  IF local \notin {None, remote} /\ TimestampDecides(mode, unresolved, order)
  THEN ByTimestamp(order)
  ELSE Classify(remote, local, mode, policy, lineLocal, lineRemote)

\* The plan for a file that the index does not know.
LocalOnly(mode) == IF mode = "download"
                   THEN Decide("skip", "download-mode-local-new")
                   ELSE Decide("upload_new", "local-only-create")
=============================================================================
