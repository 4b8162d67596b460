-------------------------- MODULE SaveDecisionCheck --------------------------
(***************************************************************************)
(* Every input of Resolve over a few contents, for TLC: one state per      *)
(* input.                                                                  *)
(***************************************************************************)
EXTENDS SaveDecision

CONSTANT Contents

ASSUME NoneIsNoContent == None \notin Contents

VARIABLES remote, local, mode, policy, lineLocal, lineRemote, unresolved, order

inputs == <<remote, local, mode, policy, lineLocal, lineRemote, unresolved, order>>

Optional == Contents \cup {None}

Init ==
  /\ remote \in Contents /\ local \in Optional
  /\ mode \in Modes /\ policy \in Policies
  /\ lineLocal \in Optional /\ lineRemote \in Optional
  /\ unresolved \in {None, Missed, "both-changed"} /\ order \in TimeOrders

Spec == Init /\ [][UNCHANGED inputs]_inputs

Outcome == Resolve(remote, local, mode, policy, lineLocal, lineRemote, unresolved, order)

-----------------------------------------------------------------------------
\* The same situation seen from the server: the sides, and what favours one of
\* them, trade places.
MirrorPolicy == CASE policy = "prefer_server" -> "prefer_local"
                  [] policy = "prefer_local" -> "prefer_server"
                  [] OTHER -> policy
MirrorOrder == CASE order = "local" -> "remote"
                 [] order = "remote" -> "local"
                 [] OTHER -> order
Mirrored == Resolve(local, remote, mode, MirrorPolicy, lineRemote, lineLocal,
                    unresolved, MirrorOrder)

\* In bidirectional mode neither side is favoured: what is a download for one
\* side is an upload for the other.
SidesAreEqual ==
  mode = "bidirectional" /\ local # None =>
    /\ Outcome.decision = "download" <=> Mirrored.decision = "upload_existing"
    /\ Outcome.decision = "upload_existing" <=> Mirrored.decision = "download"
    /\ Outcome.decision = "conflict" <=> Mirrored.decision = "conflict"

\* Under the manual policy, and unless a missed upload's time stamps decide, a
\* side is only replaced while it has the content its lineage tells, and only by
\* content its lineage does not tell.
ManualNeverGuesses ==
  policy = "manual" /\ unresolved # Missed /\ local # None =>
    /\ Outcome.decision = "download" =>
         lineRemote \notin {None, remote} /\ lineLocal \in {None, local}
    /\ Outcome.decision = "upload_existing" =>
         lineLocal \notin {None, local} /\ lineRemote \in {None, remote}

\* With a policy, no difference between the sides is left to the operator, and
\* nothing is ever uploaded in download mode.
PolicyDecides ==
  /\ policy # "manual" => Outcome.decision # "conflict"
  /\ mode = "download" => Outcome.decision \in {"skip", "download"}
  /\ mode = "download" /\ local # None => Outcome.decision = "skip"

\* The decision of every sync and session overwrites neither side by a guess.
NothingIsGuessed == SidesAreEqual /\ ManualNeverGuesses /\ PolicyDecides
=============================================================================
