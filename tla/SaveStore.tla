------------------------------ MODULE SaveStore ------------------------------
(***************************************************************************)
(* What PUT /v1/saves/{save_id} promises its clients, without locks, files *)
(* or an index: a save is an atomic compare-and-swap register.  A request  *)
(* names the content it expects to replace (None to create the save) and   *)
(* takes effect at one instant between its submission and its reply, or    *)
(* not at all.                                                             *)
(***************************************************************************)
EXTENDS Naturals

CONSTANTS
  Saves,     \* save ids
  Contents,  \* what a save file may contain (its sha256)
  Reqs,      \* upload requests
  None       \* no content: the save does not exist

VARIABLES
  store,     \* [Saves -> content or None]
  save, expected, content,  \* per request: its arguments
  state,     \* per request: new, pending, applied, refused or failed
  current,   \* per request: the content a refusal reports
  reply      \* per request: ok, conflict, error, or None before the reply

vars == <<store, save, expected, content, state, current, reply>>
arguments == <<save, expected, content>>

Optional == Contents \cup {None}

Init ==
  /\ store \in [Saves -> Optional]
  /\ save \in [Reqs -> Saves]
  /\ expected \in [Reqs -> Optional] /\ content \in [Reqs -> Contents]
  /\ state = [r \in Reqs |-> "new"]
  /\ current = [r \in Reqs |-> None] /\ reply = [r \in Reqs |-> None]

Submit(r) ==
  /\ state[r] = "new"
  /\ state' = [state EXCEPT ![r] = "pending"]
  /\ UNCHANGED <<store, arguments, current, reply>>

\* The compare-and-swap.
Apply(r) ==
  /\ state[r] = "pending" /\ store[save[r]] = expected[r]
  /\ store' = [store EXCEPT ![save[r]] = content[r]]
  /\ state' = [state EXCEPT ![r] = "applied"]
  /\ UNCHANGED <<arguments, current, reply>>

\* A refusal is only due to other content, which it reports.
Refuse(r) ==
  /\ state[r] = "pending" /\ store[save[r]] # expected[r]
  /\ state' = [state EXCEPT ![r] = "refused"]
  /\ current' = [current EXCEPT ![r] = store[save[r]]]
  /\ UNCHANGED <<store, arguments, reply>>

\* A request may fail for other reasons, and then has no effect.
Fail(r) ==
  /\ state[r] = "pending"
  /\ state' = [state EXCEPT ![r] = "failed"]
  /\ UNCHANGED <<store, arguments, current, reply>>

\* An error reply says nothing about the effect of the request: the upload may
\* have been stored before the server failed.
Replies(r) == CASE state[r] = "applied" -> {"ok", "error"}
                [] state[r] = "refused" -> {"conflict", "error"}
                [] state[r] = "failed" -> {"error"}
                [] OTHER -> {}

Reply(r) ==
  /\ reply[r] = None
  /\ \E answer \in Replies(r) : reply' = [reply EXCEPT ![r] = answer]
  /\ UNCHANGED <<store, arguments, state, current>>

Crash ==
  /\ state' = [r \in Reqs |-> IF state[r] = "pending" THEN "failed" ELSE state[r]]
  /\ reply' = [r \in Reqs |->
       IF state[r] # "new" /\ reply[r] = None THEN "error" ELSE reply[r]]
  /\ UNCHANGED <<store, arguments, current>>

Next == Crash \/ \E r \in Reqs : Submit(r) \/ Apply(r) \/ Refuse(r) \/ Fail(r) \/ Reply(r)

Spec == Init /\ [][Next]_vars

-----------------------------------------------------------------------------
\* Two uploads based on the same version of a save cannot both be applied,
\* unless a third one restored that version in between; in particular at most
\* one request creates a save.
NoLostUpdate ==
  \A r1, r2 \in Reqs :
    /\ r1 # r2 /\ save[r1] = save[r2] /\ expected[r1] = expected[r2]
    /\ state[r1] = "applied" /\ state[r2] = "applied"
    => \E r3 \in Reqs : /\ state[r3] = "applied" /\ save[r3] = save[r1]
                        /\ content[r3] = expected[r1]
=============================================================================
