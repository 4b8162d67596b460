--------------------------- MODULE BackupRetention ---------------------------
(***************************************************************************)
(* The backups of one file (gamehub_cli/common/fsops.py, and its copy in   *)
(* gamehub_server/save_api.py): a backup is named after the second it was  *)
(* made in and a collision number, and after each new backup all but the   *)
(* KeepLimit newest names are removed.                                     *)
(***************************************************************************)
EXTENDS Naturals, FiniteSets

CONSTANTS
  KeepLimit,   \* backups to keep
  Burst,       \* bound: backups made within one second
  MaxSeconds,  \* bound: seconds
  MaxBackups   \* bound: backups

VARIABLES
  second,  \* the clock, in whole seconds
  family,  \* the backup files: their stamp and collision, and what they hold
  made,    \* observer: how many backups were made but for those made too fast;
           \* the n-th one holds content n, one made too fast content 0
  recent   \* how many backups were made in the current second

vars == <<second, family, made, recent>>

Backups == [stamp : 0..MaxSeconds, collision : 0..MaxBackups, content : 0..MaxBackups]

Init == second = 0 /\ family = {} /\ made = 0 /\ recent = 0

Tick ==
  /\ second < MaxSeconds
  /\ second' = second + 1 /\ recent' = 0
  /\ UNCHANGED <<family, made>>

\* The first name that is not taken; the one without a number counts as 0.
FreeCollision ==
  CHOOSE n \in 0..MaxBackups :
    LET taken == {b.collision : b \in {b \in family : b.stamp = second}}
    IN n \notin taken /\ \A m \in 0..(n - 1) : m \in taken

\* Mutant: names are compared by their number only.
NewerByCollision(a, b) == a.collision > b.collision

\* The order of sort_gamehub_backups: by stamp, then by collision.
Newer(a, b) == a.stamp > b.stamp \/ (a.stamp = b.stamp /\ a.collision > b.collision)

\* Mutant: one backup too many is kept.
KeptOneMore(names) == {b \in names : Cardinality({a \in names : Newer(a, b)}) <= KeepLimit}

\* prune_backup_family
Kept(names) == {b \in names : Cardinality({a \in names : Newer(a, b)}) < KeepLimit}

\* The next backup is one of the first KeepLimit + 1 of its second.
InTime == recent <= KeepLimit

\* backup_existing_file
Backup ==
  /\ made < MaxBackups /\ recent < Burst
  /\ recent' = recent + 1
  /\ made' = IF InTime THEN made + 1 ELSE made
  /\ family' = Kept(family \cup
       {[stamp |-> second, collision |-> FreeCollision,
         content |-> IF InTime THEN made + 1 ELSE 0]})
  /\ UNCHANGED second

Next == Tick \/ Backup

Spec == Init /\ [][Next]_vars

-----------------------------------------------------------------------------
\* Every name is used for one backup at a time, and the limit is kept.
TypeOK ==
  /\ second \in 0..MaxSeconds /\ made \in 0..MaxBackups /\ recent \in 0..Burst
  /\ family \subseteq Backups /\ Cardinality(family) <= KeepLimit
  /\ \A a, b \in family :
       a.stamp = b.stamp /\ a.collision = b.collision => a.content = b.content

\* What is kept are the last backups made, of those that were among the first
\* KeepLimit + 1 of their second: up to there each pushes the oldest out.  The
\* names pruned meanwhile leave the number 0 free, so the next one of that second
\* sorts below all that are kept, and is pruned as it is made, as are all after it.
KeepsNewest ==
  {b.content : b \in family} = {n \in 1..made : n + KeepLimit > made}
=============================================================================
