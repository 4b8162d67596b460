---------------------------- MODULE DeviceProofs -----------------------------
(***************************************************************************)
(* What MCDevice checks of the parts of a client on small instances, for   *)
(* every instance: the save decision for any contents, the backups for any *)
(* limit, the installation for any libraries, the exact saves for any file *)
(* names and configurations, the learned saves for any devices and titles, *)
(* the edits of a configuration for any file, and the paths of an emulator *)
(* for any hosts of the systems and emulators the code knows.              *)
(***************************************************************************)
EXTENDS Device, FiniteSetTheorems, WellFoundedInduction, Sequences, TLAPS

-----------------------------------------------------------------------------
(* The save decision.                                                      *)

\* What the names of the inputs stand for.
Inputs ==
  /\ remote \in Contents /\ local \in Optional
  /\ mode \in Modes /\ policy \in Policies
  /\ lineLocal \in Optional /\ lineRemote \in Optional
  /\ unresolved \in {None, Missed, "both-changed"} /\ order \in TimeOrders

USE DEF Decide

\* The decision of a policy.
LEMMA ByPolicyDecides ==
  ASSUME NEW p \in Policies, NEW r
  PROVE  ByPolicy(p, r).decision =
           IF p = "prefer_server" THEN "download"
           ELSE IF p = "prefer_local" THEN "upload_existing" ELSE "conflict"
  BY DEF ByPolicy, Policies

\* What the lineage decides for two sides that differ.
LineageDecision(r, l, p, ll, lr) ==
  IF Changed(l, ll) /\ ~Changed(r, lr) THEN "upload_existing"
  ELSE IF Changed(r, lr) /\ ~Changed(l, ll) THEN "download"
  ELSE ByPolicy(p, "").decision

\* LineageDecision is what ByLineage decides.
LEMMA ByLineageDecides ==
  ASSUME NEW r, NEW l, NEW p \in Policies, NEW ll, NEW lr
  PROVE  ByLineage(r, l, p, ll, lr).decision = LineageDecision(r, l, p, ll, lr)
  <1> USE DEF LineageDecision
  <1>1. \A reason : ByPolicy(p, reason).decision = ByPolicy(p, "").decision
    BY DEF ByPolicy, Policies
  <1>2. CASE ll = None /\ lr = None
    BY <1>1, <1>2 DEF ByLineage, Changed
  <1>3. CASE ~(ll = None /\ lr = None)
    <2>1. CASE Changed(l, ll) /\ ~Changed(r, lr)
      BY <1>3, <2>1 DEF ByLineage
    <2>2. CASE Changed(r, lr) /\ ~Changed(l, ll)
      BY <1>3, <2>2 DEF ByLineage
    <2>3. CASE Changed(r, lr) /\ Changed(l, ll)
      BY <1>1, <1>3, <2>3 DEF ByLineage
    <2>4. CASE ~Changed(r, lr) /\ ~Changed(l, ll)
      BY <1>1, <1>3, <2>4 DEF ByLineage
    <2> QED BY <2>1, <2>2, <2>3, <2>4
  <1> QED BY <1>2, <1>3

\* Resolve for a save that is on both sides, in bidirectional mode.
LEMMA ResolveBidirectional ==
  ASSUME NEW r, NEW l, l # None, NEW p \in Policies, NEW ll, NEW lr, NEW un, NEW o
  PROVE  Resolve(r, l, "bidirectional", p, ll, lr, un, o).decision =
           IF l = r THEN "skip"
           ELSE IF un = Missed /\ o # "unknown"
                THEN IF o = "local" THEN "upload_existing" ELSE "download"
                ELSE LineageDecision(r, l, p, ll, lr)
  <1>1. CASE l = r
    BY <1>1 DEF Resolve, Classify
  <1>2. CASE l # r /\ un = Missed /\ o # "unknown"
    BY <1>2 DEF Resolve, TimestampDecides, ByTimestamp
  <1>3. CASE l # r /\ ~(un = Missed /\ o # "unknown")
    BY <1>3, ByLineageDecides DEF Resolve, Classify, TimestampDecides
  <1> QED BY <1>1, <1>2, <1>3

\* Resolve for a save that is on both sides, in download mode.
LEMMA ResolveDownload ==
  ASSUME NEW r, NEW l, l # None, NEW p, NEW ll, NEW lr, NEW un, NEW o
  PROVE  Resolve(r, l, "download", p, ll, lr, un, o).decision = "skip"
  BY DEF Resolve, Classify, TimestampDecides

\* Resolve for a save that is only on the server.
LEMMA ResolveMissing ==
  ASSUME NEW r, r # None, NEW m, NEW p, NEW ll, NEW lr, NEW un, NEW o
  PROVE  Resolve(r, None, m, p, ll, lr, un, o).decision = "download"
  BY DEF Resolve, Classify

\* The case analysis behind SidesEqual.
LEMMA SidesAreEqualHolds ==
  ASSUME Inputs
  PROVE  SidesAreEqual
  <1> SUFFICES ASSUME mode = "bidirectional", local # None
               PROVE  /\ Outcome.decision = "download"
                           <=> Mirrored.decision = "upload_existing"
                      /\ Outcome.decision = "upload_existing"
                           <=> Mirrored.decision = "download"
                      /\ Outcome.decision = "conflict" <=> Mirrored.decision = "conflict"
    BY DEF SidesAreEqual
  <1> DEFINE yonder == Changed(local, lineLocal)
             here == Changed(remote, lineRemote)
  <1>1. policy \in Policies /\ MirrorPolicy \in Policies
    BY DEF Inputs, MirrorPolicy, Policies
  <1>2. remote # None
    BY NoneIsNoContent DEF Inputs
  <1>3. Outcome.decision =
          IF local = remote THEN "skip"
          ELSE IF unresolved = Missed /\ order # "unknown"
               THEN IF order = "local" THEN "upload_existing" ELSE "download"
               ELSE LineageDecision(remote, local, policy, lineLocal, lineRemote)
    BY <1>1, ResolveBidirectional DEF Outcome
  <1>4. Mirrored.decision =
          IF local = remote THEN "skip"
          ELSE IF unresolved = Missed /\ MirrorOrder # "unknown"
               THEN IF MirrorOrder = "local" THEN "upload_existing" ELSE "download"
               ELSE LineageDecision(local, remote, MirrorPolicy, lineRemote, lineLocal)
    BY <1>1, <1>2, ResolveBidirectional DEF Mirrored
  <1>5. CASE local = remote
    BY <1>3, <1>4, <1>5
  <1>6. CASE local # remote /\ unresolved = Missed /\ order # "unknown"
    <2>1. MirrorOrder # "unknown" /\ (MirrorOrder = "local" <=> order # "local")
      BY <1>6 DEF MirrorOrder, Inputs, TimeOrders
    <2> QED BY <1>3, <1>4, <1>6, <2>1
  <1>7. CASE local # remote /\ ~(unresolved = Missed /\ order # "unknown")
    <2>1. MirrorOrder = "unknown" <=> order = "unknown"
      BY DEF MirrorOrder, Inputs, TimeOrders
    <2>2. Outcome.decision = IF yonder /\ ~here THEN "upload_existing"
                             ELSE IF here /\ ~yonder THEN "download"
                             ELSE ByPolicy(policy, "").decision
      BY <1>3, <1>7 DEF LineageDecision
    <2>3. Mirrored.decision = IF here /\ ~yonder THEN "upload_existing"
                              ELSE IF yonder /\ ~here THEN "download"
                              ELSE ByPolicy(MirrorPolicy, "").decision
      BY <1>4, <1>7, <2>1 DEF LineageDecision
    <2>4. /\ ByPolicy(policy, "").decision = "download"
               <=> ByPolicy(MirrorPolicy, "").decision = "upload_existing"
          /\ ByPolicy(policy, "").decision = "upload_existing"
               <=> ByPolicy(MirrorPolicy, "").decision = "download"
          /\ ByPolicy(policy, "").decision = "conflict"
               <=> ByPolicy(MirrorPolicy, "").decision = "conflict"
      BY <1>1 DEF ByPolicy, MirrorPolicy, Policies
    <2> QED BY <2>2, <2>3, <2>4
  <1> QED BY <1>5, <1>6, <1>7

\* The case analysis behind ManualIsSafe.
LEMMA ManualNeverGuessesHolds ==
  ASSUME Inputs
  PROVE  ManualNeverGuesses
  <1> SUFFICES ASSUME policy = "manual", unresolved # Missed, local # None
               PROVE  /\ Outcome.decision = "download" =>
                           lineRemote \notin {None, remote} /\ lineLocal \in {None, local}
                      /\ Outcome.decision = "upload_existing" =>
                           lineLocal \notin {None, local} /\ lineRemote \in {None, remote}
    BY DEF ManualNeverGuesses
  <1>1. policy \in Policies
    BY DEF Policies
  <1>2. CASE mode = "download"
    BY <1>2, ResolveDownload DEF Outcome
  <1>3. CASE mode = "bidirectional"
    <2>1. Outcome.decision = IF local = remote THEN "skip"
                             ELSE LineageDecision(remote, local, policy, lineLocal, lineRemote)
      BY <1>1, <1>3, ResolveBidirectional DEF Outcome
    <2>2. ByPolicy(policy, "").decision = "conflict"
      BY DEF ByPolicy
    <2>3. local # remote =>
            Outcome.decision =
              IF Changed(local, lineLocal) /\ ~Changed(remote, lineRemote)
              THEN "upload_existing"
              ELSE IF Changed(remote, lineRemote) /\ ~Changed(local, lineLocal)
                   THEN "download" ELSE "conflict"
      BY <2>1, <2>2 DEF LineageDecision
    <2> QED BY <2>1, <2>3 DEF Changed
  <1> QED BY <1>2, <1>3 DEF Inputs, Modes

\* The case analysis behind PoliciesDecide.
LEMMA PolicyDecidesHolds ==
  ASSUME Inputs
  PROVE  PolicyDecides
  <1>1. policy \in Policies /\ remote # None
    BY NoneIsNoContent DEF Inputs
  <1>2. CASE local = None
    <2>1. Outcome.decision = "download"
      BY <1>1, <1>2, ResolveMissing DEF Outcome
    <2> QED BY <1>2, <2>1 DEF PolicyDecides
  <1>3. CASE local # None /\ mode = "download"
    <2>1. Outcome.decision = "skip"
      BY <1>3, ResolveDownload DEF Outcome
    <2> QED BY <2>1 DEF PolicyDecides
  <1>4. CASE local # None /\ mode = "bidirectional"
    <2>1. ASSUME policy # "manual" PROVE Outcome.decision # "conflict"
      <3>1. ByPolicy(policy, "").decision # "conflict"
        BY <1>1, <2>1 DEF ByPolicy, Policies
      <3>2. LineageDecision(remote, local, policy, lineLocal, lineRemote) # "conflict"
        BY <3>1 DEF LineageDecision
      <3>3. Outcome.decision =
              IF local = remote THEN "skip"
              ELSE IF unresolved = Missed /\ order # "unknown"
                   THEN IF order = "local" THEN "upload_existing" ELSE "download"
                   ELSE LineageDecision(remote, local, policy, lineLocal, lineRemote)
        BY <1>1, <1>4, ResolveBidirectional DEF Outcome
      <3> QED BY <3>2, <3>3
    <2> QED BY <1>4, <2>1 DEF PolicyDecides
  <1> QED BY <1>2, <1>3, <1>4 DEF Inputs, Modes

\* The inputs never change.
LEMMA InputsFixed == Spec => []Inputs
  <1>1. Init => Inputs BY DEF Init, Inputs
  <1>2. Inputs /\ [UNCHANGED inputs]_inputs => Inputs' BY DEF Inputs, inputs
  <1> QED BY <1>1, <1>2, PTL DEF Spec

\* Bidirectional decisions favour neither side, whatever the contents.
THEOREM SidesEqual == Spec => []SidesAreEqual
  <1>1. Inputs => SidesAreEqual
    BY SidesAreEqualHolds
  <1> QED BY <1>1, InputsFixed, PTL

\* The manual policy never replaces a side its lineage does not vouch for.
THEOREM ManualIsSafe == Spec => []ManualNeverGuesses
  <1>1. Inputs => ManualNeverGuesses
    BY ManualNeverGuessesHolds
  <1> QED BY <1>1, InputsFixed, PTL

\* The other policies leave nothing to the operator; download mode only adds.
THEOREM PoliciesDecide == Spec => []PolicyDecides
  <1>1. Inputs => PolicyDecides
    BY PolicyDecidesHolds
  <1> QED BY <1>1, InputsFixed, PTL

\* ... and together: for every input the decision overwrites neither side by a
\* guess.
THEOREM DecisionIsSound == Spec => []NothingIsGuessed
  BY SidesEqual, ManualIsSafe, PoliciesDecide, PTL DEF NothingIsGuessed

-----------------------------------------------------------------------------
(* The backups of a file.                                                  *)

Limits ==
  /\ KeepLimit \in Nat \ {0} /\ Burst \in Nat
  /\ MaxSeconds \in Nat /\ MaxBackups \in Nat

\* Backups are told apart by what they hold, and their names are in the order
\* they were made in.
Ordered(names) ==
  /\ \A a, b \in names : a.content = b.content => a = b
  /\ \A a, b \in names : a.content > b.content => Backups!Newer(a, b)

\* Those of the current second that were in time.
InSecond == IF recent <= KeepLimit THEN recent ELSE KeepLimit + 1

\* The names of the current second are numbered without a gap.
Numbered ==
  \A b \in backups :
    /\ b.stamp <= second
    /\ b.stamp = second <=> b.content + InSecond > made
    /\ b.stamp = second => b.collision + made + 1 = b.content + InSecond

BackupInv ==
  /\ second \in 0..MaxSeconds /\ made \in 0..MaxBackups /\ recent \in 0..Burst
  /\ InSecond <= made /\ backups \subseteq Backups!Backups
  /\ Backups!KeepsNewest /\ Ordered(backups) /\ Numbered

\* The module of the backups counts as this one does.
LEMMA SameCount == \A S : Backups!Cardinality(S) = Cardinality(S)
  BY DEF Backups!Cardinality, Cardinality

\* As many backups are newer than one as were made after it.
LEMMA NewerAreCounted ==
  ASSUME NEW names \in SUBSET [stamp : Nat, collision : Nat, content : Nat], Ordered(names),
         NEW m \in Nat, NEW low \in Nat,
         \A b \in names : b.content > low /\ b.content <= m,
         \A n \in low + 1 .. m : \E b \in names : b.content = n,
         NEW c \in low..m
  PROVE  LET newer == {a \in names : a.content > c}
         IN  IsFiniteSet(newer) /\ Cardinality(newer) = m - c
  <1> DEFINE newer == {a \in names : a.content > c}
             held == c + 1 .. m
             g == [n \in held |-> CHOOSE a \in newer : a.content = n]
  <1>1. IsFiniteSet(held) /\ Cardinality(held) = m - c
    <2>1. c + 1 \in Int /\ m \in Int /\ c <= m /\ c \in Nat
      OBVIOUS
    <2>2. IsFiniteSet(held) /\ Cardinality(held) = IF c + 1 > m THEN 0 ELSE m - (c + 1) + 1
      BY <2>1, FS_Interval
    <2> QED BY <2>1, <2>2
  <1>2. \A n \in held : \E a \in newer : a.content = n
    <2> TAKE n \in held
    <2>1. n \in low + 1 .. m /\ n > c
      OBVIOUS
    <2> QED BY <2>1
  <1>3. \A n \in held : g[n] \in newer /\ g[n].content = n
    BY <1>2
  <1>4. \A a \in newer : a.content \in held /\ g[a.content] = a
    <2> TAKE a \in newer
    <2>1. a.content \in Nat /\ a.content > c /\ a.content <= m
      OBVIOUS
    <2>2. a.content \in held
      BY <2>1
    <2>3. g[a.content] \in names /\ g[a.content].content = a.content
      BY <1>3, <2>2
    <2> QED BY <2>2, <2>3 DEF Ordered
  <1>5. g \in Bijection(held, newer)
    <2>1. g \in [held -> newer]
      BY <1>3
    <2>2. IsInjective(g)
      BY <1>3, <2>1 DEF IsInjective
    <2> HIDE DEF g
    <2> QED BY <1>4, <2>1, <2>2 DEF Bijection, Injection, Surjection
  <1>6. ExistsBijection(held, newer)
    BY <1>5 DEF ExistsBijection
  <1> HIDE DEF held, newer
  <1>7. IsFiniteSet(newer) /\ Cardinality(newer) = Cardinality(held)
    BY <1>1, <1>6, FS_Bijection
  <1> QED BY <1>1, <1>7 DEF newer

\* While no backup of this second is pruned, the next number is the number of
\* backups made in it.
LEMMA FreeIsNext ==
  ASSUME Limits, BackupInv, recent <= KeepLimit, made < MaxBackups
  PROVE  Backups!FreeCollision = recent
  <1> DEFINE taken == {b.collision : b \in {b \in backups : b.stamp = second}}
             IsFree(n) == n \notin taken /\ \A m \in 0..(n - 1) : m \in taken
  <1>0. /\ KeepLimit \in Nat /\ MaxBackups \in Nat /\ made \in Nat /\ recent \in Nat
        /\ recent <= made /\ InSecond = recent
    BY DEF Limits, BackupInv, InSecond
  <1>1. \A b \in backups : b.collision \in Nat /\ b.content \in 1..made
    BY DEF BackupInv, Backups!Backups, Backups!KeepsNewest
  <1>2. ASSUME NEW n \in taken PROVE n \in 0..(recent - 1)
    <2>1. PICK b \in backups : b.stamp = second /\ n = b.collision
      BY <1>2
    <2>2. b.content + recent > made /\ b.collision + made + 1 = b.content + recent
      BY <1>0, <2>1 DEF BackupInv, Numbered
    <2> QED BY <1>0, <1>1, <2>1, <2>2
  <1>3. ASSUME NEW n \in 0..(recent - 1) PROVE n \in taken
    <2> DEFINE c == n + made + 1 - recent
    <2>1. c \in {k \in 1..made : k + KeepLimit > made}
      BY <1>0
    <2>2. PICK b \in backups : b.content = c
      BY <2>1 DEF BackupInv, Backups!KeepsNewest
    <2>3. b.stamp = second /\ b.collision + made + 1 = b.content + recent
      BY <1>0, <2>2 DEF BackupInv, Numbered
    <2>4. b.collision = n
      BY <1>0, <1>1, <2>2, <2>3
    <2> QED BY <2>3, <2>4
  <1>4. taken = 0..(recent - 1)
    BY <1>2, <1>3
  <1> HIDE DEF taken
  <1>5. recent \in 0..MaxBackups /\ IsFree(recent)
    BY <1>0, <1>4
  <1>6. \A n \in 0..MaxBackups : IsFree(n) => n = recent
    BY <1>0, <1>4
  <1>7. (CHOOSE n \in 0..MaxBackups : IsFree(n)) = recent
    BY <1>5, <1>6
  <1> QED BY <1>7 DEF Backups!FreeCollision, taken

\* The clock starts new names.
LEMMA TickKeeps ==
  ASSUME Limits, BackupInv, Backups!Tick
  PROVE  BackupInv'
  <1>1. \A b \in backups : b.content \in Nat /\ b.content <= made /\ b.stamp \in Nat
    BY DEF BackupInv, Backups!Backups, Backups!KeepsNewest
  <1>2. Numbered'
    BY <1>1 DEF Limits, Backups!Tick, BackupInv, Numbered, InSecond
  <1>3. Backups!KeepsNewest' /\ Ordered(backups)'
    BY DEF Backups!Tick, BackupInv, Backups!KeepsNewest, Ordered
  <1> QED BY <1>2, <1>3 DEF Backups!Tick, BackupInv, Limits, InSecond

\* A backup in time replaces the oldest one that is kept, and only that.
LEMMA InTimeKeeps ==
  ASSUME Limits, BackupInv, Backups!Backup, Backups!InTime
  PROVE  BackupInv'
  <1> DEFINE new == [stamp |-> second, collision |-> recent, content |-> made + 1]
             names == backups \cup {new}
             low == IF made < KeepLimit THEN 0 ELSE made - KeepLimit
  <1>0. /\ KeepLimit \in Nat \ {0} /\ made \in Nat /\ recent \in Nat /\ second \in Nat
        /\ MaxBackups \in Nat /\ MaxSeconds \in Nat /\ Burst \in Nat
        /\ made < MaxBackups /\ recent < Burst /\ recent <= KeepLimit /\ recent <= made
        /\ made' = made + 1 /\ recent' = recent + 1 /\ second' = second
        /\ InSecond = recent /\ InSecond' = recent + 1
    BY DEF Limits, BackupInv, Backups!Backup, Backups!InTime, InSecond
  <1>1. backups' = Backups!Kept(names)
    BY <1>0, FreeIsNext DEF Backups!Backup, Backups!InTime
  <1>2. \A b \in backups : /\ b.stamp \in Nat /\ b.collision \in Nat /\ b.content \in Nat
                           /\ b.content <= made /\ b.content > low
                           /\ b \in [stamp : Nat, collision : Nat, content : Nat]
    <2> TAKE b \in backups
    <2>1. b \in [stamp : 0..MaxSeconds, collision : 0..MaxBackups, content : 0..MaxBackups]
      BY DEF BackupInv, Backups!Backups
    <2>2. b.content \in {n \in 1..made : n + KeepLimit > made}
      BY DEF BackupInv, Backups!KeepsNewest
    <2> QED BY <1>0, <2>1, <2>2
  <1>3. names \in SUBSET [stamp : Nat, collision : Nat, content : Nat]
    BY <1>0, <1>2
  <1>4. \A b \in backups : Backups!Newer(new, b)
    BY <1>0, <1>2 DEF BackupInv, Numbered, Backups!Newer
  <1>5. Ordered(names)
    BY <1>0, <1>2, <1>4 DEF BackupInv, Ordered
  <1>6. \A a, b \in names : Backups!Newer(a, b) <=> a.content > b.content
    BY <1>3, <1>5 DEF Ordered, Backups!Newer
  <1>7. /\ \A b \in names : b.content > low /\ b.content <= made + 1
        /\ \A n \in low + 1 .. made + 1 : \E b \in names : b.content = n
    <2>1. \A n \in low + 1 .. made : n \in {k \in 1..made : k + KeepLimit > made}
      BY <1>0
    <2> HIDE DEF low
    <2>2. ASSUME NEW n \in low + 1 .. made PROVE \E b \in backups : b.content = n
      BY <2>1 DEF BackupInv, Backups!KeepsNewest
    <2> USE DEF low
    <2>3. \A n \in low + 1 .. made + 1 : n \in low + 1 .. made \/ n = new.content
      BY <1>0
    <2>4. \A b \in names : b.content > low /\ b.content <= made + 1
      BY <1>0, <1>2
    <2> HIDE DEF low, new
    <2> QED BY <2>2, <2>3, <2>4
  <1>8. \A b \in names : b \in backups' <=> b.content + KeepLimit > made + 1
    <2>1. low \in Nat
      BY <1>0
    <2>2. PICK m \in Nat : m = made + 1
      BY <1>0
    <2>3. /\ \A b \in names : b.content > low /\ b.content <= m
          /\ \A n \in low + 1 .. m : \E b \in names : b.content = n
      BY <1>7, <2>2
    <2>4. ASSUME NEW b \in names, NEW c, c = b.content
          PROVE  b \in backups' <=> c + KeepLimit > m
      <3>1. c \in low..m
        BY <1>0, <1>3, <2>3, <2>4
      <3>2. {a \in names : Backups!Newer(a, b)} = {a \in names : a.content > c}
        BY <1>6, <2>4
      <3> HIDE DEF names, low
      <3>3. Cardinality({a \in names : a.content > c}) = m - c
        BY <1>3, <1>5, <2>1, <2>3, <3>1, NewerAreCounted
      <3>4. b \in backups' <=> m - c < KeepLimit
        BY <1>1, <2>4, <3>2, <3>3, SameCount DEF Backups!Kept
      <3> QED BY <1>0, <2>1, <3>1, <3>4
    <2> QED BY <2>2, <2>4
  <1>9. backups' \subseteq names
    BY <1>1 DEF Backups!Kept
  <1>10. backups' \subseteq Backups!Backups
    BY <1>0, <1>9 DEF BackupInv, Backups!Backups
  <1>11. Backups!KeepsNewest'
    <2>1. ASSUME NEW n \in 1..(made + 1), n + KeepLimit > made + 1
          PROVE  \E b \in backups' : b.content = n
      <3>1. n \in low + 1 .. made + 1
        BY <1>0, <2>1
      <3>2. PICK b \in names : b.content = n
        BY <1>7, <2>1, <3>1
      <3> QED BY <1>8, <2>1, <3>2
    <2>2. ASSUME NEW b \in backups'
          PROVE  b.content \in 1..(made + 1) /\ b.content + KeepLimit > made + 1
      BY <1>0, <1>3, <1>7, <1>8, <1>9, <2>2
    <2> QED BY <1>0, <2>1, <2>2 DEF Backups!KeepsNewest
  <1>12. Ordered(backups)'
    BY <1>5, <1>9 DEF Ordered
  <1>13. Numbered'
    <2>1. \A b \in backups : /\ b.stamp <= second
                             /\ b.stamp = second <=> b.content + (recent + 1) > made + 1
                             /\ b.stamp = second =>
                                  b.collision + (made + 1) + 1 = b.content + (recent + 1)
      BY <1>0, <1>2 DEF BackupInv, Numbered
    <2> QED BY <1>0, <1>9, <2>1 DEF Numbered
  <1> QED BY <1>0, <1>10, <1>11, <1>12, <1>13 DEF BackupInv

\* One that is not takes the number 0 and is pruned at once: nothing is replaced.
LEMMA TooFastIsLost ==
  ASSUME Limits, BackupInv, Backups!Backup, ~Backups!InTime
  PROVE  BackupInv'
  <1> DEFINE new == [stamp |-> second, collision |-> 0, content |-> 0]
             names == backups \cup {new}
  <1>0. PICK low \in Nat : low = made - KeepLimit
    <2>1. made - KeepLimit \in Nat
      BY DEF Limits, BackupInv, Backups!InTime, InSecond
    <2> QED BY <2>1
  <1>1. /\ KeepLimit \in Nat \ {0} /\ made \in Nat /\ recent \in Nat /\ second \in Nat
        /\ MaxBackups \in Nat /\ MaxSeconds \in Nat /\ Burst \in Nat
        /\ InSecond = KeepLimit + 1 /\ InSecond' = KeepLimit + 1 /\ InSecond <= made
        /\ made' = made /\ recent' = recent + 1 /\ recent' \in 0..Burst /\ second' = second
    BY DEF Limits, BackupInv, Backups!Backup, Backups!InTime, InSecond
  <1>2. \A b \in backups : /\ b \in [stamp : Nat, collision : Nat, content : Nat]
                           /\ b.content <= made /\ b.content > low
                           /\ b.stamp = second /\ b.collision > 0
    <2> TAKE b \in backups
    <2>1. b \in [stamp : 0..MaxSeconds, collision : 0..MaxBackups, content : 0..MaxBackups]
      BY DEF BackupInv, Backups!Backups
    <2>2. b.content \in {n \in 1..made : n + KeepLimit > made}
      BY DEF BackupInv, Backups!KeepsNewest
    <2>3. /\ b.stamp = second <=> b.content + InSecond > made
          /\ b.stamp = second => b.collision + made + 1 = b.content + InSecond
      BY DEF BackupInv, Numbered
    <2> QED BY <1>0, <1>1, <2>1, <2>2, <2>3
  <1>3. Backups!FreeCollision = 0
    <2> DEFINE taken == {b.collision : b \in {b \in backups : b.stamp = second}}
               IsFree(n) == n \notin taken /\ \A m \in 0..(n - 1) : m \in taken
    <2>1. 0 \notin taken
      BY <1>2
    <2> HIDE DEF taken
    <2>2. 0 \in 0..MaxBackups /\ IsFree(0)
      BY <1>1, <2>1
    <2>3. \A n \in 0..MaxBackups : IsFree(n) => n = 0
      BY <1>1, <2>1
    <2>4. (CHOOSE n \in 0..MaxBackups : IsFree(n)) = 0
      BY <2>2, <2>3
    <2> QED BY <2>4 DEF Backups!FreeCollision, taken
  <1>4. backups' = Backups!Kept(names)
    BY <1>3 DEF Backups!Backup
  <1>5. \A n \in low + 1 .. made : \E b \in backups : b.content = n
    <2>1. \A n \in low + 1 .. made : n \in {k \in 1..made : k + KeepLimit > made}
      BY <1>0, <1>1
    <2> QED BY <2>1 DEF BackupInv, Backups!KeepsNewest
  <1>6. backups \in SUBSET [stamp : Nat, collision : Nat, content : Nat] /\ Ordered(backups)
    BY <1>2 DEF BackupInv
  <1>7. ASSUME NEW c \in low..made
        PROVE  Cardinality({a \in backups : a.content > c}) = made - c
    <2>1. \A b \in backups : b.content > low /\ b.content <= made
      BY <1>2
    <2>2. made \in Nat /\ low \in Nat /\ c \in low..made
      BY <1>0, <1>1
    <2> QED BY ONLY <1>5, <1>6, <2>1, <2>2, NewerAreCounted
  <1>8. \A b \in backups : Backups!Newer(b, new) /\ ~Backups!Newer(new, b)
    BY <1>1, <1>2 DEF Backups!Newer
  <1>9. new \notin Backups!Kept(names)
    <2>1. ~Backups!Newer(new, new)
      BY <1>1 DEF Backups!Newer
    <2>2. {a \in names : Backups!Newer(a, new)} = {a \in backups : a.content > low}
      BY <1>2, <1>8, <2>1
    <2>3. low \in low..made /\ made - low = KeepLimit
      BY <1>0, <1>1
    <2> HIDE DEF new, names
    <2> QED BY <1>1, <1>7, <2>2, <2>3, SameCount DEF Backups!Kept
  <1>10. ASSUME NEW b \in backups PROVE b \in Backups!Kept(names)
    <2>1. PICK c \in low..made : c = b.content /\ c > low
      BY <1>0, <1>1, <1>2
    <2>2. \A a \in backups : Backups!Newer(a, b) <=> a.content > c
      BY <1>2, <1>6, <2>1 DEF Ordered, Backups!Newer
    <2>3. {a \in names : Backups!Newer(a, b)} = {a \in backups : a.content > c}
      BY <1>8, <2>2
    <2>4. made - c < KeepLimit
      BY <1>0, <1>1, <2>1
    <2>5. Backups!Cardinality({a \in names : Backups!Newer(a, b)}) < KeepLimit
      BY <1>7, <2>3, <2>4, SameCount
    <2> QED BY <2>5 DEF Backups!Kept
  <1>11. backups' = backups
    BY <1>4, <1>9, <1>10 DEF Backups!Kept
  <1> HIDE DEF new, names
  <1>12. Numbered'
    BY <1>1, <1>11 DEF BackupInv, Numbered
  <1>13. Backups!KeepsNewest' /\ Ordered(backups)'
    BY <1>1, <1>11 DEF BackupInv, Backups!KeepsNewest, Ordered
  <1> QED BY <1>1, <1>11, <1>12, <1>13 DEF BackupInv

LEMMA BackupStep == Limits /\ BackupInv /\ [Backups!Next]_Backups!vars => BackupInv'
  <1>1. BackupInv /\ UNCHANGED Backups!vars => BackupInv'
    BY DEF Backups!vars, BackupInv, Backups!KeepsNewest, Ordered, Numbered, InSecond
  <1> QED BY <1>1, TickKeeps, InTimeKeeps, TooFastIsLost DEF Backups!Next

LEMMA BackupInvariant ==
  ASSUME Limits
  PROVE  Backups!Spec => []BackupInv
  <1>1. Backups!Init => BackupInv
    BY DEF Limits, Backups!Init, BackupInv, Backups!KeepsNewest, Ordered, Numbered, InSecond
  <1>2. BackupInv /\ [Backups!Next]_Backups!vars => BackupInv'
    BY BackupStep
  <1> QED BY <1>1, <1>2, PTL DEF Backups!Spec

\* What is kept of a file are its last backups, whatever the limit and however
\* many are made, but for those after the first KeepLimit + 1 of one second.
THEOREM LastBackupsAreKept ==
  ASSUME Limits
  PROVE  Backups!Spec => []Backups!KeepsNewest
  <1>1. BackupInv => Backups!KeepsNewest
    BY DEF BackupInv
  <1> QED BY <1>1, BackupInvariant, PTL

\* A name stands for one backup, and there are no more of them than the limit.
THEOREM BackupTypes ==
  ASSUME Limits
  PROVE  Backups!Spec => []Backups!TypeOK
  <1>1. ASSUME BackupInv PROVE Backups!TypeOK
    <2> DEFINE low == IF made < KeepLimit THEN 0 ELSE made - KeepLimit
    <2>0. KeepLimit \in Nat \ {0} /\ made \in Nat /\ low \in 0..made /\ low \in Nat
      BY <1>1 DEF Limits, BackupInv
    <2>1. backups \in SUBSET [stamp : Nat, collision : Nat, content : Nat]
      BY <1>1 DEF Limits, BackupInv, Backups!Backups
    <2>2. /\ \A b \in backups : b.content > low /\ b.content <= made
          /\ \A n \in low + 1 .. made : \E b \in backups : b.content = n
      <3>1. \A b \in backups : b.content \in {n \in 1..made : n + KeepLimit > made}
        BY <1>1 DEF BackupInv, Backups!KeepsNewest
      <3>2. \A n \in low + 1 .. made : n \in {k \in 1..made : k + KeepLimit > made}
        BY <2>0
      <3>3. \A n \in low + 1 .. made : \E b \in backups : b.content = n
        BY <1>1, <3>2 DEF BackupInv, Backups!KeepsNewest
      <3> QED BY <2>0, <3>1, <3>3
    <2>3. {a \in backups : a.content > low} = backups
      BY <2>2
    <2>4. low \in low..made
      BY <2>0
    <2> HIDE DEF low
    <2>5. Cardinality(backups) = made - low
      <3>1. Ordered(backups)
        BY <1>1 DEF BackupInv
      <3>2. Cardinality({a \in backups : a.content > low}) = made - low
        BY ONLY <2>0, <2>1, <2>2, <2>4, <3>1, NewerAreCounted
      <3> QED BY <2>3, <3>2
    <2>6. made - low <= KeepLimit
      BY <2>0 DEF low
    <2>7. ASSUME NEW a \in backups, NEW b \in backups, a.stamp = b.stamp, a.collision = b.collision
          PROVE  a.content = b.content
      <3>1. a.content \in Nat /\ b.content \in Nat /\ a.collision \in Nat /\ a.stamp \in Nat
        BY <2>1
      <3>2. ~(a.content < b.content) /\ ~(b.content < a.content)
        BY <1>1, <2>7, <3>1 DEF BackupInv, Ordered, Backups!Newer
      <3> QED BY <3>1, <3>2
    <2> QED BY <1>1, <2>5, <2>6, <2>7, SameCount DEF BackupInv, Backups!TypeOK
  <1> QED BY <1>1, BackupInvariant, PTL

-----------------------------------------------------------------------------
(* The installation of emulators.                                          *)

\* The systems there are, and the names a library may require.
EmulatorNames == Install!Kinds \cup {"path"}
Libraries ==
  /\ Hosts \subseteq {"nt", "linux", "darwin"}
  /\ \A r \in Needs : r \in Seq(EmulatorNames)

\* A set of numbers has a smallest one.
LEMMA Smallest ==
  ASSUME NEW T \in SUBSET Nat, T # {}
  PROVE  \E n \in T : \A m \in T : n <= m
  <1> DEFINE R == {p \in Nat \X Nat : p[1] < p[2]}
  <1>1. IsWellFoundedOn(R, Nat)
    BY NatLessThanWellFounded DEF OpToRel
  <1>2. T \subseteq Nat
    OBVIOUS
  <1>3. \E x \in T : \A y \in T : ~(<<y, x>> \in R)
    <2> HIDE DEF R
    <2> QED BY ONLY <1>1, <1>2, T # {}, WFMin
  <1>4. \A x, y \in Nat : y < x => <<y, x>> \in R
    OBVIOUS
  <1>5. \A x, y \in Nat : ~(y < x) => x <= y
    OBVIOUS
  <1> HIDE DEF R
  <1> QED BY <1>2, <1>3, <1>4, <1>5

\* The place of the first of these elements in a sequence, if there is one.
LEMMA FirstIs ==
  ASSUME NEW E, NEW s \in Seq(E), NEW T, NEW i, i = Install!FirstIn(s, T)
  PROVE  IF \E j \in 1 .. Len(s) : s[j] \in T
         THEN i \in 1 .. Len(s) /\ s[i] \in T /\ \A j \in 1 .. Len(s) : s[j] \in T => i <= j
         ELSE i = 0
  <1> DEFINE I == {j \in 1 .. Len(s) : s[j] \in T}
  <1>1. i = IF I # {} THEN CHOOSE x \in I : \A y \in I : x =< y ELSE 0
    BY DEF Install!FirstIn, Install!SelectInSeq, Install!Min
  <1>2. I \in SUBSET Nat
    OBVIOUS
  <1>3. I # {} => \E x \in I : \A y \in I : x <= y
    <2> HIDE DEF I
    <2> QED BY <1>2, Smallest
  <1>4. I # {} => i \in I /\ \A y \in I : i <= y
    <2> HIDE DEF I
    <2> QED BY <1>1, <1>3
  <1> QED BY <1>1, <1>4

\* Everything the installation works on is of its type.
InstallTypes ==
  /\ host \in UNION {Install!HostsOf(o) : o \in Hosts} /\ required \in Needs
  /\ tree \in [Install!Kinds -> SUBSET {"exe", "rest", "user", "intel"}]
  /\ system \subseteq Install!Kinds /\ own \in BOOLEAN
  /\ pc \in {"idle", "next", "removing", "copying", "staged", "aside", "done", "raised"}
  /\ left \subseteq Install!ToSet(required) /\ failed \subseteq Install!ToSet(required)
  /\ before \subseteq Install!Kinds
  /\ staged \in SUBSET {"exe", "rest", "user", "intel"} /\ backup \in SUBSET {"exe", "rest", "user", "intel"}

\* Where a sync is in an installation.
InstallControl ==
  /\ pc \in {"removing", "copying", "staged", "aside"} => left # {}
  /\ pc \in {"removing", "copying"} => Install!os = "nt" /\ Install!e0 = "dolphin"
  /\ pc \in {"staged", "aside"} => Install!os = "darwin" /\ staged = {"exe", "rest"}
  /\ pc \notin {"staged", "aside"} => staged = {}
  /\ pc = "aside" => tree[Install!k0] = {}
  /\ pc # "aside" => backup = {}

\* A bundle that was moved aside is whole as well, and only Dolphin on Windows
\* has data of the user.
InstallTrees ==
  /\ Install!HalfIsSeen
  /\ "exe" \in backup => "rest" \in backup
  /\ Install!os # "nt" => "user" \notin backup /\ \A k \in Install!Kinds : "user" \notin tree[k]

\* What is left to install is missing, and what is missing is left to install,
\* or failed.
InSync == pc \in {"next", "removing", "copying", "staged", "aside"}
InstallMissing ==
  /\ Install!os = "nt" /\ pc \in {"next", "removing"} => \A e \in left : ~Install!Available(e)
  /\ Install!os = "nt" /\ pc = "copying" => \A e \in left : e # "dolphin" => ~Install!Available(e)
  /\ InSync \/ pc = "done" =>
       \A e \in Install!Missing :
         \/ e = "path" \/ Install!Forced(e)
         \/ \E f \in left \cup failed : Install!KindOf(f) = Install!KindOf(e)
  /\ pc = "done" => left = {}
  /\ Install!ForcedIsFlatpak

\* A bundle that was there is where it was, or aside.
InstallBundles ==
  /\ Install!os = "darwin" /\ pc # "aside" => \A k \in before : tree[k] # {}
  /\ Install!os = "darwin" /\ pc = "aside" =>
       \A k \in before : IF k = Install!k0 THEN backup # {} ELSE tree[k] # {}

InstallInv ==
  InstallTypes /\ InstallControl /\ InstallTrees /\ InstallMissing /\ InstallBundles

\* The systems, and the installers of each.
LEMMA HostIs ==
  ASSUME Libraries, InstallTypes
  PROVE  /\ Install!os \in {"nt", "linux", "darwin"}
         /\ Install!os = "nt" => host.backend = "auto"
         /\ Install!os = "darwin" => host.backend \in {"auto", "command", "none"}
         /\ Install!os = "linux" => host.backend \in {"auto", "packages", "flatpak", "command", "none"}
         /\ Install!os = "nt" => host.tools \subseteq {"command"}
         /\ Install!os = "darwin" => host.tools \subseteq {"command"}
         /\ host.tools \subseteq {"packages", "flatpak", "command"}
  <1>1. PICK o \in Hosts : host \in Install!HostsOf(o)
    BY DEF InstallTypes
  <1>2. o \in {"nt", "linux", "darwin"}
    BY DEF Libraries
  <1> QED BY <1>1, <1>2 DEF Install!HostsOf, Install!os

Wanted ==
  IF host.backend # "auto" THEN <<host.backend>>
  ELSE IF Install!os = "nt" THEN <<"windows">>
  ELSE IF Install!os = "darwin" THEN <<"official">>
  ELSE IF host.immutable THEN <<"flatpak", "packages", "command">>
  ELSE <<"packages", "flatpak", "command">>

LEMMA InstallerIs ==
  ASSUME Libraries, InstallTypes
  PROVE  /\ Install!os = "nt" => Install!Installer = "windows"
         /\ Install!Installer = "official" => Install!os = "darwin"
         /\ Install!Installer = "flatpak" => Install!os = "linux"
         /\ Install!os = "linux" /\ host.backend = "auto" /\ host.immutable /\ "flatpak" \in host.tools =>
              Install!Installer = "flatpak"
  <1> DEFINE tools == host.tools \cup {"windows", "official"}
             first == Install!FirstIn(Wanted, tools)
             All == {"windows", "official", "packages", "flatpak", "command", "none"}
  <1>1. Install!os \in {"nt", "linux", "darwin"}
    BY HostIs
  <1>2. Wanted \in Seq(All)
    <2>1. host.backend # "auto" => host.backend \in All
      BY HostIs
    <2>2. {"windows", "official", "packages", "flatpak", "command"} \subseteq All
      OBVIOUS
    <2> HIDE DEF All
    <2>3. (\A a \in All : <<a>> \in Seq(All)) /\ (\A a, b, c \in All : <<a, b, c>> \in Seq(All))
      OBVIOUS
    <2> QED BY <2>1, <2>2, <2>3 DEF Wanted
  <1>3. Install!Installer = IF first = 0 THEN "none" ELSE Wanted[first]
    <2>1. CASE host.backend # "auto"
      BY <2>1 DEF Wanted, Install!Installer
    <2>2. CASE host.backend = "auto" /\ Install!os = "nt"
      BY <2>2 DEF Wanted, Install!Installer
    <2>3. CASE host.backend = "auto" /\ Install!os = "darwin"
      BY <2>3 DEF Wanted, Install!Installer
    <2>4. CASE host.backend = "auto" /\ Install!os = "linux"
      <3> QED BY <2>4 DEF Wanted, Install!Installer
    <2> QED BY <1>1, <2>1, <2>2, <2>3, <2>4
  <1>4. IF \E j \in 1 .. Len(Wanted) : Wanted[j] \in tools
        THEN first \in 1 .. Len(Wanted) /\ Wanted[first] \in tools
             /\ \A j \in 1 .. Len(Wanted) : Wanted[j] \in tools => first <= j
        ELSE first = 0
    <2> HIDE DEF tools
    <2> QED BY <1>2, FirstIs
  <1> HIDE DEF first
  <1>5. CASE Install!os = "nt"
    <2>1. Wanted = <<"windows">>
      BY <1>5, HostIs DEF Wanted
    <2> QED BY <1>3, <1>4, <1>5, <2>1
  <1>6. CASE Install!os = "darwin"
    <2>1. Wanted \in {<<"official">>, <<"command">>, <<"none">>}
      BY <1>6, HostIs DEF Wanted
    <2>2. Install!Installer # "flatpak"
      BY <1>3, <1>4, <2>1
    <2> QED BY <1>6, <2>2
  <1>7. CASE Install!os = "linux"
    <2>1. \A j \in 1 .. Len(Wanted) : Wanted[j] \notin {"official"}
      BY <1>7, HostIs DEF Wanted
    <2>2. Install!Installer # "official"
      BY <1>3, <1>4, <2>1
    <2>3. ASSUME host.backend = "auto", host.immutable, "flatpak" \in host.tools
          PROVE  Install!Installer = "flatpak"
      <3>1. Wanted = <<"flatpak", "packages", "command">>
        BY <1>7, <2>3 DEF Wanted
      <3>2. 1 \in 1 .. Len(Wanted) /\ Wanted[1] = "flatpak"
        BY <3>1
      <3>3. first = 1
        BY <1>4, <2>3, <3>2
      <3> QED BY <1>3, <3>2, <3>3
    <2> QED BY <1>7, <2>2, <2>3
  <1> QED BY <1>1, <1>5, <1>6, <1>7

\* The next emulator is one of those left.
LEMMA RequiredNames ==
  ASSUME Libraries, InstallTypes
  PROVE  /\ required \in Seq(EmulatorNames) /\ Install!ToSet(required) \subseteq EmulatorNames
         /\ \A e \in EmulatorNames : Install!KindOf(e) \in Install!Kinds
         /\ \A e \in EmulatorNames : e # "path" => Install!KindOf(e) = e
  BY DEF Libraries, InstallTypes, EmulatorNames, Install!ToSet, Install!KindOf, Install!Kinds

LEMMA NextIsLeft ==
  ASSUME Libraries, InstallTypes, left # {}
  PROVE  Install!e0 \in left /\ Install!e0 \in EmulatorNames /\ Install!k0 \in Install!Kinds
  <1>1. required \in Seq(EmulatorNames) /\ left \subseteq Install!ToSet(required)
    BY RequiredNames DEF InstallTypes
  <1>2. \E j \in 1 .. Len(required) : required[j] \in left
    BY <1>1 DEF Install!ToSet
  <1>3. PICK i : i = Install!FirstIn(required, left)
    OBVIOUS
  <1>4. i \in 1 .. Len(required) /\ required[i] \in left
    BY <1>1, <1>2, <1>3, FirstIs
  <1>5. Install!e0 = required[i]
    BY <1>3 DEF Install!e0
  <1> QED BY <1>1, <1>4, <1>5, RequiredNames DEF Install!k0

\* What no step changes, and what goes with it.
LEMMA InstallFixed ==
  ASSUME Install!Next
  PROVE  /\ UNCHANGED <<host, required>>
         /\ Install!os' = Install!os /\ Install!Installer' = Install!Installer
         /\ \A e : Install!Forced(e)' = Install!Forced(e)
         /\ left' = left => Install!e0' = Install!e0 /\ Install!k0' = Install!k0
  <1>1. UNCHANGED <<host, required>>
    BY DEF Install!Next, Install!Start, Install!Fails, Install!CommandRaises, Install!Package,
      Install!Unpack, Install!RemoveOld, Install!CopyNew, Install!RemoveOrCopyFails, Install!Stage,
      Install!SetAside, Install!SetAsideFails, Install!PutInPlace, Install!Restore,
      Install!RestoreFails, Install!Finish, Install!Kill, Install!UserActs, Install!Acts
  <1> QED BY <1>1 DEF Install!os, Install!Installer, Install!Forced, Install!e0, Install!k0

\* The next emulator after this one.
LEMMA NextAfterIs ==
  ASSUME Libraries, InstallTypes, left # {}, NEW ok \in BOOLEAN, Install!NextAfter(ok)
  PROVE  /\ pc' \in {"next", "raised"} /\ left' = left \ {Install!e0}
         /\ failed' = (IF ok THEN failed ELSE failed \cup {Install!e0})
         /\ left' \subseteq Install!ToSet(required) /\ failed' \subseteq Install!ToSet(required)
  BY NextIsLeft DEF Install!NextAfter, InstallTypes

LEMMA InstallTypesStep ==
  ASSUME Libraries, InstallInv, Install!Next
  PROVE  InstallTypes'
  <1> USE DEF Install!disk, Install!temp, Install!Whole
  <1>1. InstallTypes /\ InstallControl /\ UNCHANGED <<host, required>>
    BY InstallFixed DEF InstallInv
  <1>2. left # {} => Install!e0 \in left /\ Install!k0 \in Install!Kinds
    BY <1>1, NextIsLeft
  <1>3. "dolphin" \in Install!Kinds
    BY DEF Install!Kinds
  <1>4. CASE Install!Start
    <2>1. Install!Missing \subseteq Install!ToSet(required)
      BY DEF Install!Missing
    <2> QED BY <1>1, <1>4, <2>1 DEF Install!Start, InstallTypes
  <1>5. CASE Install!Fails
    BY <1>1, <1>5, NextAfterIs DEF Install!Fails, InstallTypes
  <1>6. CASE Install!CommandRaises \/ Install!Unpack
    BY <1>1, <1>6 DEF Install!CommandRaises, Install!Unpack, InstallTypes
  <1>7. CASE Install!Package
    <2>1. tree' \in [Install!Kinds -> SUBSET {"exe", "rest", "user", "intel"}] /\ system' \subseteq Install!Kinds
      BY <1>1, <1>2, <1>7 DEF Install!Package, InstallTypes
    <2>2. pc' \in {"next", "raised"} /\ left' \subseteq Install!ToSet(required) /\ failed' \subseteq Install!ToSet(required)
      BY <1>1, <1>7, NextAfterIs DEF Install!Package
    <2> QED BY <1>1, <1>7, <2>1, <2>2 DEF Install!Package, InstallTypes
  <1>8. CASE Install!RemoveOld
    <2>1. tree' \in [Install!Kinds -> SUBSET {"exe", "rest", "user", "intel"}]
      BY <1>1, <1>3, <1>8 DEF Install!RemoveOld, InstallTypes
    <2> QED BY <1>1, <1>8, <2>1 DEF Install!RemoveOld, InstallTypes
  <1>9. CASE Install!CopyNew
    <2>1. tree' \in [Install!Kinds -> SUBSET {"exe", "rest", "user", "intel"}]
      BY <1>1, <1>3, <1>9 DEF Install!CopyNew, InstallTypes
    <2>2. left # {}
      BY <1>1, <1>9 DEF Install!CopyNew, InstallControl
    <2>3. CASE tree.dolphin = Install!Whole
      BY <1>1, <1>9, <2>1, <2>2, <2>3, NextAfterIs DEF Install!CopyNew, InstallTypes
    <2>4. CASE tree.dolphin # Install!Whole
      BY <1>1, <1>9, <2>1, <2>4 DEF Install!CopyNew, InstallTypes
    <2> QED BY <2>3, <2>4
  <1>10. CASE Install!RemoveOrCopyFails
    BY <1>1, <1>10, NextAfterIs DEF Install!RemoveOrCopyFails, InstallTypes, InstallControl
  <1>11. CASE Install!Stage
    BY <1>1, <1>11 DEF Install!Stage, InstallTypes
  <1>12. CASE Install!SetAside
    <2>1. left # {}
      BY <1>1, <1>12 DEF Install!SetAside, InstallControl
    <2>2. /\ tree' \in [Install!Kinds -> SUBSET {"exe", "rest", "user", "intel"}]
          /\ backup' \in SUBSET {"exe", "rest", "user", "intel"}
      BY <1>1, <1>2, <1>12, <2>1 DEF Install!SetAside, InstallTypes
    <2> QED BY <1>1, <1>12, <2>2 DEF Install!SetAside, InstallTypes
  <1>13. CASE Install!SetAsideFails
    BY <1>1, <1>13, NextAfterIs DEF Install!SetAsideFails, InstallTypes, InstallControl
  <1>14. CASE Install!PutInPlace \/ Install!Restore
    <2>1. left # {}
      BY <1>1, <1>14 DEF Install!PutInPlace, Install!Restore, InstallControl
    <2>2. tree' \in [Install!Kinds -> SUBSET {"exe", "rest", "user", "intel"}]
      BY <1>1, <1>2, <1>14, <2>1 DEF Install!PutInPlace, Install!Restore, InstallTypes
    <2>3. pc' \in {"next", "raised"} /\ left' \subseteq Install!ToSet(required) /\ failed' \subseteq Install!ToSet(required)
      BY <1>1, <1>14, <2>1, NextAfterIs DEF Install!PutInPlace, Install!Restore
    <2> QED BY <1>1, <1>14, <2>2, <2>3 DEF Install!PutInPlace, Install!Restore, InstallTypes
  <1>15. CASE Install!RestoreFails
    BY <1>1, <1>15, NextAfterIs DEF Install!RestoreFails, InstallTypes, InstallControl
  <1>16. CASE Install!Finish \/ Install!Kill
    BY <1>1, <1>16 DEF Install!Finish, Install!Kill, InstallTypes
  <1>17. CASE Install!UserActs
    <2>1. /\ tree' \in [Install!Kinds -> SUBSET {"exe", "rest", "user", "intel"}]
          /\ system' \subseteq Install!Kinds /\ own' \in BOOLEAN
      <3>1. \/ tree' = tree
            \/ \E k \in Install!Kinds : tree' = [tree EXCEPT ![k] = @ \ {"exe"}]
            \/ \E k \in Install!Kinds : tree' = [tree EXCEPT ![k] = {"intel", "rest"}]
            \/ tree' = [tree EXCEPT !.dolphin = @ \cup {"user"}]
        BY <1>17 DEF Install!UserActs, Install!Acts
      <3>2. tree' \in [Install!Kinds -> SUBSET {"exe", "rest", "user", "intel"}]
        BY <1>1, <1>3, <3>1 DEF InstallTypes
      <3>3. system' \subseteq Install!Kinds /\ own' \in BOOLEAN
        BY <1>1, <1>17 DEF Install!UserActs, Install!Acts, InstallTypes
      <3> QED BY <3>2, <3>3
    <2>2. /\ pc' = "idle" /\ failed' = {} /\ before' = {}
          /\ UNCHANGED <<host, required, left, staged, backup>>
      BY <1>17 DEF Install!UserActs, Install!Acts
    <2> QED BY <1>1, <2>1, <2>2 DEF InstallTypes
  <1> QED BY <1>4, <1>5, <1>6, <1>7, <1>8, <1>9, <1>10, <1>11, <1>12, <1>13, <1>14, <1>15, <1>16, <1>17
    DEF Install!Next

LEMMA InstallControlStep ==
  ASSUME Libraries, InstallInv, Install!Next
  PROVE  InstallControl'
  <1> USE DEF Install!disk, Install!temp, Install!Whole
  <1>1. /\ InstallTypes /\ InstallControl /\ Install!os' = Install!os
        /\ left' = left => Install!e0' = Install!e0 /\ Install!k0' = Install!k0
    BY InstallFixed DEF InstallInv
  <1>2. left # {} => Install!k0 \in Install!Kinds
    BY <1>1, NextIsLeft
  <1>3. CASE Install!Start
    BY <1>3 DEF Install!Start, InstallControl
  <1>4. CASE \/ Install!Fails \/ Install!Package \/ Install!RemoveOrCopyFails \/ Install!SetAsideFails
             \/ Install!PutInPlace \/ Install!Restore \/ Install!RestoreFails
    <2>1. left # {}
      BY <1>1, <1>4 DEF Install!Fails, Install!Package, Install!RemoveOrCopyFails, Install!SetAsideFails,
        Install!PutInPlace, Install!Restore, Install!RestoreFails, InstallControl
    <2>2. pc' \in {"next", "raised"}
      BY <1>1, <1>4, <2>1, NextAfterIs DEF Install!Fails, Install!Package, Install!RemoveOrCopyFails,
        Install!SetAsideFails, Install!PutInPlace, Install!Restore, Install!RestoreFails
    <2>3. staged' = {} /\ backup' = {}
      BY <1>1, <1>4 DEF Install!Fails, Install!Package, Install!RemoveOrCopyFails, Install!SetAsideFails,
        Install!PutInPlace, Install!Restore, Install!RestoreFails, InstallControl
    <2> QED BY <2>2, <2>3 DEF InstallControl
  <1>5. CASE Install!CommandRaises \/ Install!Unpack
    BY <1>1, <1>5 DEF Install!CommandRaises, Install!Unpack, InstallControl
  <1>6. CASE Install!RemoveOld
    BY <1>1, <1>6 DEF Install!RemoveOld, InstallControl
  <1>7. CASE Install!CopyNew
    <2>1. CASE tree.dolphin = Install!Whole
      <3>1. pc' \in {"next", "raised"}
        BY <1>1, <1>7, <2>1, NextAfterIs DEF Install!CopyNew, InstallControl
      <3> QED BY <1>1, <1>7, <3>1 DEF Install!CopyNew, InstallControl
    <2>2. CASE tree.dolphin # Install!Whole
      BY <1>1, <1>7, <2>2 DEF Install!CopyNew, InstallControl
    <2> QED BY <2>1, <2>2
  <1>8. CASE Install!Stage
    <2>1. Install!os = "darwin"
      BY <1>1, <1>8, InstallerIs DEF Install!Stage
    <2> QED BY <1>1, <1>8, <2>1 DEF Install!Stage, InstallControl
  <1>9. CASE Install!SetAside
    <2>1. left # {}
      BY <1>1, <1>9 DEF Install!SetAside, InstallControl
    <2>2. tree'[Install!k0] = {}
      BY <1>1, <1>2, <1>9, <2>1 DEF Install!SetAside, InstallTypes
    <2> QED BY <1>1, <1>9, <2>1, <2>2 DEF Install!SetAside, InstallControl
  <1>10. CASE Install!Finish \/ Install!Kill
    BY <1>1, <1>10 DEF Install!Finish, Install!Kill, InstallControl
  <1>11. CASE Install!UserActs
    <2>1. pc' = "idle" /\ UNCHANGED <<staged, backup>> /\ Install!Resting
      BY <1>11 DEF Install!UserActs, Install!Acts
    <2> QED BY <1>1, <2>1 DEF Install!Resting, InstallControl
  <1> QED BY <1>3, <1>4, <1>5, <1>6, <1>7, <1>8, <1>9, <1>10, <1>11 DEF Install!Next

\* What a step does to what is installed.
LEMMA TreeSteps ==
  ASSUME Libraries, InstallInv, Install!Next, UNCHANGED tree => FALSE
  PROVE  \/ Install!Package /\ Install!os = "linux" /\ tree' = [tree EXCEPT ![Install!k0] = {"exe", "rest"}]
         \/ Install!RemoveOld /\ Install!os = "nt"
              /\ \E x \in tree.dolphin : tree' = [tree EXCEPT !.dolphin = @ \ {x}]
         \/ Install!CopyNew /\ Install!os = "nt"
              /\ \E x \in {"exe", "rest"} : tree' = [tree EXCEPT !.dolphin = @ \cup {x}]
         \/ Install!SetAside /\ Install!os = "darwin" /\ tree' = [tree EXCEPT ![Install!k0] = {}]
         \/ Install!PutInPlace /\ Install!os = "darwin"
              /\ tree' = [tree EXCEPT ![Install!k0] = {"exe", "rest"}]
         \/ Install!Restore /\ Install!os = "darwin" /\ tree' = [tree EXCEPT ![Install!k0] = backup]
         \/ Install!UserActs /\ \E k \in Install!Kinds : tree' = [tree EXCEPT ![k] = @ \ {"exe"}]
         \/ Install!UserActs /\ Install!os = "darwin"
              /\ \E k \in Install!Kinds : tree' = [tree EXCEPT ![k] = {"intel", "rest"}]
         \/ Install!UserActs /\ Install!os = "nt" /\ tree' = [tree EXCEPT !.dolphin = @ \cup {"user"}]
  <1> USE DEF Install!disk, Install!Whole
  <1>1. InstallTypes /\ InstallControl
    BY DEF InstallInv
  <1>2. CASE Install!Package
    BY <1>1, <1>2, InstallerIs DEF Install!Package
  <1>3. CASE Install!RemoveOld
    BY <1>1, <1>3 DEF Install!RemoveOld, InstallControl
  <1>4. CASE Install!CopyNew
    BY <1>1, <1>4 DEF Install!CopyNew, InstallControl
  <1>5. CASE Install!SetAside \/ Install!PutInPlace \/ Install!Restore
    BY <1>1, <1>5 DEF Install!SetAside, Install!PutInPlace, Install!Restore, InstallControl
  <1>6. CASE Install!UserActs
    BY <1>6 DEF Install!UserActs, Install!Acts
  <1>7. CASE \/ Install!Start \/ Install!Fails \/ Install!CommandRaises \/ Install!Unpack
             \/ Install!RemoveOrCopyFails \/ Install!Stage \/ Install!SetAsideFails
             \/ Install!RestoreFails \/ Install!Finish \/ Install!Kill
    BY <1>7 DEF Install!Start, Install!Fails, Install!CommandRaises, Install!Unpack,
      Install!RemoveOrCopyFails, Install!Stage, Install!SetAsideFails, Install!RestoreFails,
      Install!Finish, Install!Kill
  <1> QED BY <1>2, <1>3, <1>4, <1>5, <1>6, <1>7 DEF Install!Next

LEMMA InstallTreesStep ==
  ASSUME Libraries, InstallInv, Install!Next
  PROVE  InstallTrees'
  <1> USE DEF Install!disk, Install!temp, Install!Whole
  <1>1. /\ InstallTypes /\ InstallControl /\ InstallTrees /\ Install!os' = Install!os
        /\ tree \in [Install!Kinds -> SUBSET {"exe", "rest", "user", "intel"}]
    BY InstallFixed DEF InstallInv, InstallTypes
  <1>2. left # {} => Install!k0 \in Install!Kinds
    BY <1>1, NextIsLeft
  <1>3. "dolphin" \in Install!Kinds
    BY DEF Install!Kinds
  <1>4. /\ "exe" \in backup' => "rest" \in backup' \/ Install!os = "nt"
        /\ Install!os # "nt" => "user" \notin backup'
    <2>1. Install!SetAside => left # {} /\ backup' = tree[Install!k0]
      BY <1>1 DEF Install!SetAside, InstallControl
    <2>2. ~Install!SetAside => backup' \in {backup, {}}
      BY DEF Install!Next, Install!Start, Install!Fails, Install!CommandRaises, Install!Package,
        Install!Unpack, Install!RemoveOld, Install!CopyNew, Install!RemoveOrCopyFails, Install!Stage,
        Install!SetAsideFails, Install!PutInPlace, Install!Restore,
        Install!RestoreFails, Install!Finish, Install!Kill, Install!UserActs, Install!Acts
    <2> QED BY <1>1, <1>2, <2>1, <2>2 DEF InstallTrees, Install!HalfIsSeen
  <1>5. "exe" \in backup' => "rest" \in backup'
    <2>1. backup' # {} => pc' = "aside" /\ Install!os = "darwin"
      BY <1>1, InstallControlStep DEF InstallControl
    <2> QED BY <1>4, <2>1
  <1>6. /\ \A k \in Install!Kinds : "exe" \in tree'[k] =>
             "rest" \in tree'[k] \/ (Install!os = "nt" /\ k = "dolphin")
        /\ Install!os # "nt" => \A k \in Install!Kinds : "user" \notin tree'[k]
    <2> DEFINE Good(t) ==
          /\ \A k \in Install!Kinds : "exe" \in t[k] => "rest" \in t[k] \/ (Install!os = "nt" /\ k = "dolphin")
          /\ Install!os # "nt" => \A k \in Install!Kinds : "user" \notin t[k]
    <2>1. Good(tree)
      BY <1>1 DEF InstallTrees, Install!HalfIsSeen
    <2>2. ASSUME NEW k \in Install!Kinds, NEW x \in SUBSET {"exe", "rest", "user", "intel"},
                 tree' = [tree EXCEPT ![k] = x],
                 "exe" \in x => "rest" \in x \/ (Install!os = "nt" /\ k = "dolphin"),
                 Install!os # "nt" => "user" \notin x
          PROVE  Good(tree')
      BY <1>1, <2>1, <2>2
    <2>3. \A k \in Install!Kinds : tree[k] \in SUBSET {"exe", "rest", "user", "intel"}
      BY <1>1
    <2>4. CASE Install!Package /\ tree' = [tree EXCEPT ![Install!k0] = {"exe", "rest"}]
      <3>1. left # {}
        BY <2>4 DEF Install!Package
      <3> QED BY <1>2, <2>2, <2>4, <3>1
    <2>5. CASE Install!os = "nt" /\ \E x \in SUBSET {"exe", "rest", "user", "intel"} : tree' = [tree EXCEPT !.dolphin = x]
      BY <1>3, <2>2, <2>5
    <2>6. CASE Install!SetAside \/ Install!PutInPlace \/ Install!Restore
      <3>1. left # {} /\ Install!os = "darwin"
        BY <1>1, <2>6 DEF Install!SetAside, Install!PutInPlace, Install!Restore, InstallControl
      <3>2. PICK x \in SUBSET {"exe", "rest", "user", "intel"} :
              x \in {{}, {"exe", "rest"}, backup} /\ tree' = [tree EXCEPT ![Install!k0] = x]
        BY <1>1, <2>6 DEF Install!SetAside, Install!PutInPlace, Install!Restore, InstallControl, InstallTypes
      <3>3. ("exe" \in x => "rest" \in x) /\ "user" \notin x
        BY <1>1, <3>1, <3>2 DEF InstallTrees
      <3> QED BY <1>2, <2>2, <3>1, <3>2, <3>3
    <2>7. CASE \E k \in Install!Kinds : tree' = [tree EXCEPT ![k] = @ \ {"exe"}]
      <3>1. PICK k \in Install!Kinds : tree' = [tree EXCEPT ![k] = @ \ {"exe"}]
        BY <2>7
      <3>2. PICK x \in SUBSET {"exe", "rest", "user", "intel"} : x = tree[k] \ {"exe"}
        BY <2>3
      <3>3. tree' = [tree EXCEPT ![k] = x]
        BY <1>1, <3>1, <3>2
      <3>4. "exe" \notin x /\ (Install!os # "nt" => "user" \notin x)
        BY <2>1, <3>2
      <3> QED BY <2>2, <3>3, <3>4
    <2>13. CASE \E k \in Install!Kinds : tree' = [tree EXCEPT ![k] = {"intel", "rest"}]
      <3>1. PICK x \in SUBSET {"exe", "rest", "user", "intel"} : x = {"intel", "rest"}
        OBVIOUS
      <3>2. "exe" \notin x /\ "user" \notin x
        BY <3>1
      <3> QED BY <2>2, <2>13, <3>1, <3>2
    <2>8. CASE UNCHANGED tree
      BY <2>1, <2>8
    <2>9. \A x \in {"exe", "rest", "user", "intel"} :
            /\ tree' = [tree EXCEPT !.dolphin = @ \cup {x}] =>
                 \E y \in SUBSET {"exe", "rest", "user", "intel"} : tree' = [tree EXCEPT !.dolphin = y]
            /\ tree' = [tree EXCEPT !.dolphin = @ \ {x}] =>
                 \E y \in SUBSET {"exe", "rest", "user", "intel"} : tree' = [tree EXCEPT !.dolphin = y]
      BY <1>1, <1>3
    <2>10. tree.dolphin \subseteq {"exe", "rest", "user", "intel"}
      BY <1>1, <1>3
    <2> HIDE DEF Good
    <2>11. CASE /\ Install!os = "nt"
                /\ \E x \in {"exe", "rest", "user", "intel"} :
                     \/ tree' = [tree EXCEPT !.dolphin = @ \cup {x}]
                     \/ tree' = [tree EXCEPT !.dolphin = @ \ {x}]
      <3>1. PICK x \in {"exe", "rest", "user", "intel"} :
              \/ tree' = [tree EXCEPT !.dolphin = @ \cup {x}]
              \/ tree' = [tree EXCEPT !.dolphin = @ \ {x}]
        BY <2>11
      <3>2. \E y \in SUBSET {"exe", "rest", "user", "intel"} : tree' = [tree EXCEPT !.dolphin = y]
        BY <2>9, <3>1
      <3> QED BY <2>5, <2>11, <3>2
    <2>12. \/ Install!Package /\ tree' = [tree EXCEPT ![Install!k0] = {"exe", "rest"}]
           \/ Install!SetAside \/ Install!PutInPlace \/ Install!Restore
           \/ \E k \in Install!Kinds : tree' = [tree EXCEPT ![k] = @ \ {"exe"}]
           \/ \E k \in Install!Kinds : tree' = [tree EXCEPT ![k] = {"intel", "rest"}]
           \/ UNCHANGED tree
           \/ /\ Install!os = "nt"
              /\ \E x \in {"exe", "rest", "user", "intel"} :
                   \/ tree' = [tree EXCEPT !.dolphin = @ \cup {x}]
                   \/ tree' = [tree EXCEPT !.dolphin = @ \ {x}]
      BY <2>10, TreeSteps
    <2> QED BY <2>4, <2>6, <2>7, <2>8, <2>11, <2>12, <2>13
  <1> QED BY <1>1, <1>4, <1>5, <1>6 DEF InstallTrees, Install!HalfIsSeen

\* An emulator under its own name is missing where it is nowhere.
LEMMA MissingIs ==
  ASSUME Libraries, InstallTypes, NEW e \in Install!ToSet(required), e # "path", ~Install!Forced(e)
  PROVE  e \in Install!Missing <=> e \notin system /\ "exe" \notin tree[e] /\ (e \notin host.shared \/ e = "retroarch")
  BY RequiredNames DEF Install!Missing, Install!Available

\* While a sync installs, what it does to the executables, and to what is left.
LEMMA ExecutableSteps ==
  ASSUME Libraries, InstallInv, Install!Next, ~Install!Start, InSync' \/ pc' = "done"
  PROVE  /\ InSync /\ system \subseteq system' /\ own' = own
         /\ \A k \in Install!Kinds : "exe" \in tree[k] /\ "exe" \notin tree'[k] =>
              /\ Install!RemoveOld \/ Install!SetAside
              /\ UNCHANGED <<left, failed>> /\ Install!e0 \in left /\ k = Install!k0
  <1> USE DEF Install!disk, Install!Whole
  <1>1. /\ InstallTypes /\ InstallControl /\ Install!os' = Install!os
        /\ tree \in [Install!Kinds -> SUBSET {"exe", "rest", "user", "intel"}]
    BY InstallFixed DEF InstallInv, InstallTypes
  <1>2. ~Install!UserActs /\ ~Install!Kill
    BY DEF Install!UserActs, Install!Acts, Install!Kill, InSync
  <1>3. InSync /\ system \subseteq system' /\ own' = own
    BY <1>2 DEF Install!Next, Install!Fails, Install!CommandRaises, Install!Package,
      Install!Unpack, Install!RemoveOld, Install!CopyNew, Install!RemoveOrCopyFails, Install!Stage,
      Install!SetAside, Install!SetAsideFails, Install!PutInPlace, Install!Restore,
      Install!RestoreFails, Install!Finish, InSync
  <1>4. ASSUME NEW k \in Install!Kinds, "exe" \in tree[k], "exe" \notin tree'[k]
        PROVE  /\ Install!RemoveOld \/ Install!SetAside
               /\ UNCHANGED <<left, failed>> /\ Install!e0 \in left /\ k = Install!k0
    <2>1. \/ Install!Package /\ tree' = [tree EXCEPT ![Install!k0] = {"exe", "rest"}]
          \/ Install!RemoveOld
          \/ Install!CopyNew /\ \E x \in {"exe", "rest"} : tree' = [tree EXCEPT !.dolphin = @ \cup {x}]
          \/ Install!SetAside
          \/ Install!PutInPlace /\ tree' = [tree EXCEPT ![Install!k0] = {"exe", "rest"}]
          \/ Install!Restore /\ tree' = [tree EXCEPT ![Install!k0] = backup]
      BY <1>2, <1>4, TreeSteps
    <2>2. \A x : \A j \in Install!Kinds : tree' = [tree EXCEPT ![j] = x] /\ "exe" \in x => "exe" \in tree'[k]
      BY <1>1, <1>4
    <2>3. ~Install!Package /\ ~Install!PutInPlace
      <3>1. Install!Package \/ Install!PutInPlace => left # {}
        BY <1>1 DEF Install!Package, Install!PutInPlace, InstallControl
      <3>2. Install!Package \/ Install!PutInPlace =>
              UNCHANGED tree \/ tree' = [tree EXCEPT ![Install!k0] = {"exe", "rest"}]
        BY <1>1 DEF Install!Package, Install!PutInPlace, InstallControl
      <3> QED BY <1>1, <1>4, <2>2, <3>1, <3>2, NextIsLeft
    <2>4. ~Install!Restore
      <3>1. Install!Restore => left # {} /\ tree[Install!k0] = {} /\ tree' = [tree EXCEPT ![Install!k0] = backup]
        BY <1>1 DEF Install!Restore, InstallControl
      <3> QED BY <1>1, <1>4, <3>1
    <2>5. ~(\E x \in {"exe", "rest"} : tree' = [tree EXCEPT !.dolphin = @ \cup {x}])
      BY <1>1, <1>4
    <2>6. CASE Install!RemoveOld
      <3>1. left # {} /\ Install!e0 = "dolphin"
        BY <1>1, <2>6 DEF Install!RemoveOld, InstallControl
      <3>2. \E x : tree' = [tree EXCEPT !.dolphin = @ \ {x}]
        BY <1>4, <2>6 DEF Install!RemoveOld
      <3>3. k = "dolphin"
        BY <1>1, <1>4, <3>2
      <3>4. UNCHANGED <<left, failed>> /\ Install!e0 \in left /\ k = Install!k0
        BY <1>1, <2>6, <3>1, <3>3, NextIsLeft DEF Install!RemoveOld, Install!k0, Install!KindOf
      <3> QED BY <2>6, <3>4
    <2>7. CASE Install!SetAside
      <3>1. left # {} /\ UNCHANGED <<left, failed>> /\ tree' = [tree EXCEPT ![Install!k0] = {}]
        BY <1>1, <2>7 DEF Install!SetAside, InstallControl
      <3>2. k = Install!k0
        BY <1>1, <1>4, <3>1
      <3> QED BY <1>1, <2>7, <3>1, <3>2, NextIsLeft
    <2> QED BY <2>1, <2>3, <2>4, <2>5, <2>6, <2>7
  <1> QED BY <1>3, <1>4

\* An emulator that is left or failed stays so, or is installed.
LEMMA LeftSteps ==
  ASSUME Libraries, InstallInv, Install!Next, ~Install!Start, InSync' \/ pc' = "done",
         NEW f \in left \cup failed
  PROVE  \/ f \in left' \cup failed'
         \/ /\ f = Install!e0 /\ Install!k0 \in Install!Kinds
            /\ Install!k0 \in system' \/ "exe" \in tree'[Install!k0]
  <1> USE DEF Install!disk, Install!Whole
  <1>1. /\ InstallTypes /\ InstallControl
        /\ tree \in [Install!Kinds -> SUBSET {"exe", "rest", "user", "intel"}]
    BY DEF InstallInv, InstallTypes
  <1>2. ~Install!UserActs /\ ~Install!Kill
    BY DEF Install!UserActs, Install!Acts, Install!Kill, InSync
  <1>3. CASE \/ Install!Fails \/ Install!RemoveOrCopyFails \/ Install!SetAsideFails
             \/ Install!Restore \/ Install!RestoreFails
    <2>1. left # {} /\ Install!NextAfter(FALSE)
      BY <1>1, <1>3 DEF Install!Fails, Install!RemoveOrCopyFails, Install!SetAsideFails, Install!Restore,
        Install!RestoreFails, InstallControl
    <2> QED BY <1>1, <2>1, NextAfterIs
  <1>4. CASE \/ Install!CommandRaises \/ Install!Unpack \/ Install!RemoveOld \/ Install!Stage
             \/ Install!SetAside \/ Install!Finish
    BY <1>4 DEF Install!CommandRaises, Install!Unpack, Install!RemoveOld, Install!Stage,
      Install!SetAside, Install!Finish
  <1>5. CASE Install!Package
    <2>1. left # {} /\ Install!NextAfter(TRUE)
      BY <1>5 DEF Install!Package
    <2>2. Install!k0 \in Install!Kinds
      BY <1>1, <2>1, NextIsLeft
    <2>3. Install!k0 \in system' \/ "exe" \in tree'[Install!k0]
      BY <1>1, <1>5, <2>2 DEF Install!Package
    <2>4. left' = left \ {Install!e0} /\ failed' = failed
      BY <1>1, <2>1, NextAfterIs
    <2> QED BY <2>2, <2>3, <2>4
  <1>6. CASE Install!CopyNew
    <2>1. left # {} /\ Install!e0 = "dolphin"
      BY <1>1, <1>6 DEF Install!CopyNew, InstallControl
    <2>2. CASE tree.dolphin = Install!Whole
      <3>1. Install!NextAfter(TRUE) /\ UNCHANGED tree
        BY <1>6, <2>2 DEF Install!CopyNew
      <3>2. Install!k0 = "dolphin" /\ "dolphin" \in Install!Kinds
        BY <2>1 DEF Install!k0, Install!KindOf, Install!Kinds
      <3>3. left' = left \ {Install!e0} /\ failed' = failed
        BY <1>1, <2>1, <3>1, NextAfterIs
      <3>4. "exe" \in tree'.dolphin
        BY <2>2, <3>1
      <3> QED BY <3>2, <3>3, <3>4
    <2>3. CASE tree.dolphin # Install!Whole
      BY <1>6, <2>3 DEF Install!CopyNew
    <2> QED BY <2>2, <2>3
  <1>7. CASE Install!PutInPlace
    <2>1. PICK ok \in BOOLEAN :
            left # {} /\ Install!NextAfter(ok) /\ tree' = [tree EXCEPT ![Install!k0] = {"exe", "rest"}]
      BY <1>1, <1>7 DEF Install!PutInPlace, InstallControl
    <2>2. Install!k0 \in Install!Kinds
      BY <1>1, <2>1, NextIsLeft
    <2>3. "exe" \in tree'[Install!k0]
      BY <1>1, <2>1, <2>2
    <2>4. left' = left \ {Install!e0} /\ failed \subseteq failed'
      BY <1>1, <2>1, NextAfterIs
    <2> QED BY <2>2, <2>3, <2>4
  <1> QED BY <1>2, <1>3, <1>4, <1>5, <1>6, <1>7 DEF Install!Next

\* What is missing is left to install, or failed.
LEMMA OthersStep ==
  ASSUME Libraries, InstallInv, Install!Next, InSync' \/ pc' = "done", NEW e \in Install!Missing',
         e # "path", ~Install!Forced(e)
  PROVE  \E f \in left' \cup failed' : Install!KindOf(f) = Install!KindOf(e)
  <1>1. /\ InstallTypes /\ InstallTypes' /\ UNCHANGED <<host, required>>
        /\ InstallMissing /\ Install!Forced(e)' = Install!Forced(e)
    BY InstallFixed, InstallTypesStep DEF InstallInv
  <1>2. e \in Install!ToSet(required) /\ e \in Install!Kinds /\ Install!KindOf(e) = e
    <2>1. e \in Install!ToSet(required)
      BY <1>1 DEF Install!Missing
    <2> QED BY <1>1, <2>1, RequiredNames DEF EmulatorNames
  <1>3. e \notin system' /\ "exe" \notin tree'[e] /\ (e \notin host.shared \/ e = "retroarch")
    <2>1. ~Install!Forced(e)'
      BY <1>1
    <2>2. ~(e \in system' \/ "exe" \in tree'[e] \/ (e \in host'.shared /\ e # "retroarch"))
      BY <2>1 DEF Install!Missing, Install!Available
    <2> QED BY <1>1, <2>2
  <1>4. CASE Install!Start
    <2>1. e \in Install!Missing
      <3>1. UNCHANGED <<system, tree>>
        BY <1>4 DEF Install!Start, Install!disk
      <3> QED BY <1>1, <1>2, <1>3, <3>1, MissingIs
    <2>2. e \in left' \cup failed'
      BY <1>4, <2>1 DEF Install!Start
    <2> QED BY <2>2
  <1>5. CASE ~Install!Start
    <2>1. InSync /\ system \subseteq system'
      BY <1>5, ExecutableSteps
    <2>2. CASE e \in Install!Missing
      <3>1. PICK f \in left \cup failed : Install!KindOf(f) = Install!KindOf(e)
        BY <1>1, <2>1, <2>2 DEF InstallMissing
      <3>2. CASE f \in left' \cup failed'
        BY <3>1, <3>2
      <3>3. CASE f = Install!e0 /\ (Install!k0 \in system' \/ "exe" \in tree'[Install!k0])
        <4>1. Install!k0 = e
          BY <1>2, <3>1, <3>3 DEF Install!k0
        <4> QED BY <1>3, <3>3, <4>1
      <3> QED BY <1>5, <3>2, <3>3, LeftSteps
    <2>3. CASE e \notin Install!Missing
      <3>1. "exe" \in tree[e]
        BY <1>1, <1>2, <1>3, <2>1, <2>3, MissingIs
      <3>2. UNCHANGED <<left, failed>> /\ Install!e0 \in left /\ e = Install!k0
        BY <1>2, <1>3, <1>5, <3>1, ExecutableSteps
      <3>3. Install!e0 \in left' \cup failed' /\ Install!KindOf(Install!e0) = Install!KindOf(e)
        BY <1>2, <3>2 DEF Install!k0
      <3> QED BY <3>3
    <2> QED BY <2>2, <2>3
  <1> QED BY <1>4, <1>5

LEMMA InstallMissingStep ==
  ASSUME Libraries, InstallInv, Install!Next
  PROVE  InstallMissing'
  <1> USE DEF Install!disk, Install!temp, Install!Whole
  <1>1. /\ InstallTypes /\ InstallTypes' /\ InstallControl /\ InstallMissing /\ UNCHANGED <<host, required>>
        /\ Install!os' = Install!os /\ Install!Installer' = Install!Installer
    BY InstallFixed, InstallTypesStep DEF InstallInv
  <1>2. \A e : Install!Forced(e)' = Install!Forced(e)
    BY InstallFixed
  <1>3. \A e \in Install!ToSet(required) : e \in EmulatorNames
    BY <1>1, RequiredNames
  <1>4. InSync' \/ pc' = "done" =>
          \A e \in Install!Missing' :
            \/ e = "path" \/ Install!Forced(e)'
            \/ \E f \in left' \cup failed' : Install!KindOf(f)' = Install!KindOf(e)'
    <2>1. \A f : Install!KindOf(f)' = Install!KindOf(f)
      BY DEF Install!KindOf
    <2> QED BY <1>2, <2>1, OthersStep
  <1>5. ASSUME Install!os = "nt", pc' \in {"next", "removing", "copying"},
               NEW e \in left', pc' = "copying" => e # "dolphin"
        PROVE  ~Install!Available(e)'
    <2>1. CASE Install!Start
      <3>1. e \in Install!Missing /\ ~Install!Forced(e)
        BY <1>5, <2>1 DEF Install!Start, Install!Forced
      <3>2. ~Install!Available(e)
        BY <3>1 DEF Install!Missing
      <3> QED BY <2>1, <3>2 DEF Install!Start, Install!Available
    <2>2. CASE ~Install!Start
      <3>1. InSync
        BY <1>5, <2>2, ExecutableSteps DEF InSync
      <3>2. /\ ~Install!UserActs /\ ~Install!Kill /\ ~Install!Stage /\ ~Install!SetAside
            /\ ~Install!SetAsideFails /\ ~Install!PutInPlace /\ ~Install!Restore /\ ~Install!RestoreFails
            /\ ~Install!CommandRaises /\ ~Install!Finish
        BY <1>1, <1>5, <3>1 DEF Install!UserActs, Install!Acts, Install!Kill, Install!Stage, Install!SetAside,
          Install!SetAsideFails, Install!PutInPlace, Install!Restore, Install!RestoreFails, InstallControl,
          Install!CommandRaises, Install!Finish, InSync, Install!Resting
      <3>3. CASE Install!Fails \/ Install!RemoveOrCopyFails
        <4>1. left # {} /\ Install!NextAfter(FALSE)
          BY <1>1, <3>3 DEF Install!Fails, Install!RemoveOrCopyFails, InstallControl
        <4>2. left' = left \ {Install!e0}
          BY <1>1, <4>1, NextAfterIs
        <4>3. pc = "copying" => Install!e0 = "dolphin"
          BY <1>1 DEF InstallControl
        <4>4. ~Install!Available(e)
          BY <1>1, <1>5, <3>3, <4>2, <4>3 DEF Install!Fails, Install!RemoveOrCopyFails, InstallMissing
        <4>5. UNCHANGED <<tree, system, own>>
          BY <3>3 DEF Install!Fails, Install!RemoveOrCopyFails
        <4> QED BY <1>1, <4>4, <4>5 DEF Install!Available
      <3>4. CASE Install!Package
        <4>1. left # {} /\ Install!NextAfter(TRUE) /\ pc = "next"
          BY <3>4 DEF Install!Package
        <4>2. left' = left \ {Install!e0}
          BY <1>1, <4>1, NextAfterIs
        <4>3. Install!Installer = "windows"
          BY <1>1, <1>5, InstallerIs
        <4>4. system' = system \cup {Install!k0} /\ own' = own /\ tree' = tree /\ Install!e0 # "path"
          BY <3>4, <4>3 DEF Install!Package, Install!Mapped
        <4>5. Install!k0 = Install!e0
          BY <1>1, <4>1, <4>4, NextIsLeft, RequiredNames DEF Install!k0
        <4>6. e # Install!e0 /\ ~Install!Available(e)
          BY <1>1, <1>5, <4>1, <4>2 DEF InstallMissing
        <4> QED BY <1>1, <4>4, <4>5, <4>6 DEF Install!Available
      <3>5. CASE Install!Unpack
        <4>1. ~Install!Available(e)
          BY <1>1, <1>5, <3>5 DEF Install!Unpack, InstallMissing
        <4> QED BY <3>5, <4>1 DEF Install!Unpack, Install!Available
      <3>6. CASE Install!RemoveOld
        <4>1. ~Install!Available(e) /\ UNCHANGED <<system, own>>
          <5>1. pc = "removing" /\ left' = left /\ UNCHANGED <<system, own>>
            BY <3>6 DEF Install!RemoveOld
          <5> QED BY <1>1, <1>5, <5>1 DEF InstallMissing
        <4>2. e # "path" => "exe" \notin tree'[e]
          <5>1. e # "path" => "exe" \notin tree[e]
            BY <4>1 DEF Install!Available
          <5>2. tree' = tree \/ \E x : tree' = [tree EXCEPT !.dolphin = @ \ {x}]
            BY <3>6 DEF Install!RemoveOld
          <5>3. e # "path" => e \in Install!Kinds
            BY <1>1, <1>3, <1>5 DEF InstallTypes, EmulatorNames
          <5> QED BY <1>1, <5>1, <5>2, <5>3 DEF InstallTypes
        <4> QED BY <1>1, <4>1, <4>2 DEF Install!Available
      <3>7. CASE Install!CopyNew
        <4>1. left # {} /\ Install!e0 = "dolphin" /\ UNCHANGED <<system, own>> /\ pc = "copying"
          BY <1>1, <3>7 DEF Install!CopyNew, InstallControl
        <4>2. e \in left /\ e # "dolphin"
          <5>1. CASE tree.dolphin = Install!Whole
            <6>1. left' = left \ {Install!e0}
              BY <1>1, <3>7, <4>1, <5>1, NextAfterIs DEF Install!CopyNew
            <6> QED BY <1>5, <4>1, <6>1
          <5>2. CASE tree.dolphin # Install!Whole
            BY <1>5, <3>7, <4>1, <5>2 DEF Install!CopyNew
          <5> QED BY <5>1, <5>2
        <4>3. ~Install!Available(e)
          BY <1>1, <1>5, <4>1, <4>2 DEF InstallMissing
        <4>4. e # "path" => tree'[e] = tree[e]
          <5>1. tree' = tree \/ \E x : tree' = [tree EXCEPT !.dolphin = @ \cup {x}]
            BY <3>7 DEF Install!CopyNew
          <5>2. e # "path" => e \in Install!Kinds
            BY <1>1, <1>3, <4>2 DEF InstallTypes, EmulatorNames
          <5> QED BY <1>1, <4>2, <5>1, <5>2 DEF InstallTypes
        <4> QED BY <1>1, <4>1, <4>3, <4>4 DEF Install!Available
      <3> QED BY <2>2, <3>2, <3>3, <3>4, <3>5, <3>6, <3>7 DEF Install!Next
    <2> QED BY <2>1, <2>2
  <1>6. pc' = "done" => Install!Finish
    <2>1. ~Install!CopyNew \/ pc' # "done"
      <3>1. Install!CopyNew => pc' \in {pc, "next", "raised"} /\ pc = "copying"
        BY DEF Install!CopyNew, Install!NextAfter
      <3> QED BY <3>1
    <2> QED BY <2>1 DEF Install!Next, Install!Start, Install!Fails, Install!CommandRaises, Install!Package,
      Install!Unpack, Install!RemoveOld, Install!RemoveOrCopyFails, Install!Stage,
      Install!SetAside, Install!SetAsideFails, Install!PutInPlace, Install!Restore,
      Install!RestoreFails, Install!Kill, Install!UserActs, Install!Acts, Install!NextAfter
  <1>7. pc' = "done" => left' = {}
    BY <1>6 DEF Install!Finish
  <1>8. Install!ForcedIsFlatpak'
    <2>1. ASSUME pc' = "done", NEW e \in Install!ToSet(required), Install!Forced(e),
                 "flatpak" \in host.tools
          PROVE  "exe" \in tree'[Install!KindOf(e)] \/ Install!KindOf(e) \in host.shared
      <3>1. Install!os = "linux" /\ (host.backend = "flatpak" \/ (host.backend = "auto" /\ host.immutable))
        BY <2>1 DEF Install!Forced
      <3>2. Install!Validates
        BY <1>1, <2>1, <3>1, InstallerIs DEF Install!Validates
      <3>3. ~Install!Unavailable /\ tree' = tree
        BY <1>6, <2>1, <3>2 DEF Install!Finish
      <3> QED BY <2>1, <3>3 DEF Install!Unavailable, Install!IsFlatpak
    <2> QED BY <1>1, <1>2, <2>1 DEF Install!ForcedIsFlatpak, Install!IsFlatpak, Install!KindOf
  <1>9. /\ Install!os' = "nt" /\ pc' \in {"next", "removing"} => \A e \in left' : ~Install!Available(e)'
        /\ Install!os' = "nt" /\ pc' = "copying" => \A e \in left' : e # "dolphin" => ~Install!Available(e)'
    BY <1>1, <1>5
  <1> QED BY <1>4, <1>7, <1>8, <1>9 DEF InstallMissing

LEMMA InstallBundlesStep ==
  ASSUME Libraries, InstallInv, Install!Next
  PROVE  InstallBundles'
  <1> USE DEF Install!disk, Install!temp, Install!Whole
  <1>1. /\ InstallTypes /\ InstallControl /\ InstallBundles
        /\ Install!os' = Install!os /\ (left' = left => Install!k0' = Install!k0)
        /\ tree \in [Install!Kinds -> SUBSET {"exe", "rest", "user", "intel"}] /\ before \subseteq Install!Kinds
    BY InstallFixed DEF InstallInv, InstallTypes
  <1>2. left # {} => Install!k0 \in Install!Kinds
    BY <1>1, NextIsLeft
  <1> SUFFICES ASSUME Install!os = "darwin"
               PROVE  InstallBundles'
    BY <1>1 DEF InstallBundles
  <1>3. ~Install!Unpack /\ ~Install!RemoveOld /\ ~Install!CopyNew
    BY <1>1 DEF Install!Unpack, Install!RemoveOld, Install!CopyNew, InstallControl
  <1>4. Install!Installer # "flatpak"
    BY <1>1, InstallerIs
  <1>5. CASE Install!Start
    BY <1>1, <1>5 DEF Install!Start, InstallBundles
  <1>6. CASE \/ Install!Fails \/ Install!RemoveOrCopyFails \/ Install!SetAsideFails \/ Install!Package
    <2>1. left # {} /\ UNCHANGED <<tree, before>> /\ pc # "aside"
      BY <1>1, <1>4, <1>6 DEF Install!Fails, Install!RemoveOrCopyFails, Install!SetAsideFails,
        Install!Package, InstallControl
    <2>2. pc' \in {"next", "raised"}
      BY <1>1, <1>6, <2>1, NextAfterIs DEF Install!Fails, Install!RemoveOrCopyFails, Install!SetAsideFails,
        Install!Package
    <2> QED BY <1>1, <2>1, <2>2 DEF InstallBundles
  <1>7. CASE Install!CommandRaises \/ Install!Stage \/ Install!Finish
    <2>1. UNCHANGED <<tree, before>> /\ pc # "aside" /\ pc' # "aside"
      BY <1>7 DEF Install!CommandRaises, Install!Stage, Install!Finish
    <2> QED BY <1>1, <2>1 DEF InstallBundles
  <1>8. CASE Install!SetAside
    <2>1. /\ left # {} /\ pc # "aside" /\ pc' = "aside" /\ UNCHANGED <<left, before>>
          /\ tree' = [tree EXCEPT ![Install!k0] = {}] /\ backup' = tree[Install!k0]
      BY <1>1, <1>8 DEF Install!SetAside, InstallControl
    <2>2. \A k \in before' : IF k = Install!k0' THEN backup' # {} ELSE tree'[k] # {}
      BY <1>1, <1>2, <2>1 DEF InstallBundles
    <2> QED BY <2>1, <2>2 DEF InstallBundles
  <1>9. CASE Install!PutInPlace \/ Install!Restore
    <2>1. left # {} /\ pc = "aside" /\ before' = before
      BY <1>1, <1>9 DEF Install!PutInPlace, Install!Restore, InstallControl
    <2>2. pc' \in {"next", "raised"}
      BY <1>1, <1>9, <2>1, NextAfterIs DEF Install!PutInPlace, Install!Restore
    <2>3. PICK x \in {{"exe", "rest"}, backup} : tree' = [tree EXCEPT ![Install!k0] = x]
      BY <1>1, <1>9 DEF Install!PutInPlace, Install!Restore, InstallControl
    <2>4. \A k \in before : IF k = Install!k0 THEN backup # {} ELSE tree[k] # {}
      BY <1>1, <2>1 DEF InstallBundles
    <2>5. \A k \in before' : tree'[k] # {}
      BY <1>1, <1>2, <2>1, <2>3, <2>4
    <2> QED BY <2>2, <2>5 DEF InstallBundles
  <1>10. CASE Install!RestoreFails
    <2>1. left # {} /\ pc = "aside" /\ before' = before \ {Install!k0} /\ tree' = tree
      BY <1>1, <1>10 DEF Install!RestoreFails, InstallControl
    <2>2. pc' \in {"next", "raised"}
      BY <1>1, <1>10, <2>1, NextAfterIs DEF Install!RestoreFails
    <2> QED BY <1>1, <2>1, <2>2 DEF InstallBundles
  <1>11. CASE Install!Kill
    <2>1. /\ before' = (IF pc = "aside" THEN before \ {Install!k0} ELSE before)
          /\ tree' = tree /\ pc' = "idle"
      BY <1>11 DEF Install!Kill
    <2> QED BY <1>1, <2>1 DEF InstallBundles
  <1>12. CASE Install!UserActs
    <2>1. before' = {} /\ pc' = "idle"
      BY <1>12 DEF Install!UserActs, Install!Acts
    <2> QED BY <2>1 DEF InstallBundles
  <1> QED BY <1>3, <1>5, <1>6, <1>7, <1>8, <1>9, <1>10, <1>11, <1>12 DEF Install!Next

LEMMA InstallInit ==
  ASSUME Libraries, Install!Init
  PROVE  InstallInv
  <1>1. InstallTypes
    BY DEF Install!Init, InstallTypes
  <1>2. InstallControl /\ InstallTrees /\ InstallBundles
    BY DEF Install!Init, InstallControl, InstallTrees, InstallBundles, Install!HalfIsSeen
  <1>3. InstallMissing
    BY DEF Install!Init, InstallMissing, InSync, Install!ForcedIsFlatpak
  <1> QED BY <1>1, <1>2, <1>3 DEF InstallInv

LEMMA InstallSame ==
  ASSUME Libraries, InstallInv, UNCHANGED Install!vars
  PROVE  InstallInv'
  <1>1. InstallTypes' /\ InstallControl'
    BY DEF InstallInv, InstallTypes, InstallControl, Install!vars, Install!disk, Install!temp,
      Install!e0, Install!k0, Install!os
  <1>2. InstallTrees' /\ InstallBundles'
    BY DEF InstallInv, InstallTrees, InstallBundles, Install!vars, Install!disk, Install!temp,
      Install!e0, Install!k0, Install!os, Install!HalfIsSeen
  <1>3. InstallMissing'
    BY DEF InstallInv, InstallMissing, Install!vars, Install!disk, Install!os, Install!Available,
      Install!Missing, Install!Forced, Install!KindOf, Install!ForcedIsFlatpak, Install!IsFlatpak, InSync
  <1> QED BY <1>1, <1>2, <1>3 DEF InstallInv

\* Dolphin's own data goes only with an installation that has no executable.
LEMMA DataStep ==
  ASSUME Libraries, InstallInv, Install!Next
  PROVE  Install!DataStays
  <1> SUFFICES ASSUME NEW k \in Install!Kinds, "user" \in tree[k], "user" \notin tree'[k]
               PROVE  ~Install!Available(k)
    BY DEF Install!DataStays
  <1>1. /\ InstallTypes /\ InstallControl /\ InstallTrees /\ InstallMissing
        /\ tree \in [Install!Kinds -> SUBSET {"exe", "rest", "user", "intel"}]
    BY DEF InstallInv, InstallTypes
  <1>2. Install!os = "nt"
    BY <1>1 DEF InstallTrees
  <1>3. Install!RemoveOld /\ k = "dolphin"
    <2>1. \/ Install!RemoveOld /\ \E x : tree' = [tree EXCEPT !.dolphin = @ \ {x}]
          \/ \E x : tree' = [tree EXCEPT !.dolphin = @ \cup {x}]
          \/ \E j \in Install!Kinds : tree' = [tree EXCEPT ![j] = @ \ {"exe"}]
      BY <1>2, TreeSteps
    <2> QED BY <1>1, <2>1
  <1>4. pc = "removing" /\ left # {} /\ Install!e0 = "dolphin"
    BY <1>1, <1>3 DEF Install!RemoveOld, InstallControl
  <1>5. Install!e0 \in left
    BY <1>1, <1>4, NextIsLeft
  <1> QED BY <1>1, <1>2, <1>3, <1>4, <1>5 DEF InstallMissing

\* The invariant says what each step promises of the state it leads to.
LEMMA InstallSafe ==
  ASSUME InstallInv
  PROVE  /\ Install!HalfIsSeen /\ Install!BundleIsKept /\ Install!OthersAreInstalled
         /\ Install!ForcedIsFlatpak
  <1>1. Install!BundleIsKept
    BY DEF InstallInv, InstallBundles, Install!BundleIsKept, Install!Resting
  <1>2. Install!OthersAreInstalled
    <2>1. pc = "done" => \A e \in Install!Missing :
            \/ e = "path" \/ Install!Forced(e)
            \/ \E f \in failed : Install!KindOf(f) = Install!KindOf(e)
      BY DEF InstallInv, InstallMissing
    <2> QED BY <2>1 DEF Install!OthersAreInstalled
  <1> QED BY <1>1, <1>2 DEF InstallInv, InstallTrees, InstallMissing

LEMMA InstallInvariant ==
  ASSUME Libraries
  PROVE  Install!Spec => []InstallInv
  <1>1. Install!Init => InstallInv
    BY InstallInit
  <1>2. InstallInv /\ [Install!Next]_Install!vars => InstallInv'
    BY InstallTypesStep, InstallControlStep, InstallTreesStep, InstallMissingStep, InstallBundlesStep,
      InstallSame DEF InstallInv
  <1> QED BY <1>1, <1>2, PTL DEF Install!Spec

\* The installation: everything stays of its type, in particular a bundle is
\* aside only while nothing is in its place (installer.py, install_macos.py).
THEOREM InstallationTypes ==
  ASSUME Libraries
  PROVE  Install!Spec => []Install!TypeOK
  <1>1. InstallInv => Install!TypeOK
    BY DEF InstallInv, InstallTypes, InstallControl, Install!TypeOK, Install!Whole
  <1> QED BY <1>1, InstallInvariant, PTL

\* Wherever a sync is killed and whatever fails, a half-done installation does
\* not pass for an emulator, but that of Dolphin on Windows does; a bundle is not
\* lost, unless the sync is killed between the two moves or the move back fails
\* too; a sync that ends in order has installed the others; and Dolphin's data
\* goes only where there is no Dolphin (ensure_emulators, _install_macos_official_asset,
\* _install_dolphin_from_official_release_archive).
THEOREM InstallationsAreSafe ==
  ASSUME Libraries
  PROVE  Install!Spec => [][Install!InstallIsSafe]_Install!vars
  <1>1. InstallInv /\ InstallInv' /\ [Install!Next]_Install!vars => [Install!InstallIsSafe]_Install!vars
    <2> SUFFICES ASSUME InstallInv, InstallInv', Install!Next
                 PROVE  Install!InstallIsSafe
      OBVIOUS
    <2>1. Install!DataStays
      BY DataStep
    <2>2. InstallInv' => /\ Install!HalfIsSeen' /\ Install!BundleIsKept' /\ Install!OthersAreInstalled'
                         /\ Install!ForcedIsFlatpak'
      BY InstallSafe, PTL
    <2> QED BY <2>1, <2>2 DEF Install!InstallIsSafe
  <1> QED BY <1>1, InstallInvariant, PTL DEF Install!Spec

-----------------------------------------------------------------------------
(* Exact saves.                                                            *)

Bounded == MaxFiles \in Nat
SaveRoots == {"retroarch_saves", "retroarch_saves_psx", "pcsx2_memcards"}
SaveDirs == {"root", "core", "other", "deep", "system", "systemCore"}

\* The module of the exact saves counts as this one does.
LEMMA SameCountOfFiles == \A S : Exact!Cardinality(S) = Cardinality(S)
  BY DEF Exact!Cardinality, Cardinality

\* The files there are, and the directories below those of any core.
ExactTypes ==
  /\ family \in SaveRoots
  /\ Exact!Here \subseteq Exact!Paths /\ IsFiniteSet(Exact!Here)
  /\ Cardinality(Exact!Here) <= MaxFiles
  /\ (\E p \in Exact!Here : Exact!InCoreDir(p)) => coreDir

\* What was downloaded last is what the next search would find.
Remembered ==
  last # Exact!NoPath =>
    /\ last[1] \in Names /\ last[2][2] \in Names /\ last[2] # Exact!NoPath
    /\ Exact!Destination(last[1]) = last[2] /\ Exact!Existing(last[2][2]) = last[2]

ExactInv == ExactTypes /\ Remembered

\* Where a save of this name is looked for first.
LEMMA PreferredIs ==
  ASSUME ExactTypes
  PROVE  /\ Exact!Preferred \in Seq(SaveDirs) /\ Len(Exact!Preferred) >= 1
         /\ \A i \in 1 .. Len(Exact!Preferred) : Exact!Preferred[i] \in Exact!Folders
         /\ Head(Exact!Preferred) = Exact!Preferred[1]
         /\ Exact!PrefersCore => Exact!Preferred = <<"core">> /\ family = "retroarch_saves"
  <1>1. \A d \in {"root", "core"} : d \in Exact!Folders /\ d \in SaveDirs
    BY DEF SaveDirs, Exact!Folders
  <1>2. ASSUME NEW d, Exact!Preferred = <<d>>, d \in {"root", "core"}
        PROVE  /\ Exact!Preferred \in Seq(SaveDirs) /\ Len(Exact!Preferred) >= 1
               /\ \A i \in 1 .. Len(Exact!Preferred) : Exact!Preferred[i] \in Exact!Folders
               /\ Head(Exact!Preferred) = Exact!Preferred[1]
    <2>1. d \in Exact!Folders /\ d \in SaveDirs
      BY <1>1, <1>2
    <2> QED BY ONLY <1>2, <2>1
  <1>3. ASSUME NEW d, NEW e, Exact!Preferred = <<d, e>>,
               d \in Exact!Folders, e \in Exact!Folders, d \in SaveDirs, e \in SaveDirs
        PROVE  /\ Exact!Preferred \in Seq(SaveDirs) /\ Len(Exact!Preferred) >= 1
               /\ \A i \in 1 .. Len(Exact!Preferred) : Exact!Preferred[i] \in Exact!Folders
               /\ Head(Exact!Preferred) = Exact!Preferred[1]
    BY ONLY <1>3
  <1>4. CASE family = "retroarch_saves_psx"
    <2>1. Exact!Preferred = <<"core", "systemCore">> \/ Exact!Preferred = <<"root", "system">>
      BY <1>4 DEF Exact!Preferred
    <2>2. ~Exact!PrefersCore
      BY <1>4 DEF Exact!PrefersCore
    <2>3. \A d \in {"system", "systemCore"} : d \in Exact!Folders /\ d \in SaveDirs
      BY <1>4 DEF SaveDirs, Exact!Folders
    <2> QED BY <1>1, <1>3, <2>1, <2>2, <2>3
  <1>5. CASE family # "retroarch_saves_psx"
    <2>1. Exact!Preferred = <<"core">> \/ Exact!Preferred = <<"root">>
      BY <1>5 DEF Exact!Preferred
    <2>2. Exact!PrefersCore => Exact!Preferred = <<"core">> /\ family = "retroarch_saves"
      BY <1>5 DEF Exact!Preferred, Exact!PrefersCore
    <2> QED BY <1>2, <2>1, <2>2
  <1> QED BY <1>4, <1>5

\* The path a save of this name has when there is no other choice.
LEMMA DefaultIs ==
  ASSUME ExactTypes, NEW name \in Names
  PROVE  /\ Exact!Default(name) \in Exact!Paths /\ Exact!Default(name)[2] = name
         /\ Exact!Default(name) = <<Exact!Preferred[1], name>>
         /\ Exact!PrefersCore => Exact!Default(name) = <<"core", name>>
  <1>1. Exact!Preferred[1] \in Exact!Folders
    BY PreferredIs
  <1>2. Exact!Default(name) = <<Exact!Preferred[1], name>>
    BY PreferredIs DEF Exact!Default
  <1>3. Exact!PrefersCore => Exact!Preferred[1] = "core"
    BY PreferredIs
  <1> QED BY <1>1, <1>2, <1>3 DEF Exact!Paths

\* No path of a file is the one that stands for none.
LEMMA NoPathIsNone ==
  ASSUME ExactTypes
  PROVE  Exact!NoPath \notin Exact!Paths /\ \A p \in Exact!Paths : p = <<p[1], p[2]>> /\ p[2] \in Names
  BY DEF Exact!NoPath, Exact!Paths, Exact!Folders

LEMMA PreferredHere ==
  ASSUME ExactTypes, NEW name \in Names, NEW p, p = Exact!ExistingPreferred(name)
  PROVE  /\ p # Exact!NoPath => p \in Exact!Here /\ p[2] = name
         /\ \A i \in 1 .. Len(Exact!Preferred) :
              <<Exact!Preferred[i], name>> \in Exact!Here => p # Exact!NoPath
         /\ Exact!Default(name) \in Exact!Here => p = Exact!Default(name)
         /\ Exact!PrefersCore => p \in {Exact!Default(name), Exact!NoPath}
  <1> DEFINE s == Exact!Preferred
             I == {i \in 1 .. Len(s) : <<s[i], name>> \in Exact!Here}
             first == IF I # {} THEN CHOOSE x \in I : \A y \in I : x =< y ELSE 0
  <1>1. p = IF first = 0 THEN Exact!NoPath ELSE <<s[first], name>>
    BY DEF Exact!ExistingPreferred, Exact!SelectInSeq, Exact!Min
  <1>2. I \in SUBSET Nat /\ 0 \notin I /\ Len(s) \in Nat /\ Len(s) >= 1
    BY PreferredIs
  <1>3. I # {} => first \in I /\ \A y \in I : first <= y
    <2>1. I # {} => \E x \in I : \A y \in I : x <= y
      <3> HIDE DEF I
      <3> QED BY <1>2, Smallest
    <2> HIDE DEF I
    <2> QED BY <2>1
  <1>4. I = {} => first = 0
    OBVIOUS
  <1> HIDE DEF first
  <1>5. I # {} => p = <<s[first], name>> /\ p \in Exact!Here /\ p # Exact!NoPath /\ p[2] = name
    <2>1. I # {} => first # 0 /\ first \in 1 .. Len(s) /\ <<s[first], name>> \in Exact!Here
      BY <1>2, <1>3
    <2>2. Exact!NoPath \notin Exact!Here
      BY NoPathIsNone DEF ExactTypes
    <2> HIDE DEF I
    <2> QED BY <1>1, <2>1, <2>2
  <1>6. I = {} => p = Exact!NoPath
    BY <1>1, <1>4
  <1>7. <<s[1], name>> \in Exact!Here => p = <<s[1], name>>
    <2>1. <<s[1], name>> \in Exact!Here => 1 \in I
      BY <1>2
    <2>2. 1 \in I => first = 1
      <3>1. \A y \in I : y \in Nat /\ y >= 1
        BY <1>2
      <3>2. 1 \in I => first \in I /\ first <= 1
        <4> HIDE DEF I
        <4> QED BY <1>3
      <3> HIDE DEF I
      <3> QED BY <3>1, <3>2
    <2> HIDE DEF I
    <2> QED BY <1>5, <2>1, <2>2
  <1>8. Exact!Default(name) = <<s[1], name>>
    BY DefaultIs
  <1>9. \A i \in 1 .. Len(s) : <<s[i], name>> \in Exact!Here => I # {}
    OBVIOUS
  <1>10. Exact!PrefersCore => I = {} \/ 1 \in I
    <2>1. Exact!PrefersCore => Len(s) = 1
      BY PreferredIs
    <2>2. Exact!PrefersCore => \A i \in I : i = 1
      BY <1>2, <2>1
    <2> HIDE DEF I
    <2> QED BY <2>2
  <1>11. Exact!PrefersCore => p \in {Exact!Default(name), Exact!NoPath}
    <2>1. 1 \in I => <<s[1], name>> \in Exact!Here
      OBVIOUS
    <2> HIDE DEF I
    <2> QED BY <1>6, <1>7, <1>8, <1>10, <2>1
  <1>12. p # Exact!NoPath => p \in Exact!Here /\ p[2] = name
    <2> HIDE DEF I
    <2> QED BY <1>5, <1>6
  <1>13. \A i \in 1 .. Len(s) : <<s[i], name>> \in Exact!Here => p # Exact!NoPath
    <2> HIDE DEF I
    <2> QED BY <1>5, <1>9
  <1> QED BY <1>7, <1>8, <1>11, <1>12, <1>13

\* The file found for a name.
LEMMA ExistingIs ==
  ASSUME ExactTypes, NEW name \in Names
  PROVE  /\ Exact!Existing(name) # Exact!NoPath =>
              Exact!Existing(name) \in Exact!Here /\ Exact!Existing(name)[2] = name
         /\ Exact!Default(name) \in Exact!Here => Exact!Existing(name) = Exact!Default(name)
         /\ Exact!PrefersCore => Exact!Existing(name) \in {Exact!Default(name), Exact!NoPath}
         /\ \A p \in Exact!Here : /\ p[2] = name /\ (\A q \in Exact!Here : q[2] = name => q = p)
                                  /\ ~Exact!PrefersCore
              => Exact!Existing(name) # Exact!NoPath
  <1> DEFINE found == {q \in Exact!Here : q[2] = name}
  <1>1. PICK p : p = Exact!ExistingPreferred(name)
    OBVIOUS
  <1>2. Exact!Existing(name) =
          IF p # Exact!NoPath THEN p
          ELSE IF ~Exact!PrefersCore /\ Cardinality(found) = 1 THEN CHOOSE q \in found : TRUE
          ELSE Exact!NoPath
    BY <1>1, SameCountOfFiles DEF Exact!Existing
  <1>3. Cardinality(found) = 1 => found # {}
    BY FS_EmptySet
  <1>4. Cardinality(found) = 1 => (CHOOSE q \in found : TRUE) \in Exact!Here /\ (CHOOSE q \in found : TRUE)[2] = name
    BY <1>3
  <1>5. Exact!NoPath \notin Exact!Here /\ Exact!Default(name) # Exact!NoPath
    BY NoPathIsNone, DefaultIs DEF ExactTypes
  <1>6. ASSUME NEW q \in Exact!Here, q[2] = name, \A r \in Exact!Here : r[2] = name => r = q
        PROVE  Cardinality(found) = 1
    <2>1. found = {q}
      BY <1>6
    <2> QED BY <2>1, FS_Singleton
  <1>7. /\ p # Exact!NoPath => p \in Exact!Here /\ p[2] = name
        /\ Exact!Default(name) \in Exact!Here => p = Exact!Default(name)
        /\ Exact!PrefersCore => p \in {Exact!Default(name), Exact!NoPath}
    BY <1>1, PreferredHere
  <1> HIDE DEF found
  <1> QED BY <1>2, <1>4, <1>5, <1>6, <1>7

\* Where a save of this name comes down to.
LEMMA DestinationIs ==
  ASSUME ExactTypes, NEW name \in Names, NEW d, d = Exact!Destination(name)
  PROVE  /\ Exact!PrefersCore => d = Exact!Default(name)
         /\ ~Exact!PrefersCore =>
              \/ d = Exact!Default(name) /\ Exact!Existing(name) \in {d, Exact!NoPath}
              \/ \E n \in Names : d = Exact!Existing(n) /\ d # Exact!NoPath
         /\ ~Exact!PrefersCore /\ Exact!Existing(name) # Exact!NoPath => d = Exact!Existing(name)
         /\ ~Exact!PrefersCore /\ d # Exact!Default(name) /\ Exact!Existing(name) = Exact!NoPath =>
              Exact!Cardinality({Exact!Existing(n) : n \in Names} \ {Exact!NoPath}) = 1
  <1> DEFINE others == {Exact!Existing(n) : n \in Names} \ {Exact!NoPath}
  <1>1. d = IF Exact!PrefersCore THEN Exact!Default(name)
            ELSE IF Exact!Existing(name) # Exact!NoPath THEN Exact!Existing(name)
            ELSE IF Exact!Cardinality(others) = 1 THEN CHOOSE p \in others : TRUE
            ELSE Exact!Default(name)
    BY DEF Exact!Destination
  <1>2. Exact!Cardinality(others) = 1 => others # {}
    BY FS_EmptySet, SameCountOfFiles
  <1>3. Exact!Cardinality(others) = 1 => (CHOOSE p \in others : TRUE) \in others
    BY <1>2
  <1>4. \A p \in others : \E n \in Names : p = Exact!Existing(n) /\ p # Exact!NoPath
    OBVIOUS
  <1> HIDE DEF others
  <1>5. /\ Exact!PrefersCore => d = Exact!Default(name)
        /\ ~Exact!PrefersCore =>
              \/ d = Exact!Default(name) /\ Exact!Existing(name) \in {d, Exact!NoPath}
              \/ \E n \in Names : d = Exact!Existing(n) /\ d # Exact!NoPath
        /\ ~Exact!PrefersCore /\ Exact!Existing(name) # Exact!NoPath => d = Exact!Existing(name)
    BY <1>1, <1>3, <1>4
  <1>6. ~Exact!PrefersCore /\ d # Exact!Default(name) /\ Exact!Existing(name) = Exact!NoPath =>
          Exact!Cardinality(others) = 1
    BY <1>1
  <1> QED BY <1>5, <1>6 DEF others

\* What a download comes down to is one path of a file, and a file that is
\* there already is found by its own name.
LEMMA DestinationFound ==
  ASSUME ExactTypes, NEW name \in Names, NEW d, d = Exact!Destination(name)
  PROVE  /\ d \in Exact!Paths /\ d # Exact!NoPath /\ d[2] \in Names
         /\ d \in Exact!Here => Exact!Existing(d[2]) = d
         /\ d \notin Exact!Here => d = Exact!Default(name)
  <1>1. Exact!Here \subseteq Exact!Paths
    BY DEF ExactTypes
  <1>2. CASE d = Exact!Default(name)
    BY <1>2, DefaultIs, ExistingIs, NoPathIsNone
  <1>3. CASE d # Exact!Default(name)
    <2>1. PICK n \in Names : d = Exact!Existing(n) /\ d # Exact!NoPath
      BY <1>3, DestinationIs
    <2>2. d \in Exact!Here /\ d[2] = n
      BY <2>1, ExistingIs
    <2> QED BY <1>1, <2>1, <2>2
  <1> QED BY <1>2, <1>3

\* The searches, in one formula.
Searches ==
  \A name \in Names :
    /\ Exact!Default(name)[2] = name
    /\ Exact!Default(name) \in Exact!Here => Exact!Existing(name) = Exact!Default(name)
    /\ Exact!PrefersCore => Exact!Destination(name) = Exact!Default(name)
    /\ Exact!PrefersCore => Exact!Default(name) = <<"core", name>>
    /\ ~Exact!PrefersCore /\ Exact!Existing(name) # Exact!NoPath =>
         Exact!Destination(name) = Exact!Existing(name)
    /\ Exact!Default(name) # Exact!NoPath

LEMMA SearchesHold == ExactTypes => Searches
  BY DefaultIs, ExistingIs, DestinationIs, NoPathIsNone DEF Searches

LEMMA SearchesHoldNext == ExactTypes' => Searches'
  BY SearchesHold, PTL

\* The searches depend on the files there are and on the preferred directories.
LEMMA SearchesSame ==
  ASSUME Exact!Here' = Exact!Here, Exact!PrefersCore' = Exact!PrefersCore, Exact!Preferred' = Exact!Preferred
  PROVE  \A n : Exact!Existing(n)' = Exact!Existing(n) /\ Exact!Destination(n)' = Exact!Destination(n)
                /\ Exact!Default(n)' = Exact!Default(n)
  <1>1. \A n : Exact!ExistingPreferred(n)' = Exact!ExistingPreferred(n)
    BY DEF Exact!ExistingPreferred, Exact!SelectInSeq, Exact!Min, Exact!NoPath
  <1>2. \A n : Exact!Existing(n)' = Exact!Existing(n)
    BY <1>1 DEF Exact!Existing, Exact!NoPath
  <1>3. \A n : Exact!Default(n)' = Exact!Default(n)
    BY DEF Exact!Default
  <1>4. {Exact!Existing(n) : n \in Names}' = {Exact!Existing(n) : n \in Names}
    BY <1>2
  <1>5. \A n : Exact!Destination(n)' = Exact!Destination(n)
    <2>1. PICK o : o = {Exact!Existing(n) : n \in Names} \ {Exact!NoPath}
      OBVIOUS
    <2>2. o = ({Exact!Existing(n) : n \in Names} \ {Exact!NoPath})'
      BY <1>4, <2>1 DEF Exact!NoPath
    <2> DEFINE To(core, found, default) ==
          IF core THEN default ELSE IF found # Exact!NoPath THEN found
          ELSE IF Exact!Cardinality(o) = 1 THEN CHOOSE p \in o : TRUE ELSE default
    <2>3. \A n : Exact!Destination(n) = To(Exact!PrefersCore, Exact!Existing(n), Exact!Default(n))
      BY <2>1 DEF Exact!Destination
    <2>4. \A n : Exact!Destination(n)' = To(Exact!PrefersCore', Exact!Existing(n)', Exact!Default(n)')
      BY <2>2 DEF Exact!Destination, Exact!NoPath
    <2> HIDE DEF To
    <2> QED BY <1>2, <1>3, <2>3, <2>4
  <1> QED BY <1>2, <1>3, <1>5

LEMMA SortsSame ==
  ASSUME UNCHANGED <<family, confs>>
  PROVE  /\ Exact!SortsByCore' = Exact!SortsByCore /\ Exact!Folders' = Exact!Folders
         /\ Exact!Paths' = Exact!Paths
  BY DEF Exact!SortsByCore, Exact!SelectInSeq, Exact!Min, Exact!Folders, Exact!Paths

LEMMA PreferredSame ==
  ASSUME UNCHANGED <<family, confs>>, coreDir' = coreDir
  PROVE  Exact!PrefersCore' = Exact!PrefersCore /\ Exact!Preferred' = Exact!Preferred
  BY SortsSame DEF Exact!PrefersCore, Exact!Preferred

\* A file more.
LEMMA FileIsAdded ==
  ASSUME Bounded, ExactTypes, NEW p \in Exact!Paths, UNCHANGED family, Exact!Here' = Exact!Here \cup {p},
         p \in Exact!Here \/ Cardinality(Exact!Here) < MaxFiles,
         coreDir' = (coreDir \/ Exact!InCoreDir(p))
  PROVE  ExactTypes'
  <1>1. IsFiniteSet(Exact!Here) /\ Cardinality(Exact!Here) \in Nat /\ Cardinality(Exact!Here) <= MaxFiles
    BY FS_CardinalityType DEF ExactTypes
  <1>2. /\ IsFiniteSet(Exact!Here \cup {p})
        /\ Cardinality(Exact!Here \cup {p}) =
             IF p \in Exact!Here THEN Cardinality(Exact!Here) ELSE Cardinality(Exact!Here) + 1
    BY <1>1, FS_AddElement
  <1>3. IsFiniteSet(Exact!Here') /\ Cardinality(Exact!Here') <= MaxFiles
    BY <1>1, <1>2 DEF Bounded
  <1>4. Exact!Here' \subseteq Exact!Paths'
    BY DEF ExactTypes, Exact!Paths, Exact!Folders
  <1>5. (\E q \in Exact!Here' : Exact!InCoreDir(q)') => coreDir'
    BY DEF ExactTypes, Exact!InCoreDir
  <1> QED BY <1>3, <1>4, <1>5 DEF ExactTypes

LEMMA DownloadKeeps ==
  ASSUME Bounded, ExactInv, NEW name \in Names, Exact!Download(name)
  PROVE  ExactInv'
  <1>1. PICK d : d = Exact!Destination(name)
    OBVIOUS
  <1>2. /\ Exact!Here' = Exact!Here \cup {d} /\ coreDir' = (coreDir \/ Exact!InCoreDir(d))
        /\ last' = <<name, d>> /\ UNCHANGED <<family, confs>>
        /\ d \in Exact!Here \/ Cardinality(Exact!Here) < MaxFiles
    BY <1>1, SameCountOfFiles DEF Exact!Download, Exact!Here
  <1>3. /\ ExactTypes /\ d \in Exact!Paths /\ d # Exact!NoPath /\ d[2] \in Names
        /\ d \in Exact!Here => Exact!Existing(d[2]) = d
        /\ d \notin Exact!Here => d = Exact!Default(name)
    BY <1>1, DestinationFound DEF ExactInv
  <1>4. ExactTypes'
    BY <1>2, <1>3, FileIsAdded
  <1>5. Searches /\ Searches'
    BY <1>3, <1>4, SearchesHold, SearchesHoldNext
  <1>6. Exact!Destination(name)' = d /\ Exact!Existing(d[2])' = d
    <2>1. CASE Exact!PrefersCore
      <3>1. d = <<"core", name>>
        BY <1>1, <1>5, <2>1 DEF Searches
      <3>2. coreDir' /\ family = "retroarch_saves"
        BY <1>2, <2>1, <3>1 DEF Exact!InCoreDir, Exact!PrefersCore
      <3>3. Exact!PrefersCore'
        BY <1>2, <3>2 DEF Exact!PrefersCore
      <3>4. Exact!Destination(name)' = d /\ Exact!Default(name)' = d
        BY <1>5, <3>1, <3>3 DEF Searches
      <3>5. d \in Exact!Here' /\ d[2] = name
        BY <1>2, <3>1
      <3> QED BY <1>5, <3>4, <3>5 DEF Searches
    <2>2. CASE ~Exact!PrefersCore /\ d \in Exact!Here
      <3>1. Exact!Here' = Exact!Here
        BY <1>2, <2>2
      <3>2. coreDir' = coreDir \/ (coreDir' <=> coreDir)
        BY <1>2, <1>3, <2>2 DEF ExactTypes
      <3>3. Exact!PrefersCore' = Exact!PrefersCore /\ Exact!Preferred' = Exact!Preferred
        <4>1. Exact!PrefersCore' <=> Exact!PrefersCore
          BY <1>2, <3>2, SortsSame DEF Exact!PrefersCore
        <4> QED BY <1>2, <4>1, SortsSame DEF Exact!Preferred, Exact!PrefersCore
      <3> QED BY <1>1, <1>3, <2>2, <3>1, <3>3, SearchesSame
    <2>3. CASE ~Exact!PrefersCore /\ d \notin Exact!Here
      <3>1. d = Exact!Default(name) /\ d[2] = name
        BY <1>3, <1>5, <2>3 DEF Searches
      <3>2. ~Exact!PrefersCore' /\ Exact!Default(name)' = d
        <4>1. ~Exact!InCoreDir(d) \/ family # "retroarch_saves"
          <5>1. family = "retroarch_saves" => d = <<"root", name>>
            BY <2>3, <3>1 DEF Exact!Default, Exact!Preferred
          <5> QED BY <5>1 DEF Exact!InCoreDir
        <4>2. Exact!PrefersCore' <=> Exact!PrefersCore
          <5>1. family # "retroarch_saves" \/ (coreDir' <=> coreDir)
            BY <1>2, <4>1
          <5> QED BY <1>2, <5>1, SortsSame DEF Exact!PrefersCore
        <4>3. Exact!Preferred' = Exact!Preferred
          BY <1>2, <4>2, SortsSame DEF Exact!Preferred
        <4> QED BY <2>3, <3>1, <4>2, <4>3 DEF Exact!Default
      <3>3. Exact!Existing(name)' = d
        BY <1>2, <1>5, <3>2 DEF Searches
      <3> QED BY <1>3, <1>5, <3>1, <3>2, <3>3 DEF Searches, Exact!NoPath
    <2> QED BY <2>1, <2>2, <2>3
  <1>7. Remembered'
    BY <1>2, <1>3, <1>6 DEF Remembered, Exact!NoPath
  <1> QED BY <1>4, <1>7 DEF ExactInv

LEMMA ExactStep ==
  ASSUME Bounded, ExactInv, [Exact!Next]_Exact!vars
  PROVE  ExactInv'
  <1>1. CASE \E p \in Exact!Paths : Exact!EmulatorSaves(p)
    <2>1. PICK p \in Exact!Paths : Exact!EmulatorSaves(p)
      BY <1>1
    <2>2. Exact!Here' = Exact!Here \cup {p}
      BY <2>1 DEF Exact!EmulatorSaves, Exact!Here
    <2>3. ExactTypes'
      BY <2>1, <2>2, FileIsAdded, SameCountOfFiles DEF Exact!EmulatorSaves, ExactInv
    <2> QED BY <2>1, <2>3 DEF Exact!EmulatorSaves, ExactInv, Remembered, Exact!NoPath
  <1>2. CASE \E p \in Exact!Here : Exact!UserRemoves(p)
    <2>1. PICK p \in Exact!Here : Exact!UserRemoves(p)
      BY <1>2
    <2>2. Exact!Here' = Exact!Here \ {p} /\ UNCHANGED <<family, confs>>
      BY <2>1 DEF Exact!UserRemoves, Exact!Here
    <2>3. /\ ExactTypes /\ IsFiniteSet(Exact!Here) /\ Cardinality(Exact!Here) \in Nat
          /\ Cardinality(Exact!Here) <= MaxFiles
      BY FS_CardinalityType DEF ExactInv, ExactTypes
    <2>4. IsFiniteSet(Exact!Here \ {p}) /\ Cardinality(Exact!Here \ {p}) = Cardinality(Exact!Here) - 1
      BY <2>3, FS_RemoveElement
    <2>5. IsFiniteSet(Exact!Here') /\ Cardinality(Exact!Here') <= MaxFiles
      BY <2>2, <2>3, <2>4 DEF Bounded
    <2>6. (\E q \in Exact!Here' : Exact!InCoreDir(q)') => coreDir'
      <3>1. (\E q \in Exact!Here \ {p} : Exact!InCoreDir(q)) => coreDir
        BY <2>3 DEF ExactTypes
      <3>2. coreDir' = coreDir \/ coreDir' = (\E q \in Exact!Here \ {p} : Exact!InCoreDir(q))
        BY <2>1 DEF Exact!UserRemoves
      <3>3. (\E q \in Exact!Here \ {p} : Exact!InCoreDir(q)) => coreDir'
        BY <3>1, <3>2
      <3> QED BY <2>2, <3>3 DEF Exact!InCoreDir
    <2>7. ExactTypes'
      BY <2>2, <2>3, <2>5, <2>6, SortsSame DEF ExactTypes
    <2> QED BY <2>1, <2>7 DEF Exact!UserRemoves, ExactInv, Remembered, Exact!NoPath
  <1>3. CASE Exact!UserSorts
    <2>1. UNCHANGED <<family, files, coreDir>> /\ last' = Exact!NoPath
      BY <1>3 DEF Exact!UserSorts
    <2> QED BY <2>1 DEF ExactInv, ExactTypes, Remembered, Exact!Here, Exact!Paths, Exact!Folders,
      Exact!InCoreDir, Exact!NoPath
  <1>4. CASE \E name \in Names : Exact!Download(name)
    BY <1>4, DownloadKeeps
  <1>5. CASE UNCHANGED Exact!vars
    <2>1. /\ UNCHANGED <<family, confs, files, coreDir, last>> /\ Exact!Here' = Exact!Here
          /\ Exact!PrefersCore' = Exact!PrefersCore /\ Exact!Preferred' = Exact!Preferred
      BY <1>5, PreferredSame DEF Exact!vars, Exact!Here
    <2>2. ExactTypes'
      BY <2>1, SortsSame DEF ExactInv, ExactTypes, Exact!InCoreDir
    <2>3. Remembered'
      BY <2>1, SearchesSame DEF ExactInv, Remembered, Exact!NoPath
    <2> QED BY <2>2, <2>3 DEF ExactInv
  <1> QED BY <1>1, <1>2, <1>3, <1>4, <1>5 DEF Exact!Next

LEMMA ExactInvariant ==
  ASSUME Bounded
  PROVE  Exact!Spec => []ExactInv
  <1>1. Exact!Init => ExactInv
    <2> SUFFICES ASSUME Exact!Init PROVE ExactInv
      OBVIOUS
    <2>1. Exact!Here = {}
      BY DEF Exact!Init, Exact!Here
    <2>2. ExactTypes
      BY <2>1, FS_EmptySet DEF Exact!Init, ExactTypes, SaveRoots, Bounded
    <2> QED BY <2>2 DEF ExactInv, Exact!Init, Remembered
  <1>2. ExactInv /\ [Exact!Next]_Exact!vars => ExactInv'
    BY ExactStep
  <1> QED BY <1>1, <1>2, PTL DEF Exact!Spec

\* Every name comes down to a path of the save's directories, and what is found
\* for it is a file there is (_existing_exact_path).
THEOREM ExactTypesHold ==
  ASSUME Bounded
  PROVE  Exact!Spec => []Exact!TypeOK
  <1>1. ExactInv => Exact!TypeOK
    <2> SUFFICES ASSUME ExactInv PROVE Exact!TypeOK
      OBVIOUS
    <2>1. ExactTypes
      BY DEF ExactInv
    <2>2. ASSUME NEW name \in Names
          PROVE  Exact!Destination(name) \in Exact!Paths /\ Exact!Existing(name) \in Exact!Here \cup {Exact!NoPath}
      BY <2>1, DestinationFound, ExistingIs
    <2> QED BY <2>1, <2>2, SameCountOfFiles DEF Exact!TypeOK, ExactTypes
  <1> QED BY <1>1, ExactInvariant, PTL

\* Discovery and download agree on the file of a save, for every set of names,
\* any configuration of RetroArch and wherever its files lie
\* (discover_local_exact_save_candidates, _resolve_exact_binding_destination).
THEOREM SearchesAgree ==
  ASSUME Bounded
  PROVE  Exact!Spec => []Exact!DiscoveryAgrees
  <1>1. ExactInv => Exact!DiscoveryAgrees
    <2> SUFFICES ASSUME ExactInv PROVE Exact!DiscoveryAgrees
      OBVIOUS
    <2>1. ExactTypes /\ Searches /\ Exact!Here \subseteq Exact!Paths
      BY SearchesHold DEF ExactInv, ExactTypes
    <2>2. \A n \in Names : Exact!Existing(n) # Exact!NoPath =>
            n \in DOMAIN Exact!Discovered /\ Exact!Discovered[n] = Exact!Existing(n)
      BY DEF Exact!Discovered
    <2>3. Exact!DownloadIsFound
      BY <2>2 DEF ExactInv, Remembered, Exact!DownloadIsFound
    <2>4. Exact!SeenBeforeOverwritten
      <3> SUFFICES ASSUME NEW name \in Names, Exact!Destination(name) \in Exact!Here
                   PROVE  \E n \in DOMAIN Exact!Discovered : Exact!Discovered[n] = Exact!Destination(name)
        BY DEF Exact!SeenBeforeOverwritten
      <3>1. PICK d : d = Exact!Destination(name)
        OBVIOUS
      <3>2. d[2] \in Names /\ d # Exact!NoPath /\ Exact!Existing(d[2]) = d
        BY <2>1, <3>1, DestinationFound
      <3> QED BY <2>2, <3>1, <3>2
    <2>5. Exact!OneFileEach
      <3> SUFFICES ASSUME NEW a \in Names, NEW b \in Names, a # b,
                          Exact!Destination(a) = Exact!Destination(b)
                   PROVE  Exact!Cardinality({Exact!Existing(n) : n \in Names} \ {Exact!NoPath}) = 1
        BY DEF Exact!OneFileEach
      <3>1. PICK d : d = Exact!Destination(a)
        OBVIOUS
      <3>2. Exact!Default(a)[2] = a /\ Exact!Default(b)[2] = b
        BY <2>1 DEF Searches
      <3>3. ~Exact!PrefersCore
        BY <2>1, <3>2 DEF Searches
      <3>4. \A n \in {a, b} : Exact!Existing(n) # Exact!NoPath => d[2] = n
        BY <2>1, <3>1, <3>3, ExistingIs DEF Searches
      <3>5. PICK n \in {a, b} : Exact!Existing(n) = Exact!NoPath /\ d # Exact!Default(n)
        <4>1. d = Exact!Default(a) => d[2] = a
          BY <3>2
        <4>2. d = Exact!Default(b) => d[2] = b
          BY <3>2
        <4> QED BY <3>4, <4>1, <4>2
      <3>6. d = Exact!Destination(n)
        BY <3>1
      <3> QED BY <2>1, <3>3, <3>5, <3>6, DestinationIs
    <2>6. Exact!OnlyFileIsFound
      <3> SUFFICES ASSUME NEW p \in Exact!Here, \A q \in Exact!Here : q[2] = p[2] => q = p,
                          p[2] \notin DOMAIN Exact!Discovered
                   PROVE  Exact!PrefersCore /\ p[1] # "core"
        BY DEF Exact!OnlyFileIsFound
      <3>1. p[2] \in Names /\ p = <<p[1], p[2]>>
        BY <2>1, NoPathIsNone
      <3>2. PICK name \in Names : name = p[2]
        BY <3>1
      <3>3. Exact!Existing(name) = Exact!NoPath
        BY <2>2, <3>2
      <3>4. Exact!PrefersCore
        BY <2>1, <3>2, <3>3, ExistingIs
      <3>5. p[1] # "core"
        <4>1. p[1] = "core" => p = Exact!Default(name)
          BY <2>1, <3>1, <3>2, <3>4 DEF Searches
        <4> QED BY <2>1, <3>3, <4>1 DEF Searches
      <3> QED BY <3>4, <3>5
    <2> QED BY <2>3, <2>4, <2>5, <2>6 DEF Exact!DiscoveryAgrees
  <1> QED BY <1>1, ExactInvariant, PTL

-----------------------------------------------------------------------------
(* Learned saves.                                                          *)

\* The rules there are.
LearnRules == Rules \subseteq {"gc", "wii", "n3ds"}

\* A part of a sequence, and two sequences one after the other, by their elements.
LEMMA PartIs ==
  ASSUME NEW S, NEW s \in Seq(S), NEW r \in Seq(S), NEW m \in Nat \ {0}, NEW n \in Nat,
         n <= Len(s), Len(r) + m = n + 1, \A i \in 1 .. Len(r) : r[i] = s[i + m - 1]
  PROVE  SubSeq(s, m, n) = r
  OBVIOUS

LEMMA JoinedIs ==
  ASSUME NEW S, NEW s \in Seq(S), NEW r \in Seq(S), NEW u \in Seq(S), Len(u) = Len(s) + Len(r),
         \A i \in 1 .. Len(s) : u[i] = s[i], \A i \in 1 .. Len(r) : u[i + Len(s)] = r[i]
  PROVE  s \o r = u
  OBVIOUS

\* The segments of the paths, and where the games play from under a profile.
Segments ==
  {"USA", "EUR", "JAP", "Card A", "Card B", "title", "00010000", "data.bin", "Nintendo 3DS",
   "00040000", "data", "save"} \cup Titles \cup Profiles
Played(x, t) ==
  CASE rule = "gc" -> <<"USA", "Card A", t>>
    [] rule = "wii" -> <<"title", "00010000", t, "data.bin">>
    [] rule = "n3ds" -> <<"Nintendo 3DS", x, x, "title", "00040000", t, "data", "save">>

\* The length of a root, and the segment with the title.
Depth == IF rule = "gc" THEN 2 ELSE IF rule = "wii" THEN 3 ELSE 7
TitleAt == IF rule = "n3ds" THEN 6 ELSE 3

LEMMA PatternIs ==
  ASSUME rule \in {"gc", "wii", "n3ds"}
  PROVE  Len(Learned!Pattern) = Depth /\ DOMAIN Learned!Pattern = 1 .. Depth
  <1>1. CASE rule = "gc"
    BY <1>1 DEF Learned!Pattern, Depth
  <1>2. CASE rule = "wii"
    BY <1>2 DEF Learned!Pattern, Depth
  <1>3. CASE rule = "n3ds"
    BY <1>3 DEF Learned!Pattern, Depth
  <1> QED BY <1>1, <1>2, <1>3

\* Sequences of these lengths, and the numbers up to them.
LEMMA ThreeIs ==
  ASSUME NEW S, NEW a \in S, NEW b \in S, NEW c \in S, NEW p, p = <<a, b, c>>
  PROVE  /\ p \in Seq(S) /\ Len(p) = 3 /\ DOMAIN p = 1 .. 3
         /\ p[1] = a /\ p[2] = b /\ p[3] = c
  OBVIOUS

LEMMA FourIs ==
  ASSUME NEW S, NEW a \in S, NEW b \in S, NEW c \in S, NEW d \in S, NEW p, p = <<a, b, c, d>>
  PROVE  /\ p \in Seq(S) /\ Len(p) = 4 /\ DOMAIN p = 1 .. 4
         /\ p[1] = a /\ p[2] = b /\ p[3] = c /\ p[4] = d
  OBVIOUS

LEMMA EightIs ==
  ASSUME NEW S, NEW a \in S, NEW b \in S, NEW c \in S, NEW d \in S, NEW e \in S, NEW f \in S,
         NEW g \in S, NEW h \in S, NEW p, p = <<a, b, c, d, e, f, g, h>>
  PROVE  /\ p \in Seq(S) /\ Len(p) = 8 /\ DOMAIN p = 1 .. 8
         /\ p[1] = a /\ p[2] = b /\ p[3] = c /\ p[4] = d /\ p[5] = e /\ p[6] = f /\ p[7] = g /\ p[8] = h
  OBVIOUS

LEMMA UpToEight ==
  /\ \A i \in 1 .. 8 : i = 1 \/ i = 2 \/ i = 3 \/ i = 4 \/ i = 5 \/ i = 6 \/ i = 7 \/ i = 8
  /\ \A i \in 1 .. 7 : i = 1 \/ i = 2 \/ i = 3 \/ i = 4 \/ i = 5 \/ i = 6 \/ i = 7
  /\ \A i \in 1 .. 4 : i = 1 \/ i = 2 \/ i = 3 \/ i = 4
  /\ \A i \in 1 .. 3 : i = 1 \/ i = 2 \/ i = 3
  /\ \A i \in 1 .. 2 : i = 1 \/ i = 2
  OBVIOUS

LEMMA PlayedIs ==
  ASSUME rule \in {"gc", "wii", "n3ds"}, NEW x \in Profiles, NEW t \in Titles, NEW p, p = Played(x, t)
  PROVE  /\ p \in Seq(Segments) /\ Len(p) = Depth + 1 /\ DOMAIN p = 1 .. Depth + 1
         /\ p[TitleAt] = t /\ (rule = "n3ds" => p[2] = x)
         /\ Learned!Matches(p)
  <1>1. x \in Segments /\ t \in Segments
    BY DEF Segments
  <1>2. /\ "USA" \in Segments /\ "Card A" \in Segments /\ "title" \in Segments /\ "00010000" \in Segments
        /\ "data.bin" \in Segments /\ "Nintendo 3DS" \in Segments /\ "00040000" \in Segments
        /\ "data" \in Segments /\ "save" \in Segments
    BY DEF Segments
  <1>3. PICK P : P = Learned!Pattern
    OBVIOUS
  <1>4. Len(P) = Depth /\ DOMAIN P = 1 .. Depth
    BY <1>3, PatternIs
  <1>5. Len(p) = Depth + 1 /\ (\A i \in 1 .. Depth : p[i] \in P[i]) => Learned!Matches(p)
    <2>1. Depth + 1 > Depth
      BY DEF Depth
    <2> QED BY <1>3, <1>4, <2>1 DEF Learned!Matches
  <1>6. CASE rule = "gc"
    <2>0. Depth = 2 /\ TitleAt = 3
      BY <1>6 DEF Depth, TitleAt
    <2>1. PICK a \in Segments, b \in Segments : a = "USA" /\ b = "Card A"
      BY <1>2
    <2>2. /\ p \in Seq(Segments) /\ Len(p) = 3 /\ DOMAIN p = 1 .. 3
          /\ p[1] = "USA" /\ p[2] = "Card A" /\ p[3] = t
      <3>1. p = <<a, b, t>>
        BY <1>6, <2>1 DEF Played
      <3>2. p \in Seq(Segments) /\ Len(p) = 3 /\ DOMAIN p = 1 .. 3 /\ p[1] = a /\ p[2] = b /\ p[3] = t
        BY ONLY <1>1, <3>1, a \in Segments, b \in Segments
      <3> QED BY ONLY <2>1, <3>2
    <2>3. P = <<{"USA", "EUR", "JAP"}, {"Card A", "Card B"}>>
      BY <1>3, <1>6 DEF Learned!Pattern
    <2>4. P[1] = {"USA", "EUR", "JAP"} /\ P[2] = {"Card A", "Card B"}
      BY ONLY <2>3
    <2>5. \A i \in 1 .. 2 : p[i] \in P[i]
      BY ONLY <2>2, <2>4, UpToEight
    <2>6. Len(p) = Depth + 1 /\ \A i \in 1 .. Depth : p[i] \in P[i]
      <3>0. Len(p) = 3
        BY ONLY <2>2
      <3>1. Len(p) = Depth + 1
        BY ONLY <2>0, <3>0
      <3>2. \A i \in 1 .. Depth : p[i] \in P[i]
        BY ONLY <2>0, <2>5
      <3> QED BY ONLY <3>1, <3>2
    <2>7. Learned!Matches(p)
      BY ONLY <1>5, <2>6
    <2>8. DOMAIN p = 1 .. Depth + 1 /\ p[TitleAt] = t /\ (rule = "n3ds" => p[2] = x)
      <3>0. DOMAIN p = 1 .. 3
        BY ONLY <2>2
      <3>1. DOMAIN p = 1 .. Depth + 1
        BY ONLY <2>0, <3>0
      <3>2. p[TitleAt] = t
        BY ONLY <2>0, <2>2
      <3>3. rule = "n3ds" => p[2] = x
        BY ONLY <1>6, <2>2
      <3> QED BY ONLY <3>1, <3>2, <3>3
    <2> QED BY ONLY <2>2, <2>6, <2>7, <2>8
  <1>7. CASE rule = "wii"
    <2>0. Depth = 3 /\ TitleAt = 3
      BY <1>7 DEF Depth, TitleAt
    <2>1. PICK a \in Segments, b \in Segments, c \in Segments : a = "title" /\ b = "00010000" /\ c = "data.bin"
      BY <1>2
    <2>2. /\ p \in Seq(Segments) /\ Len(p) = 4 /\ DOMAIN p = 1 .. 4
          /\ p[1] = "title" /\ p[2] = "00010000" /\ p[3] = t
      <3>1. p = <<a, b, t, c>>
        BY <1>7, <2>1 DEF Played
      <3> QED BY ONLY <1>1, <2>1, <3>1, a \in Segments, b \in Segments, c \in Segments, FourIs
    <2>3. P = <<{"title"}, {"00010000"}, Titles>>
      BY <1>3, <1>7 DEF Learned!Pattern
    <2>4. P[1] = {"title"} /\ P[2] = {"00010000"} /\ P[3] = Titles
      BY ONLY <2>3
    <2>5. \A i \in 1 .. 3 : p[i] \in P[i]
      BY ONLY <2>2, <2>4, UpToEight, t \in Titles
    <2>6. Len(p) = Depth + 1 /\ \A i \in 1 .. Depth : p[i] \in P[i]
      <3>0. Len(p) = 4
        BY ONLY <2>2
      <3>1. Len(p) = Depth + 1
        BY ONLY <2>0, <3>0
      <3>2. \A i \in 1 .. Depth : p[i] \in P[i]
        BY ONLY <2>0, <2>5
      <3> QED BY ONLY <3>1, <3>2
    <2>7. Learned!Matches(p)
      BY ONLY <1>5, <2>6
    <2>8. DOMAIN p = 1 .. Depth + 1 /\ p[TitleAt] = t /\ (rule = "n3ds" => p[2] = x)
      <3>0. DOMAIN p = 1 .. 4
        BY ONLY <2>2
      <3>1. DOMAIN p = 1 .. Depth + 1
        BY ONLY <2>0, <3>0
      <3>2. p[TitleAt] = t
        BY ONLY <2>0, <2>2
      <3>3. rule = "n3ds" => p[2] = x
        BY ONLY <1>7, <2>2
      <3> QED BY ONLY <3>1, <3>2, <3>3
    <2> QED BY ONLY <2>2, <2>6, <2>7, <2>8
  <1>8. CASE rule = "n3ds"
    <2>0. Depth = 7 /\ TitleAt = 6
      BY <1>8 DEF Depth, TitleAt
    <2>1. PICK a \in Segments, b \in Segments, c \in Segments, d \in Segments, e \in Segments :
            a = "Nintendo 3DS" /\ b = "title" /\ c = "00040000" /\ d = "data" /\ e = "save"
      BY <1>2
    <2>2. /\ p \in Seq(Segments) /\ Len(p) = 8 /\ DOMAIN p = 1 .. 8
          /\ p[1] = "Nintendo 3DS" /\ p[2] = x /\ p[3] = x /\ p[4] = "title" /\ p[5] = "00040000"
          /\ p[6] = t /\ p[7] = "data"
      <3>1. p = <<a, x, x, b, c, t, d, e>>
        BY <1>8, <2>1 DEF Played
      <3>2. /\ p \in Seq(Segments) /\ Len(p) = 8 /\ DOMAIN p = 1 .. 8
            /\ p[1] = a /\ p[2] = x /\ p[3] = x /\ p[4] = b /\ p[5] = c /\ p[6] = t /\ p[7] = d
        BY ONLY <1>1, <3>1, a \in Segments, b \in Segments, c \in Segments, d \in Segments, e \in Segments
      <3> QED BY ONLY <2>1, <3>2
    <2>3. P = <<{"Nintendo 3DS"}, Profiles, Profiles, {"title"}, {"00040000"}, Titles, {"data"}>>
      BY <1>3, <1>8 DEF Learned!Pattern
    <2>4. /\ P[1] = {"Nintendo 3DS"} /\ P[2] = Profiles /\ P[3] = Profiles /\ P[4] = {"title"}
          /\ P[5] = {"00040000"} /\ P[6] = Titles /\ P[7] = {"data"}
      BY ONLY <2>3
    <2>5. \A i \in 1 .. 7 : p[i] \in P[i]
      BY ONLY <2>2, <2>4, UpToEight, t \in Titles, x \in Profiles
    <2>6. Len(p) = Depth + 1 /\ \A i \in 1 .. Depth : p[i] \in P[i]
      <3>0. Len(p) = 8
        BY ONLY <2>2
      <3>1. Len(p) = Depth + 1
        BY ONLY <2>0, <3>0
      <3>2. \A i \in 1 .. Depth : p[i] \in P[i]
        BY ONLY <2>0, <2>5
      <3> QED BY ONLY <3>1, <3>2
    <2>7. Learned!Matches(p)
      BY ONLY <1>5, <2>6
    <2>8. DOMAIN p = 1 .. Depth + 1 /\ p[TitleAt] = t /\ (rule = "n3ds" => p[2] = x)
      <3>0. DOMAIN p = 1 .. 8
        BY ONLY <2>2
      <3>1. DOMAIN p = 1 .. Depth + 1
        BY ONLY <2>0, <3>0
      <3>2. p[TitleAt] = t
        BY ONLY <2>0, <2>2
      <3>3. rule = "n3ds" => p[2] = x
        BY ONLY <1>8, <2>2
      <3> QED BY ONLY <3>1, <3>2, <3>3
    <2> QED BY ONLY <2>2, <2>6, <2>7, <2>8
  <1> QED BY <1>6, <1>7, <1>8

\* Two such paths differ in their title and profile at most.
LEMMA PlayedAlike ==
  ASSUME rule \in {"gc", "wii", "n3ds"}, NEW x, NEW y, NEW t, NEW u,
         NEW i \in 1 .. Depth + 1, i # TitleAt, rule = "n3ds" => i \notin {2, 3} \/ x = y
  PROVE  Played(x, t)[i] = Played(y, u)[i]
  <1>1. PICK p : p = Played(x, t)
    OBVIOUS
  <1>2. PICK q : q = Played(y, u)
    OBVIOUS
  <1>3. PICK S : {"USA", "Card A", "title", "00010000", "data.bin", "Nintendo 3DS", "00040000", "data",
                  "save", x, y, t, u} \subseteq S
    OBVIOUS
  <1>4. /\ "USA" \in S /\ "Card A" \in S /\ "title" \in S /\ "00010000" \in S
        /\ "data.bin" \in S /\ "Nintendo 3DS" \in S /\ "00040000" \in S
        /\ "data" \in S /\ "save" \in S /\ x \in S /\ y \in S /\ t \in S /\ u \in S
    BY <1>3
  <1>5. CASE rule = "gc"
    <2>1. p = <<"USA", "Card A", t>> /\ q = <<"USA", "Card A", u>> /\ Depth = 2 /\ TitleAt = 3
      BY <1>1, <1>2, <1>5 DEF Played, Depth, TitleAt
    <2>2. p[1] = q[1] /\ p[2] = q[2]
      BY ONLY <1>4, <2>1, ThreeIs
    <2>3. i \in 1 .. 3 /\ i # 3
      <3>1. Depth = 2 /\ TitleAt = 3
        BY <2>1
      <3> QED BY ONLY <3>1, i \in 1 .. Depth + 1, i # TitleAt
    <2> QED BY ONLY <1>1, <1>2, <2>2, <2>3, UpToEight
  <1>6. CASE rule = "wii"
    <2>1. /\ p = <<"title", "00010000", t, "data.bin">> /\ q = <<"title", "00010000", u, "data.bin">>
          /\ Depth = 3 /\ TitleAt = 3
      BY <1>1, <1>2, <1>6 DEF Played, Depth, TitleAt
    <2>2. p[1] = q[1] /\ p[2] = q[2] /\ p[4] = q[4]
      BY ONLY <1>4, <2>1, FourIs
    <2>3. i \in 1 .. 4 /\ i # 3
      <3>1. Depth = 3 /\ TitleAt = 3
        BY <2>1
      <3> QED BY ONLY <3>1, i \in 1 .. Depth + 1, i # TitleAt
    <2> QED BY ONLY <1>1, <1>2, <2>2, <2>3, UpToEight
  <1>7. CASE rule = "n3ds"
    <2>1. /\ p = <<"Nintendo 3DS", x, x, "title", "00040000", t, "data", "save">>
          /\ q = <<"Nintendo 3DS", y, y, "title", "00040000", u, "data", "save">>
          /\ Depth = 7 /\ TitleAt = 6
      BY <1>1, <1>2, <1>7 DEF Played, Depth, TitleAt
    <2>2. /\ p[1] = q[1] /\ p[4] = q[4] /\ p[5] = q[5] /\ p[7] = q[7] /\ p[8] = q[8]
          /\ x = y => p[2] = q[2] /\ p[3] = q[3]
      BY ONLY <1>4, <2>1, EightIs
    <2>3. i \in 1 .. 8 /\ i # 6 /\ (i \notin {2, 3} \/ x = y)
      <3>1. Depth = 7 /\ TitleAt = 6
        BY <2>1
      <3>2. i \in 1 .. 8 /\ i # 6
        BY ONLY <3>1, i \in 1 .. Depth + 1, i # TitleAt
      <3> QED BY <1>7, <3>2
    <2> QED BY ONLY <1>1, <1>2, <2>2, <2>3, UpToEight
  <1> QED BY <1>5, <1>6, <1>7

\* Roots and suffixes by their elements.
LEMMA RootIs ==
  ASSUME rule \in {"gc", "wii", "n3ds"}, NEW p \in Seq(Segments), Len(p) = Depth + 1
  PROVE  /\ Learned!Root(p) \in Seq(Segments) /\ Len(Learned!Root(p)) = Depth
         /\ \A i \in 1 .. Depth : Learned!Root(p)[i] = p[i]
         /\ Learned!Root(p) # Learned!NoPath
         /\ Learned!WithoutProfile(p) \in Seq(Segments)
         /\ Len(Learned!WithoutProfile(p)) = Depth + 1 - Learned!Local
         /\ \A i \in 1 .. Depth + 1 - Learned!Local : Learned!WithoutProfile(p)[i] = p[i + Learned!Local]
         /\ Learned!WithoutProfile(p) # Learned!NoPath
  <1>1. Depth \in Nat /\ Depth >= 1 /\ Learned!Local \in Nat /\ Learned!Local < Depth
    BY DEF Depth, Learned!Local
  <1>2. Learned!Root(p) = SubSeq(p, 1, Depth)
    BY PatternIs DEF Learned!Root
  <1>3. Learned!WithoutProfile(p) = SubSeq(p, Learned!Local + 1, Depth + 1)
    BY DEF Learned!WithoutProfile
  <1>4. /\ SubSeq(p, 1, Depth) \in Seq(Segments) /\ Len(SubSeq(p, 1, Depth)) = Depth
        /\ \A i \in 1 .. Depth : SubSeq(p, 1, Depth)[i] = p[i]
    BY <1>1
  <1>5. PICK w : w = SubSeq(p, Learned!Local + 1, Depth + 1)
    OBVIOUS
  <1>6. /\ w \in Seq(Segments) /\ Len(w) = Depth + 1 - Learned!Local
        /\ \A i \in 1 .. Depth + 1 - Learned!Local : w[i] = p[i + Learned!Local]
    BY <1>1, <1>5
  <1>7. Learned!Root(p) # Learned!NoPath /\ w # Learned!NoPath
    <2>1. Len(Learned!NoPath) = 0
      BY DEF Learned!NoPath
    <2>2. Len(Learned!Root(p)) # 0
      BY <1>1, <1>2, <1>4
    <2>3. Len(w) # 0
      BY <1>1, <1>6
    <2> QED BY ONLY <2>1, <2>2, <2>3
  <1> QED BY <1>2, <1>3, <1>4, <1>5, <1>6, <1>7

\* What has a suffix below a root begins with the root.
LEMMA SuffixIs ==
  ASSUME rule \in {"gc", "wii", "n3ds"},
         NEW p \in Seq(Segments), Len(p) = Depth + 1, NEW q \in Seq(Segments), Len(q) = Depth + 1
  PROVE  /\ Learned!Suffix(p, Learned!NoPath) = Learned!NoPath
         /\ Learned!Suffix(p, Learned!Root(q)) # Learned!NoPath =>
              /\ Learned!Suffix(p, Learned!Root(q)) = Learned!WithoutProfile(p)
              /\ \A i \in 1 .. Depth : p[i] = q[i]
  <1>1. PICK r : r = Learned!Root(q)
    OBVIOUS
  <1>2. r \in Seq(Segments) /\ Len(r) = Depth /\ \A i \in 1 .. Depth : r[i] = q[i]
    BY <1>1, RootIs
  <1>3. Depth \in Nat /\ Depth >= 1
    BY DEF Depth
  <1>4. Learned!IsStrictPrefix(r, p) => \A i \in 1 .. Depth : p[i] = r[i]
    <2>1. SubSeq(r, 1, Depth) = SubSeq(p, 1, Depth) => \A i \in 1 .. Depth : p[i] = r[i]
      <3>1. \A i \in 1 .. Depth : SubSeq(r, 1, Depth)[i] = r[i] /\ SubSeq(p, 1, Depth)[i] = p[i]
        BY <1>2, <1>3
      <3> QED BY <3>1
    <2> QED BY <1>2, <2>1 DEF Learned!IsStrictPrefix, Learned!IsPrefix
  <1>5. Learned!Suffix(p, r) # Learned!NoPath =>
          Learned!Suffix(p, r) = Learned!WithoutProfile(p) /\ Learned!IsStrictPrefix(r, p)
    BY DEF Learned!Suffix
  <1> QED BY <1>1, <1>2, <1>4, <1>5 DEF Learned!Suffix

\* The suffix of a file stands for its title, and the same on every device.
LEMMA SuffixesAlike ==
  ASSUME rule \in {"gc", "wii", "n3ds"}, NEW x \in Profiles, NEW y \in Profiles, NEW t \in Titles, NEW u \in Titles
  PROVE  Learned!WithoutProfile(Played(x, t)) = Learned!WithoutProfile(Played(y, u)) <=> t = u
  <1>1. PICK p : p = Played(x, t)
    OBVIOUS
  <1>2. PICK q : q = Played(y, u)
    OBVIOUS
  <1>3. PICK L \in {0, 3} : L = Learned!Local /\ (rule = "n3ds" <=> L = 3)
    BY DEF Learned!Local
  <1>4. Depth \in {2, 3, 7} /\ TitleAt \in {3, 6} /\ L < TitleAt /\ TitleAt <= Depth + 1
    BY <1>3 DEF Depth, TitleAt
  <1>5. /\ p \in Seq(Segments) /\ Len(p) = Depth + 1 /\ p[TitleAt] = t
        /\ q \in Seq(Segments) /\ Len(q) = Depth + 1 /\ q[TitleAt] = u
    BY <1>1, <1>2, PlayedIs
  <1>6. PICK v : v = Learned!WithoutProfile(p)
    OBVIOUS
  <1>7. PICK w : w = Learned!WithoutProfile(q)
    OBVIOUS
  <1>8. /\ v \in Seq(Segments) /\ Len(v) = Depth + 1 - L
        /\ \A i \in 1 .. Depth + 1 - L : v[i] = p[i + L]
        /\ w \in Seq(Segments) /\ Len(w) = Depth + 1 - L
        /\ \A i \in 1 .. Depth + 1 - L : w[i] = q[i + L]
    BY <1>3, <1>5, <1>6, <1>7, RootIs
  <1>9. ASSUME v = w PROVE t = u
    <2>1. TitleAt - L \in 1 .. Depth + 1 - L /\ TitleAt - L + L = TitleAt
      BY <1>3, <1>4
    <2>2. v[TitleAt - L] = t /\ w[TitleAt - L] = u
      BY <1>5, <1>8, <2>1
    <2> QED BY <1>9, <2>2
  <1>10. ASSUME t = u PROVE v = w
    <2>1. \A i \in L + 1 .. Depth + 1 : p[i] = q[i]
      <3>1. TAKE i \in L + 1 .. Depth + 1
      <3>2. CASE i = TitleAt
        BY <1>5, <1>10, <3>2
      <3>3. CASE i # TitleAt
        <4>1. i \in 1 .. Depth + 1 /\ (rule = "n3ds" => i \notin {2, 3})
          BY <1>3, <1>4
        <4> QED BY <1>1, <1>2, <3>3, <4>1, PlayedAlike
      <3> QED BY <3>2, <3>3
    <2>2. \A i \in 1 .. Depth + 1 - L : i + L \in L + 1 .. Depth + 1
      BY <1>3, <1>4
    <2>3. \A i \in 1 .. Depth + 1 - L : v[i] = w[i]
      BY <1>8, <2>1, <2>2
    <2> QED BY <1>4, <1>8, <2>3
  <1> QED BY <1>1, <1>2, <1>6, <1>7, <1>9, <1>10

\* What a path says of its title, and the sequences of length four and five in it.
LEMMA RulesAre ==
  ASSUME rule \in {"gc", "wii", "n3ds"}
  PROVE  /\ Depth \in {2, 3, 7} /\ TitleAt \in {3, 6} /\ Learned!Local \in {0, 3}
         /\ Learned!Local < TitleAt /\ TitleAt <= Depth + 1 /\ Learned!Local < Depth
         /\ rule # "gc" => TitleAt <= Depth
         /\ rule = "n3ds" => Depth = 7 /\ TitleAt = 6 /\ Learned!Local = 3
         /\ rule # "n3ds" => Learned!Local = 0
  BY DEF Depth, TitleAt, Learned!Local

-----------------------------------------------------------------------------
\* A file is where the game of its title plays from under some profile.
FilePlayed(p, t) == t \in Titles /\ \E x \in Profiles : p = Played(x, t)

LearnTypes ==
  /\ rule \in Rules /\ profile \in [Devices -> Profiles] /\ profiles \in [Devices -> SUBSET Profiles]
  /\ learnedTree = [d \in Devices |-> learnedTree[d]]
  /\ roots = [d \in Devices |-> [t \in Titles |-> roots[d][t]]]
FilesInv ==
  \A d \in Devices : \A p \in Learned!Files(d) : FilePlayed(p, learnedTree[d][p])
\* A save of a 3DS lies in the directory of a profile.
ProfilesInv ==
  rule = "n3ds" => \A d \in Devices : \A p \in Learned!Files(d) : p[2] \in profiles[d]
\* What is on record is the root of a file that is there.
RootsInv ==
  \A d \in Devices, t \in Titles :
    roots[d][t] = Learned!NoPath \/ \E q \in Learned!Files(d) : roots[d][t] = Learned!Root(q)
\* What is on the server is on it without the profile it was played under.
ServerInv ==
  \A e \in DOMAIN server :
    /\ e[1] \in Titles /\ server[e] \in Titles
    /\ \E x \in Profiles : e = <<e[1], Learned!WithoutProfile(Played(x, server[e]))>>
LearnInv == LearnTypes /\ FilesInv /\ ProfilesInv /\ RootsInv /\ ServerInv

\* The files that are played from are of the same form.
LEMMA FileIs ==
  ASSUME rule \in {"gc", "wii", "n3ds"}, NEW p, NEW t, FilePlayed(p, t)
  PROVE  /\ p \in Seq(Segments) /\ Len(p) = Depth + 1 /\ p[TitleAt] = t /\ Learned!Matches(p)
         /\ rule = "n3ds" => p[2] \in Profiles /\ p = Played(p[2], t)
  BY PlayedIs DEF FilePlayed

LEMMA SameSuffix ==
  ASSUME rule \in {"gc", "wii", "n3ds"}, NEW p, NEW q, NEW t, NEW u, FilePlayed(p, t), FilePlayed(q, u)
  PROVE  Learned!WithoutProfile(p) = Learned!WithoutProfile(q) <=> t = u
  BY SuffixesAlike DEF FilePlayed

\* A root, and the canonical form of it, have the title in them but for a card.
LEMMA RootTitle ==
  ASSUME rule \in {"wii", "n3ds"}, NEW p, NEW q, NEW t, NEW u, FilePlayed(p, t), FilePlayed(q, u)
  PROVE  /\ (\A i \in 1 .. Depth : p[i] = q[i]) => t = u
         /\ Learned!Root(p) = Learned!Root(q) => t = u
         /\ Learned!WithoutProfile(Learned!Root(p)) = SubSeq(Learned!WithoutProfile(q), 1, Depth - Learned!Local) => t = u
  <1>1. rule \in {"gc", "wii", "n3ds"}
    OBVIOUS
  <1>2. PICK L : L = Learned!Local
    OBVIOUS
  <1>3. Depth \in {3, 7} /\ TitleAt \in {3, 6} /\ L \in {0, 3} /\ L < TitleAt /\ TitleAt <= Depth
    BY <1>1, <1>2, RulesAre DEF Depth
  <1>4. /\ p \in Seq(Segments) /\ Len(p) = Depth + 1 /\ p[TitleAt] = t
        /\ q \in Seq(Segments) /\ Len(q) = Depth + 1 /\ q[TitleAt] = u
    BY <1>1, FileIs
  <1>5. (\A i \in 1 .. Depth : p[i] = q[i]) => t = u
    BY <1>3, <1>4
  <1>6. /\ Learned!Root(p) \in Seq(Segments) /\ Len(Learned!Root(p)) = Depth
        /\ \A i \in 1 .. Depth : Learned!Root(p)[i] = p[i]
        /\ \A i \in 1 .. Depth : Learned!Root(q)[i] = q[i]
        /\ Learned!WithoutProfile(q) \in Seq(Segments)
        /\ Len(Learned!WithoutProfile(q)) = Depth + 1 - L
        /\ \A i \in 1 .. Depth + 1 - L : Learned!WithoutProfile(q)[i] = q[i + L]
    BY <1>1, <1>2, <1>4, RootIs
  <1>7. Learned!Root(p) = Learned!Root(q) => t = u
    BY <1>5, <1>6
  <1>8. ASSUME Learned!WithoutProfile(Learned!Root(p)) = SubSeq(Learned!WithoutProfile(q), 1, Depth - L)
        PROVE  t = u
    <2>1. PICK r : r = Learned!Root(p)
      OBVIOUS
    <2>2. PICK w : w = Learned!WithoutProfile(q)
      OBVIOUS
    <2>3. PICK n \in Nat : n = TitleAt - L
      BY <1>3
    <2>4. n >= 1 /\ n <= Depth - L /\ n + L = TitleAt /\ L + 1 >= 1
      BY <1>3, <2>3
    <2>5. SubSeq(r, L + 1, Depth) = SubSeq(w, 1, Depth - L)
      BY <1>2, <1>6, <1>8, <2>1, <2>2 DEF Learned!WithoutProfile
    <2>6. r \in Seq(Segments) /\ Len(r) = Depth /\ w \in Seq(Segments) /\ Len(w) = Depth + 1 - L
      BY <1>6, <2>1, <2>2
    <2>7. SubSeq(r, L + 1, Depth)[n] = r[TitleAt]
      BY ONLY <1>3, <2>4, <2>6
    <2>8. SubSeq(w, 1, Depth - L)[n] = w[n]
      BY ONLY <1>3, <2>3, <2>4, <2>6
    <2>9. r[TitleAt] = t
      BY <1>3, <1>4, <1>6, <2>1
    <2>10. w[n] = u
      <3>1. n \in 1 .. Depth + 1 - L
        BY ONLY <1>3, <2>3, <2>4
      <3> QED BY <1>4, <1>6, <2>2, <2>4, <3>1
    <2> QED BY ONLY <2>5, <2>7, <2>8, <2>9, <2>10
  <1> QED BY <1>2, <1>5, <1>7, <1>8

\* What is learned is the root of all the files it is learned from.
LEMMA LearnedIs ==
  ASSUME NEW paths
  PROVE  \/ Learned!Learned(paths) = Learned!NoPath
         \/ \E q \in paths : /\ Learned!Learned(paths) = Learned!Root(q)
                             /\ \A p \in paths : Learned!Root(p) = Learned!Root(q)
  <1>1. CASE paths = {} \/ \E p \in paths : ~Learned!Matches(p) \/ \E q \in paths : Learned!Root(q) # Learned!Root(p)
    BY <1>1 DEF Learned!Learned
  <1>2. CASE ~(paths = {} \/ \E p \in paths : ~Learned!Matches(p) \/ \E q \in paths : Learned!Root(q) # Learned!Root(p))
    <2>1. PICK q \in paths : q = CHOOSE p \in paths : TRUE
      BY <1>2
    <2>2. Learned!Learned(paths) = Learned!Root(q)
      BY <1>2, <2>1 DEF Learned!Learned
    <2> QED BY <1>2, <2>2
  <1> QED BY <1>1, <1>2

\* As the rule stays, so does what depends on it.
LEMMA RuleStays ==
  rule' = rule =>
    /\ \A x, t : Played(x, t)' = Played(x, t)
    /\ \A p, t : FilePlayed(p, t)' <=> FilePlayed(p, t)
    /\ \A p : Learned!Root(p)' = Learned!Root(p)
    /\ \A p : Learned!WithoutProfile(p)' = Learned!WithoutProfile(p)
    /\ Learned!NoPath' = Learned!NoPath
  <1> SUFFICES ASSUME rule' = rule
               PROVE  /\ \A x, t : Played(x, t)' = Played(x, t)
                      /\ \A p, t : FilePlayed(p, t)' <=> FilePlayed(p, t)
                      /\ \A p : Learned!Root(p)' = Learned!Root(p)
                      /\ \A p : Learned!WithoutProfile(p)' = Learned!WithoutProfile(p)
                      /\ Learned!NoPath' = Learned!NoPath
    OBVIOUS
  <1>1. \A x, t : Played(x, t)' = Played(x, t)
    BY DEF Played
  <1>2. \A p, t : FilePlayed(p, t)' <=> FilePlayed(p, t)
    BY <1>1 DEF FilePlayed
  <1>3. Learned!Pattern' = Learned!Pattern /\ Learned!Local' = Learned!Local
    BY DEF Learned!Pattern, Learned!Local
  <1>4. \A p : Learned!Root(p)' = Learned!Root(p)
    BY <1>3 DEF Learned!Root
  <1>5. \A p : Learned!WithoutProfile(p)' = Learned!WithoutProfile(p)
    BY <1>3 DEF Learned!WithoutProfile
  <1>6. Learned!NoPath' = Learned!NoPath
    BY DEF Learned!NoPath
  <1> QED BY <1>1, <1>2, <1>4, <1>5, <1>6

\* The module of the learned saves counts as this one does.
LEMMA SameCountOfRoots == \A S : Learned!Cardinality(S) = Cardinality(S)
  BY DEF Learned!Cardinality, Cardinality

\* A part of a sequence by its elements.
LEMMA SliceIs ==
  ASSUME NEW S, NEW s \in Seq(S), NEW m \in Nat \ {0}, NEW n \in Nat, n <= Len(s), m <= n + 1
  PROVE  /\ SubSeq(s, m, n) \in Seq(S) /\ Len(SubSeq(s, m, n)) = n + 1 - m
         /\ \A i \in 1 .. n + 1 - m : SubSeq(s, m, n)[i] = s[i + m - 1]
  OBVIOUS

LEMMA FirstsAre ==
  ASSUME NEW S, NEW s \in Seq(S), NEW n \in Nat, n <= Len(s)
  PROVE  /\ SubSeq(s, 1, n) \in Seq(S) /\ Len(SubSeq(s, 1, n)) = n
         /\ \A i \in 1 .. n : SubSeq(s, 1, n)[i] = s[i]
  <1>1. 1 \in Nat \ {0} /\ 1 <= n + 1 /\ n + 1 - 1 = n /\ \A i \in 1 .. n : i + 1 - 1 = i
    OBVIOUS
  <1> QED BY <1>1, SliceIs

\* A root of a 3DS and the rest of the suffix are the path of the file.
Below(r, s) == r \o SubSeq(s, 5, Len(s))

LEMMA RootAndRest ==
  ASSUME rule = "n3ds", NEW x \in Profiles, NEW y \in Profiles, NEW u \in Titles,
         NEW s, s = Learned!WithoutProfile(Played(x, u)), NEW r, r = Learned!Root(Played(y, u))
  PROVE  /\ s \in Seq(Segments) /\ Len(s) = 5
         /\ Below(r, s) = Played(y, u)
         /\ \A i \in 1 .. 4 : s[i] = Played(y, u)[i + 3]
  <1>1. PICK p : p = Played(x, u)
    OBVIOUS
  <1>2. PICK q : q = Played(y, u)
    OBVIOUS
  <1>0. rule \in {"gc", "wii", "n3ds"}
    OBVIOUS
  <1>3. Depth = 7 /\ TitleAt = 6 /\ Learned!Local = 3
    BY RulesAre
  <1>4. p \in Seq(Segments) /\ Len(p) = 8 /\ q \in Seq(Segments) /\ Len(q) = 8 /\ p[6] = u /\ q[6] = u
    BY <1>1, <1>2, <1>3, PlayedIs
  <1>4a. r \in Seq(Segments) /\ Len(r) = 7 /\ \A i \in 1 .. 7 : r[i] = q[i]
    BY <1>0, <1>2, <1>3, <1>4, RootIs
  <1>5. \A i \in 4 .. 8 : p[i] = q[i]
    <2>1. TAKE i \in 4 .. 8
    <2>2. CASE i = 6
      BY <1>4, <2>2
    <2>3. CASE i # 6
      <3>1. i \in 1 .. Depth + 1 /\ i # TitleAt /\ (rule = "n3ds" => i \notin {2, 3} \/ x = y)
        BY <1>3, <2>3
      <3>2. Played(x, u)[i] = Played(y, u)[i]
        BY ONLY <1>0, <3>1, PlayedAlike
      <3> QED BY <1>1, <1>2, <3>2
    <2> QED BY <2>2, <2>3
  <1>6. s \in Seq(Segments) /\ Len(s) = 5 /\ \A i \in 1 .. 5 : s[i] = p[i + 3]
    <2>1. /\ s \in Seq(Segments) /\ Len(s) = Depth + 1 - Learned!Local
          /\ \A i \in 1 .. Depth + 1 - Learned!Local : s[i] = p[i + Learned!Local]
      BY <1>1, <1>3, <1>4, RootIs
    <2> QED BY <1>3, <2>1
  <1>7. SubSeq(s, 5, Len(s)) \in Seq(Segments) /\ Len(SubSeq(s, 5, Len(s))) = 1 /\ SubSeq(s, 5, Len(s))[1] = s[5]
    <2>1. PICK m \in Nat \ {0} : m = 5
      OBVIOUS
    <2>2. /\ SubSeq(s, m, m) \in Seq(Segments) /\ Len(SubSeq(s, m, m)) = m + 1 - m
          /\ \A i \in 1 .. m + 1 - m : SubSeq(s, m, m)[i] = s[i + m - 1]
      <3>1. m \in Nat /\ m <= Len(s) /\ m <= m + 1 /\ s \in Seq(Segments)
        BY <1>6, <2>1
      <3> QED BY ONLY <3>1, m \in Nat \ {0}, SliceIs
    <2>3. m + 1 - m = 1 /\ 1 \in 1 .. 1 /\ 1 + m - 1 = m
      OBVIOUS
    <2>4. SubSeq(s, m, m)[1] = s[m]
      BY ONLY <2>2, <2>3
    <2> QED BY <1>6, <2>1, <2>2, <2>3, <2>4
  <1>8. s[5] = q[8]
    BY <1>5, <1>6
  <1>9. \A i \in 1 .. 4 : s[i] = q[i + 3]
    BY <1>5, <1>6
  <1>10. Below(r, s) = q
    <2>1. PICK z : z = SubSeq(s, 5, Len(s))
      OBVIOUS
    <2>2. z \in Seq(Segments) /\ Len(z) = 1 /\ \A i \in 1 .. Len(z) : q[i + 7] = z[i]
      <3>1. z \in Seq(Segments) /\ Len(z) = 1 /\ z[1] = q[8]
        BY <1>7, <1>8, <2>1
      <3>2. \A i \in 1 .. Len(z) : i = 1 /\ i + 7 = 8
        BY ONLY <3>1
      <3> QED BY ONLY <3>1, <3>2
    <2>3. \A i \in 1 .. Len(r) : q[i] = r[i]
      BY <1>4a
    <2>4. Len(q) = Len(r) + Len(z) /\ \A i \in 1 .. Len(z) : q[i + Len(r)] = z[i]
      BY <1>4, <1>4a, <2>2
    <2>5. r \o z = q
      BY ONLY <1>4, <1>4a, <2>2, <2>3, <2>4, JoinedIs
    <2> QED BY <2>1, <2>5 DEF Below
  <1> QED BY <1>2, <1>6, <1>9, <1>10

\* What comes down to a device is where it is played from, under a profile that
\* has a directory if the path has one; and below the root on record.
LEMMA LearnedDestination ==
  ASSUME rule \in {"gc", "wii", "n3ds"}, LearnTypes, FilesInv, ProfilesInv, RootsInv,
         NEW d \in Devices, NEW t \in Titles, NEW x \in Profiles, NEW u \in Titles,
         NEW s, s = Learned!WithoutProfile(Played(x, u))
  PROVE  /\ rule # "n3ds" => Learned!Destination(d, t, s) = Played(x, u)
         /\ rule = "n3ds" /\ Learned!Destination(d, t, s) # Learned!NoPath =>
              \E y \in profiles[d] : Learned!Destination(d, t, s) = Played(y, u)
         /\ \A q \in Learned!Files(d) :
              /\ rule = "n3ds" /\ roots[d][t] = Learned!Root(q) /\ FilePlayed(q, u)
              => Learned!Destination(d, t, s) = q
  <1>1. CASE rule # "n3ds"
    <2>1. PICK p : p = Played(x, u)
      OBVIOUS
    <2>2. p \in Seq(Segments) /\ Learned!Local = 0
      BY <1>1, <2>1, PlayedIs, RulesAre
    <2>3. s = SubSeq(p, 1, Len(p))
      BY <2>1, <2>2 DEF Learned!WithoutProfile
    <2>4. SubSeq(p, 1, Len(p)) = p
      BY <2>2
    <2> QED BY <1>1, <2>1, <2>3, <2>4 DEF Learned!Destination
  <1>2. CASE rule = "n3ds"
    <2>1. Depth = 7 /\ Learned!Local = 3 /\ TitleAt = 6
      BY <1>2, RulesAre
    <2>2. PICK c : c = SubSeq(s, 1, 4)
      OBVIOUS
    <2>3. PICK single : single = Learned!SingleProfile(d)
      OBVIOUS
    <2>4. PICK root : root = IF roots[d][t] # Learned!NoPath
                             THEN IF Learned!WithoutProfile(roots[d][t]) = c THEN roots[d][t] ELSE Learned!NoPath
                             ELSE IF single # Learned!NoPath THEN single \o c ELSE Learned!NoPath
      OBVIOUS
    <2>5. Learned!Destination(d, t, s) = IF root = Learned!NoPath THEN Learned!NoPath ELSE Below(root, s)
      BY <1>2, <2>2, <2>3, <2>4 DEF Learned!Destination, Below
    <2>6. FilePlayed(Played(x, u), u)
      BY DEF FilePlayed
    <2>7. \A q \in Learned!Files(d) : FilePlayed(q, learnedTree[d][q])
      BY DEF FilesInv
    <2>8. ASSUME NEW q \in Learned!Files(d), roots[d][t] = Learned!Root(q), Learned!WithoutProfile(roots[d][t]) = c
          PROVE  Learned!Destination(d, t, s) = Played(q[2], u) /\ q[2] \in Profiles
      <3>1. PICK v : v = learnedTree[d][q]
        OBVIOUS
      <3>2. /\ FilePlayed(q, v) /\ q \in Seq(Segments) /\ Len(q) = 8 /\ q[2] \in Profiles
            /\ q = Played(q[2], v)
        BY <1>2, <2>1, <2>7, <3>1, FileIs
      <3>3. v = u
        <4>1. Learned!WithoutProfile(Learned!Root(q))
                = SubSeq(Learned!WithoutProfile(Played(x, u)), 1, Depth - Learned!Local)
          BY <2>1, <2>2, <2>8
        <4> QED BY <1>2, <2>6, <3>2, <4>1, RootTitle
      <3>4. PICK r : r = Learned!Root(q)
        OBVIOUS
      <3>5. r \in Seq(Segments) /\ Len(r) = 7 /\ r # Learned!NoPath /\ \A i \in 1 .. 7 : r[i] = q[i]
        BY <1>2, <2>1, <3>2, <3>4, RootIs
      <3>6. Below(r, s) = Played(q[2], u)
        <4>1. PICK y \in Profiles : y = q[2]
          BY <3>2
        <4>2. r = Learned!Root(Played(y, u))
          BY <3>2, <3>3, <3>4, <4>1
        <4>3. Below(r, s) = Played(y, u)
          BY ONLY <1>2, <4>2, RootAndRest, x \in Profiles, y \in Profiles, u \in Titles,
            s = Learned!WithoutProfile(Played(x, u))
        <4> QED BY <4>1, <4>3
      <3>7. root = r
        BY <2>4, <2>8, <3>4, <3>5
      <3> QED BY <2>5, <3>2, <3>5, <3>6, <3>7
    <2>9. ASSUME roots[d][t] = Learned!NoPath, single # Learned!NoPath
          PROVE  \E y \in profiles[d] : Learned!Destination(d, t, s) = Played(y, u)
      <3>1. PICK y \in profiles[d] : single = <<"Nintendo 3DS", y, y>>
        <4>1. profiles[d] # {} /\ single = LET z == CHOOSE z \in profiles[d] : TRUE IN <<"Nintendo 3DS", z, z>>
          BY <2>3, <2>9 DEF Learned!SingleProfile
        <4>2. PICK z \in profiles[d] : z = CHOOSE y \in profiles[d] : TRUE
          BY <4>1
        <4> QED BY <4>1, <4>2
      <3>2. y \in Profiles
        BY DEF LearnTypes
      <3>5. PICK w : w = Played(y, u)
        OBVIOUS
      <3>6. w \in Seq(Segments) /\ Len(w) = 8
        BY <1>2, <2>1, <3>2, <3>5, PlayedIs
      <3>7. PICK r : r = Learned!Root(w)
        OBVIOUS
      <3>8. r \in Seq(Segments) /\ Len(r) = 7 /\ \A i \in 1 .. 7 : r[i] = w[i]
        BY <1>2, <2>1, <3>6, <3>7, RootIs
      <3>9. /\ s \in Seq(Segments) /\ Len(s) = 5 /\ Below(r, s) = w
            /\ \A i \in 1 .. 4 : s[i] = w[i + 3]
        <4>1. r = Learned!Root(Played(y, u))
          BY <3>5, <3>7
        <4>2. /\ s \in Seq(Segments) /\ Len(s) = 5 /\ Below(r, s) = Played(y, u)
              /\ \A i \in 1 .. 4 : s[i] = Played(y, u)[i + 3]
          BY ONLY <1>2, <3>2, <4>1, RootAndRest, x \in Profiles, u \in Titles,
            s = Learned!WithoutProfile(Played(x, u))
        <4> QED BY ONLY <3>5, <4>2
      <3>10. single \o c = r
        <4>1. /\ single \in Seq(Segments) /\ Len(single) = 3 /\ \A i \in 1 .. 3 : single[i] = w[i]
          <5>1. PICK A \in Segments, B \in Segments, C \in Segments, D \in Segments, E \in Segments :
                  A = "Nintendo 3DS" /\ B = "title" /\ C = "00040000" /\ D = "data" /\ E = "save"
            BY DEF Segments
          <5>2. y \in Segments /\ u \in Segments
            BY <3>2 DEF Segments
          <5>3. w = <<A, y, y, B, C, u, D, E>> /\ single = <<A, y, y>>
            BY <1>2, <3>1, <3>5, <5>1 DEF Played
          <5>4. w[1] = A /\ w[2] = y /\ w[3] = y
            BY ONLY <5>2, <5>3, EightIs, A \in Segments, B \in Segments, C \in Segments, D \in Segments, E \in Segments
          <5>5. /\ single \in Seq(Segments) /\ Len(single) = 3
                /\ single[1] = A /\ single[2] = y /\ single[3] = y
            BY ONLY <5>2, <5>3, ThreeIs, A \in Segments
          <5> QED BY ONLY <5>4, <5>5, UpToEight
        <4>2. c \in Seq(Segments) /\ Len(c) = 4 /\ \A i \in 1 .. 4 : c[i] = s[i]
          <5>1. s \in Seq(Segments) /\ 4 \in Nat /\ 4 <= Len(s)
            BY <3>9
          <5> QED BY ONLY <2>2, <5>1, FirstsAre
        <4>3. \A i \in 1 .. 3 : r[i] = single[i]
          BY <3>8, <4>1
        <4>4. \A i \in 1 .. 4 : r[i + 3] = c[i]
          BY <3>8, <3>9, <4>2
        <4>5. \A i \in 1 .. Len(single) : r[i] = single[i]
          BY <4>1, <4>3
        <4>6. Len(r) = Len(single) + Len(c) /\ \A i \in 1 .. Len(c) : r[i + Len(single)] = c[i]
          BY <3>8, <4>1, <4>2, <4>4
        <4> QED BY ONLY <3>8, <4>1, <4>2, <4>5, <4>6, JoinedIs
      <3>11. root = r /\ r # Learned!NoPath
        <4>1. r # Learned!NoPath
          BY <1>2, <2>1, <3>6, <3>7, RootIs
        <4> QED BY <2>4, <2>9, <3>10, <4>1
      <3> QED BY <2>5, <3>5, <3>9, <3>11
    <2>10. ASSUME Learned!Destination(d, t, s) # Learned!NoPath
           PROVE  \E y \in profiles[d] : Learned!Destination(d, t, s) = Played(y, u)
      <3>1. root # Learned!NoPath
        BY <2>5, <2>10
      <3>2. CASE roots[d][t] # Learned!NoPath
        <4>1. Learned!WithoutProfile(roots[d][t]) = c
          BY <2>4, <3>1, <3>2
        <4>2. PICK q \in Learned!Files(d) : roots[d][t] = Learned!Root(q)
          BY <3>2 DEF RootsInv
        <4>3. q[2] \in profiles[d]
          BY <1>2 DEF ProfilesInv
        <4> QED BY <2>8, <4>1, <4>2, <4>3
      <3>3. CASE roots[d][t] = Learned!NoPath
        BY <2>4, <2>9, <3>1, <3>3
      <3> QED BY <3>2, <3>3
    <2>11. ASSUME NEW q \in Learned!Files(d), roots[d][t] = Learned!Root(q), FilePlayed(q, u)
           PROVE  Learned!Destination(d, t, s) = q
      <3>1. q \in Seq(Segments) /\ Len(q) = 8 /\ q[2] \in Profiles /\ q = Played(q[2], u)
        BY <1>2, <2>1, <2>11, FileIs
      <3>2. PICK y \in Profiles : y = q[2]
        BY <3>1
      <3>3. PICK r : r = Learned!Root(q)
        OBVIOUS
      <3>4. r \in Seq(Segments) /\ Len(r) = 7 /\ \A i \in 1 .. 7 : r[i] = q[i]
        BY <1>2, <2>1, <3>1, <3>3, RootIs
      <3>5. s \in Seq(Segments) /\ Len(s) = 5 /\ \A i \in 1 .. 4 : s[i] = q[i + 3]
        <4>1. q = Played(y, u) /\ r = Learned!Root(Played(y, u))
          BY <3>1, <3>2, <3>3
        <4>2. s \in Seq(Segments) /\ Len(s) = 5 /\ \A i \in 1 .. 4 : s[i] = Played(y, u)[i + 3]
          BY <1>2, <4>1, RootAndRest
        <4> QED BY <4>1, <4>2
      <3>6. Learned!WithoutProfile(r) = c
        <4>1. c \in Seq(Segments) /\ Len(c) = 4 /\ \A i \in 1 .. Len(c) : c[i] = r[i + 4 - 1]
          <5>1. c \in Seq(Segments) /\ Len(c) = 4 /\ \A i \in 1 .. 4 : c[i] = s[i]
            <6>1. s \in Seq(Segments) /\ 4 \in Nat /\ 4 <= Len(s)
              BY <3>5
            <6> QED BY ONLY <2>2, <6>1, FirstsAre
          <5>2. \A i \in 1 .. 4 : c[i] = r[i + 3] /\ i + 4 - 1 = i + 3
            BY <3>4, <3>5, <5>1
          <5> QED BY <5>1, <5>2
        <4>2. SubSeq(r, 4, 7) = c
          <5>1. 4 \in Nat \ {0} /\ 7 \in Nat /\ 7 <= Len(r) /\ Len(c) + 4 = 7 + 1
            BY <3>4, <4>1
          <5> QED BY ONLY <3>4, <4>1, <5>1, PartIs
        <4> QED BY <2>1, <3>4, <4>2 DEF Learned!WithoutProfile
      <3> QED BY <2>8, <2>11, <3>1, <3>3, <3>6
    <2> QED BY <1>2, <2>10, <2>11
  <1> QED BY <1>1, <1>2

LEMMA LearnInit == LearnRules /\ Learned!Init => LearnInv
  <1> SUFFICES ASSUME LearnRules, Learned!Init PROVE LearnInv
    OBVIOUS
  <1>1. LearnTypes
    <2>1. profiles \in [Devices -> SUBSET Profiles]
      <3>1. profile \in [Devices -> Profiles]
        BY DEF Learned!Init
      <3>2. PICK fresh : profiles = [d \in Devices |-> IF d \in fresh THEN {profile[d]} ELSE {}]
        BY DEF Learned!Init
      <3> QED BY <3>1, <3>2
    <2> QED BY <2>1 DEF Learned!Init, LearnTypes
  <1>2. FilesInv
    BY DEF Learned!Init, FilesInv, Learned!Files
  <1>2a. ProfilesInv
    BY DEF Learned!Init, ProfilesInv, Learned!Files
  <1>3. RootsInv
    BY DEF Learned!Init, RootsInv
  <1>4. ServerInv
    BY DEF Learned!Init, ServerInv
  <1> QED BY <1>1, <1>2, <1>2a, <1>3, <1>4 DEF LearnInv

\* The rule is one of the three, and a game plays from where a file may be.
LEMMA RuleOfLearned == LearnRules /\ LearnTypes => rule \in {"gc", "wii", "n3ds"}
  BY DEF LearnRules, LearnTypes

LEMMA PlaysIs ==
  ASSUME LearnRules, LearnTypes, NEW d \in Devices, NEW t \in Titles
  PROVE  Learned!PlaysFrom(d, t) = Played(profile[d], t) /\ FilePlayed(Learned!PlaysFrom(d, t), t)
  <1>1. profile[d] \in Profiles
    BY DEF LearnTypes
  <1>2. Learned!PlaysFrom(d, t) = Played(profile[d], t)
    BY RuleOfLearned DEF Learned!PlaysFrom, Played
  <1> QED BY <1>1, <1>2 DEF FilePlayed

\* What a session leaves: files that are played from, the root of one of them,
\* and on the server what was there and its new files below that root.
Scoped(d, t, saves, p, now) ==
  \/ rule = "gc" \/ now[p] = t \/ Learned!Mixed(t)
  \/ ~saves /\ Learned!Of(t) = {} /\ t \notin {learnedTree[d][q] : q \in Learned!Files(d)}
Uploaded(t, now, root, e, p) ==
  Learned!Suffix(p, root) # Learned!NoPath /\ e = <<t, Learned!Suffix(p, root)>> /\ server'[e] = now[p]
Leaves(d, t, saves, now, root) ==
  /\ \A p \in DOMAIN now : FilePlayed(p, now[p])
  /\ Learned!Files(d) \subseteq DOMAIN now
  /\ learnedTree' = [learnedTree EXCEPT ![d] = now]
  /\ root = Learned!NoPath \/ \E q \in DOMAIN now : root = Learned!Root(q)
  /\ \/ UNCHANGED <<roots, server>>
     \/ /\ roots' = [roots EXCEPT ![d] = [@ EXCEPT ![t] = root]]
        /\ \A e \in DOMAIN server : e \in DOMAIN server' /\ server'[e] = server[e]
        /\ \A e \in DOMAIN server' \ DOMAIN server :
             \E p \in DOMAIN now : Uploaded(t, now, root, e, p) /\ Scoped(d, t, saves, p, now)
  /\ \A p \in DOMAIN now : rule = "n3ds" => p[2] \in profiles'[d]
  /\ profiles' \in [Devices -> SUBSET Profiles] /\ \A b \in Devices : profiles[b] \subseteq profiles'[b]
  /\ UNCHANGED <<rule, profile>>

LEMMA SessionIs ==
  ASSUME LearnRules, LearnInv, NEW d \in Devices, NEW t \in Titles, NEW saves \in BOOLEAN,
         Learned!Session(d, t, saves)
  PROVE  \E now, root : Leaves(d, t, saves, now, root)
  <1>1. PICK online \in BOOLEAN :
        LET file == Learned!PlaysFrom(d, t)
            now == IF saves THEN [p \in Learned!Files(d) \cup {file} |-> IF p = file THEN t ELSE learnedTree[d][p]]
                   ELSE learnedTree[d]
            after == Learned!Snapshot(t, DOMAIN now)
            changed == IF saves THEN Learned!Snapshot(t, {file}) ELSE {}
            root == Learned!Learned(IF changed # {} THEN changed ELSE after)
            new == {p \in after : Learned!Suffix(p, root) # Learned!NoPath
                                  /\ <<t, Learned!Suffix(p, root)>> \notin DOMAIN server}
        IN  /\ events < MaxEvents /\ events' = events + 1
            /\ learnedTree' = [learnedTree EXCEPT ![d] = now]
            /\ profiles' = [profiles EXCEPT ![d] =
                   IF saves /\ rule = "n3ds" THEN @ \cup {profile[d]} ELSE @]
            /\ IF online /\ after # {}
               THEN /\ roots' = [roots EXCEPT ![d] = [@ EXCEPT ![t] = root]]
                    /\ server' = [e \in DOMAIN server \cup {<<t, Learned!Suffix(p, root)>> : p \in new} |->
                                     IF e \in DOMAIN server THEN server[e]
                                     ELSE now[CHOOSE p \in new : e = <<t, Learned!Suffix(p, root)>>]]
               ELSE UNCHANGED <<roots, server>>
            /\ UNCHANGED <<rule, profile>>
    BY DEF Learned!Session
  <1> DEFINE file == Learned!PlaysFrom(d, t)
             now == IF saves THEN [p \in Learned!Files(d) \cup {file} |-> IF p = file THEN t ELSE learnedTree[d][p]]
                    ELSE learnedTree[d]
             after == Learned!Snapshot(t, DOMAIN now)
             changed == IF saves THEN Learned!Snapshot(t, {file}) ELSE {}
             root == Learned!Learned(IF changed # {} THEN changed ELSE after)
             new == {p \in after : Learned!Suffix(p, root) # Learned!NoPath
                                   /\ <<t, Learned!Suffix(p, root)>> \notin DOMAIN server}
  <1>8. /\ learnedTree' = [learnedTree EXCEPT ![d] = now]
        /\ profiles' = [profiles EXCEPT ![d] = IF saves /\ rule = "n3ds" THEN @ \cup {profile[d]} ELSE @]
        /\ IF online /\ after # {}
           THEN /\ roots' = [roots EXCEPT ![d] = [@ EXCEPT ![t] = root]]
                /\ server' = [e \in DOMAIN server \cup {<<t, Learned!Suffix(p, root)>> : p \in new} |->
                                 IF e \in DOMAIN server THEN server[e]
                                 ELSE now[CHOOSE p \in new : e = <<t, Learned!Suffix(p, root)>>]]
           ELSE UNCHANGED <<roots, server>>
        /\ UNCHANGED <<rule, profile>>
    BY <1>1
  <1>2. file = Learned!PlaysFrom(d, t)
    OBVIOUS
  <1>3. now = IF saves THEN [p \in Learned!Files(d) \cup {file} |-> IF p = file THEN t ELSE learnedTree[d][p]]
              ELSE learnedTree[d]
    OBVIOUS
  <1>4. after = Learned!Snapshot(t, DOMAIN now)
    OBVIOUS
  <1>5. changed = IF saves THEN Learned!Snapshot(t, {file}) ELSE {}
    OBVIOUS
  <1>6. root = Learned!Learned(IF changed # {} THEN changed ELSE after)
    OBVIOUS
  <1>7. new = {p \in after : Learned!Suffix(p, root) # Learned!NoPath
                             /\ <<t, Learned!Suffix(p, root)>> \notin DOMAIN server}
    OBVIOUS
  <1> HIDE DEF file, now, after, changed, root, new
  <1>9. rule \in {"gc", "wii", "n3ds"} /\ LearnTypes /\ FilesInv /\ ProfilesInv /\ ServerInv
    BY RuleOfLearned DEF LearnInv
  <1>10. FilePlayed(file, t)
    BY <1>2, <1>9, PlaysIs
  <1>11. /\ \A p \in DOMAIN now : FilePlayed(p, now[p])
         /\ Learned!Files(d) \subseteq DOMAIN now
         /\ saves => file \in DOMAIN now
         /\ ~saves => now = learnedTree[d]
         /\ DOMAIN now \subseteq Learned!Files(d) \cup (IF saves THEN {file} ELSE {})
    <2>1. \A p \in Learned!Files(d) : FilePlayed(p, learnedTree[d][p])
      BY <1>9 DEF FilesInv
    <2>2. CASE saves
      <3>1. /\ DOMAIN now = Learned!Files(d) \cup {file}
            /\ \A p \in DOMAIN now : now[p] = IF p = file THEN t ELSE learnedTree[d][p]
        BY <1>3, <2>2
      <3> QED BY <1>10, <2>1, <2>2, <3>1
    <2>3. CASE ~saves
      BY <1>3, <2>1, <2>3 DEF Learned!Files
    <2> QED BY <2>2, <2>3
  <1>12. after \subseteq DOMAIN now /\ changed \subseteq {file} /\ (changed # {} => saves)
    BY <1>4, <1>5 DEF Learned!Snapshot
  <1>13. \/ root = Learned!NoPath
         \/ \E q \in (IF changed # {} THEN changed ELSE after) :
              root = Learned!Root(q) /\ \A p \in (IF changed # {} THEN changed ELSE after) : Learned!Root(p) = Learned!Root(q)
    BY <1>6, LearnedIs
  <1>14. root = Learned!NoPath \/ \E q \in DOMAIN now : root = Learned!Root(q)
    BY <1>11, <1>12, <1>13
  <1>14a. /\ \A p \in DOMAIN now : rule = "n3ds" => p[2] \in profiles'[d]
          /\ profiles' \in [Devices -> SUBSET Profiles] /\ \A b \in Devices : profiles[b] \subseteq profiles'[b]
    <2>1. profiles \in [Devices -> SUBSET Profiles] /\ profile[d] \in Profiles
      BY <1>9 DEF LearnTypes
    <2>2. /\ profiles' \in [Devices -> SUBSET Profiles] /\ \A b \in Devices : profiles[b] \subseteq profiles'[b]
          /\ saves /\ rule = "n3ds" => profile[d] \in profiles'[d]
      BY <1>8, <2>1
    <2>3. ASSUME rule = "n3ds", saves PROVE file[2] = profile[d]
      BY <1>2, <1>9, <2>1, <2>3, PlaysIs, PlayedIs
    <2>4. ASSUME rule = "n3ds", NEW p \in Learned!Files(d) PROVE p[2] \in profiles[d]
      BY <1>9, <2>4 DEF ProfilesInv
    <2> QED BY <1>11, <2>2, <2>3, <2>4
  <1>15. ASSUME NEW p \in new, rule # "gc"
         PROVE  Scoped(d, t, saves, p, now)
    <2>1. /\ p \in after /\ p \in DOMAIN now /\ Learned!Suffix(p, root) # Learned!NoPath
          /\ <<t, Learned!Suffix(p, root)>> \notin DOMAIN server
      BY <1>7, <1>12
    <2>2. PICK u : u = now[p]
      OBVIOUS
    <2>3. FilePlayed(p, u) /\ p \in Seq(Segments) /\ Len(p) = Depth + 1
      BY <1>9, <1>11, <2>1, <2>2, FileIs
    <2>4. rule \in {"wii", "n3ds"}
      BY <1>9, <1>15
    <2>5. PICK q \in (IF changed # {} THEN changed ELSE after) :
            root = Learned!Root(q) /\ \A r \in (IF changed # {} THEN changed ELSE after) : Learned!Root(r) = Learned!Root(q)
      BY <1>9, <1>13, <2>1, <2>3, SuffixIs
    <2>6. PICK v : FilePlayed(q, v) /\ (changed # {} => v = t)
      BY <1>10, <1>11, <1>12, <2>5
    <2>7. q \in Seq(Segments) /\ Len(q) = Depth + 1
      BY <1>9, <2>6, FileIs
    <2>8. Learned!Suffix(p, root) = Learned!WithoutProfile(p) /\ \A i \in 1 .. Depth : p[i] = q[i]
      BY <1>9, <2>1, <2>3, <2>5, <2>7, SuffixIs
    <2>9. u = v
      BY <2>3, <2>4, <2>6, <2>8, RootTitle
    <2>10. CASE changed # {}
      <3>1. now[p] = t
        BY <2>2, <2>6, <2>9, <2>10
      <3> QED BY <3>1 DEF Scoped
    <2>11. CASE changed = {}
      <3> DEFINE known == {SubSeq(e[2], 1, Len(Learned!Pattern) - Learned!Local) : e \in Learned!Of(t)}
      <3>0. ASSUME known # {} PROVE u = t \/ Learned!Mixed(t)
        <4>1. Learned!Canonical(p) \in known
          BY <1>4, <2>1, <3>0 DEF Learned!Snapshot
        <4>2. PICK e \in Learned!Of(t) : Learned!Canonical(p) = SubSeq(e[2], 1, Len(Learned!Pattern) - Learned!Local)
          BY <4>1
        <4>3. e \in DOMAIN server /\ e[1] = t
          BY DEF Learned!Of
        <4>4. PICK x \in Profiles : e = <<e[1], Learned!WithoutProfile(Played(x, server[e]))>>
          BY <1>9, <4>3 DEF ServerInv
        <4>5. PICK z : z = Played(x, server[e])
          OBVIOUS
        <4>6. FilePlayed(z, server[e])
          BY <1>9, <4>3, <4>5 DEF ServerInv, FilePlayed
        <4>7. e[2] = Learned!WithoutProfile(z)
          BY <4>4, <4>5
        <4>8. Learned!Matches(p)
          BY <1>9, <2>3, FileIs
        <4>9. Learned!WithoutProfile(Learned!Root(p)) = SubSeq(Learned!WithoutProfile(z), 1, Depth - Learned!Local)
          BY <1>9, <4>2, <4>7, <4>8, PatternIs DEF Learned!Canonical
        <4>10. u = server[e]
          BY <2>3, <2>4, <4>6, <4>9, RootTitle
        <4> QED BY <4>3, <4>10 DEF Learned!Mixed
      <3>0a. CASE known # {}
        BY <2>2, <3>0, <3>0a DEF Scoped
      <3>0b. CASE known = {}
        <4>0. Learned!Of(t) = {}
          BY <3>0b
        <4>2. \A paths : Learned!Snapshot(t, paths) = {r \in paths : Learned!Matches(r)}
          BY <3>0b DEF Learned!Snapshot
        <4>3. ~saves
          <5> SUFFICES ASSUME saves PROVE FALSE
            OBVIOUS
          <5>1. changed = {r \in {file} : Learned!Matches(r)}
            BY <1>5, <4>2
          <5>2. Learned!Matches(file)
            BY <1>9, <1>10, FileIs
          <5> QED BY <2>11, <5>1, <5>2
        <4>4. now = learnedTree[d]
          BY <1>11, <4>3
        <4>5. ASSUME NEW r \in DOMAIN now PROVE now[r] = u
          <5>1. FilePlayed(r, now[r]) /\ Learned!Matches(r)
            BY <1>9, <1>11, FileIs
          <5>2. r \in after
            BY <1>4, <4>2, <5>1
          <5>3. Learned!Root(r) = Learned!Root(q)
            BY <2>5, <2>11, <5>2
          <5> QED BY <2>4, <2>6, <2>9, <5>1, <5>3, RootTitle
        <4>6. CASE u = t
          <5>1. now[p] = t
            BY <2>2, <4>6
          <5> QED BY <5>1 DEF Scoped
        <4>7. CASE u # t
          <5>1. t \notin {now[r] : r \in DOMAIN now}
            BY <4>5, <4>7
          <5> QED BY <4>0, <4>3, <4>4, <5>1 DEF Scoped, Learned!Files
        <4> QED BY <4>6, <4>7
      <3> QED BY <3>0a, <3>0b
    <2> QED BY <2>10, <2>11
  <1>16. CASE ~(online /\ after # {})
    <2>1. UNCHANGED <<roots, server>>
      BY <1>8, <1>16
    <2>2. Leaves(d, t, saves, now, root)
      BY <1>8, <1>11, <1>14, <1>14a, <2>1 DEF Leaves
    <2> QED BY <2>2
  <1>17. CASE online /\ after # {}
    <2>1. /\ roots' = [roots EXCEPT ![d] = [@ EXCEPT ![t] = root]]
          /\ server' = [e \in DOMAIN server \cup {<<t, Learned!Suffix(p, root)>> : p \in new} |->
                           IF e \in DOMAIN server THEN server[e]
                           ELSE now[CHOOSE p \in new : e = <<t, Learned!Suffix(p, root)>>]]
      BY <1>8, <1>17
    <2>2. \A e \in DOMAIN server : e \in DOMAIN server' /\ server'[e] = server[e]
      BY <2>1
    <2>3. ASSUME NEW e \in DOMAIN server' \ DOMAIN server
          PROVE  \E p \in DOMAIN now : Uploaded(t, now, root, e, p) /\ Scoped(d, t, saves, p, now)
      <3>1. PICK p \in new : p = CHOOSE r \in new : e = <<t, Learned!Suffix(r, root)>>
        BY <2>1, <2>3
      <3>2. e = <<t, Learned!Suffix(p, root)>>
        BY <2>1, <2>3, <3>1
      <3>3. server'[e] = now[p]
        BY <2>1, <2>3, <3>1
      <3>4. p \in DOMAIN now /\ Learned!Suffix(p, root) # Learned!NoPath
        BY <1>7, <1>12
      <3>5. Uploaded(t, now, root, e, p)
        BY <3>2, <3>3, <3>4 DEF Uploaded
      <3>6. Scoped(d, t, saves, p, now)
        <4>1. rule = "gc" => Scoped(d, t, saves, p, now)
          BY DEF Scoped
        <4> QED BY <1>15, <4>1
      <3> QED BY <3>4, <3>5, <3>6
    <2>4. Leaves(d, t, saves, now, root)
      BY <1>8, <1>11, <1>14, <1>14a, <2>1, <2>2, <2>3 DEF Leaves
    <2> QED BY <2>4
  <1> QED BY <1>16, <1>17

LEMMA SessionKeeps ==
  ASSUME LearnRules, LearnInv, NEW d \in Devices, NEW t \in Titles, NEW saves \in BOOLEAN,
         Learned!Session(d, t, saves)
  PROVE  LearnInv'
  <1>1. PICK now, root : Leaves(d, t, saves, now, root)
    BY SessionIs
  <1>2. /\ rule \in {"gc", "wii", "n3ds"} /\ LearnTypes /\ FilesInv /\ ProfilesInv /\ RootsInv /\ ServerInv
        /\ rule' = rule
    BY <1>1, RuleOfLearned DEF LearnInv, Leaves
  <1>3. /\ \A p, u : FilePlayed(p, u)' <=> FilePlayed(p, u)
        /\ \A p : Learned!Root(p)' = Learned!Root(p)
        /\ \A p : Learned!WithoutProfile(p)' = Learned!WithoutProfile(p)
        /\ \A x, u : Played(x, u)' = Played(x, u)
        /\ Learned!NoPath' = Learned!NoPath
    BY <1>2, RuleStays
  <1>4. /\ learnedTree' = [learnedTree EXCEPT ![d] = now]
        /\ \A b \in Devices : learnedTree'[b] = IF b = d THEN now ELSE learnedTree[b]
        /\ \A b \in Devices : Learned!Files(b) \subseteq Learned!Files(b)'
        /\ Learned!Files(d)' = DOMAIN now
    <2>1. learnedTree' = [learnedTree EXCEPT ![d] = now] /\ Learned!Files(d) \subseteq DOMAIN now
      BY <1>1 DEF Leaves
    <2>2. DOMAIN learnedTree = Devices
      BY <1>2 DEF LearnTypes
    <2>3. \A b \in Devices : learnedTree'[b] = IF b = d THEN now ELSE learnedTree[b]
      BY <2>1, <2>2
    <2> QED BY <2>1, <2>3 DEF Learned!Files
  <1>5. LearnTypes'
    <2>1. /\ rule' \in Rules /\ profile' \in [Devices -> Profiles]
          /\ profiles' \in [Devices -> SUBSET Profiles]
      BY <1>1, <1>2 DEF Leaves, LearnTypes
    <2>2. learnedTree' = [b \in Devices |-> learnedTree'[b]]
      BY <1>2, <1>4 DEF LearnTypes
    <2>3. roots' = [b \in Devices |-> [u \in Titles |-> roots'[b][u]]]
      <3>1. CASE UNCHANGED roots
        BY <1>2, <3>1 DEF LearnTypes
      <3>2. CASE roots' = [roots EXCEPT ![d] = [@ EXCEPT ![t] = root]]
        <4>1. DOMAIN roots = Devices /\ \A b \in Devices : roots[b] = [u \in Titles |-> roots[b][u]]
          BY <1>2 DEF LearnTypes
        <4>2. DOMAIN roots' = Devices /\ \A b \in Devices : roots'[b] = [u \in Titles |-> roots'[b][u]]
          <5>1. \A b \in Devices : roots'[b] = IF b = d THEN [roots[d] EXCEPT ![t] = root] ELSE roots[b]
            BY <3>2, <4>1
          <5> QED BY <3>2, <4>1, <5>1
        <4>3. roots' = [b \in Devices |-> roots'[b]]
          BY <3>2, <4>1
        <4> QED BY <4>2, <4>3
      <3> QED BY <1>1, <3>1, <3>2 DEF Leaves
    <2> QED BY <2>1, <2>2, <2>3 DEF LearnTypes
  <1>6. FilesInv'
    <2>1. \A b \in Devices : \A p \in Learned!Files(b)' : FilePlayed(p, learnedTree'[b][p])
      <3>1. TAKE b \in Devices
      <3>2. CASE b = d
        BY <1>1, <1>4, <3>2 DEF Leaves
      <3>3. CASE b # d
        BY <1>2, <1>4, <3>3 DEF FilesInv, Learned!Files
      <3> QED BY <3>2, <3>3
    <2> QED BY <1>3, <2>1 DEF FilesInv
  <1>6a. ProfilesInv'
    <2>1. ASSUME rule = "n3ds", NEW b \in Devices, NEW p \in Learned!Files(b)' PROVE p[2] \in profiles'[b]
      <3>1. CASE b = d
        BY <1>1, <1>4, <2>1, <3>1 DEF Leaves
      <3>2. CASE b # d
        <4>1. p \in Learned!Files(b)
          BY <1>4, <3>2 DEF Learned!Files
        <4>2. p[2] \in profiles[b] /\ profiles[b] \subseteq profiles'[b]
          BY <1>1, <1>2, <2>1, <4>1 DEF ProfilesInv, Leaves
        <4> QED BY <4>2
      <3> QED BY <3>1, <3>2
    <2> QED BY <1>2, <2>1 DEF ProfilesInv
  <1>7. RootsInv'
    <2>1. ASSUME NEW b \in Devices, NEW u \in Titles
          PROVE  roots'[b][u] = Learned!NoPath \/ \E q \in Learned!Files(b)' : roots'[b][u] = Learned!Root(q)
      <3>1. CASE roots'[b][u] = roots[b][u]
        BY <1>2, <1>4, <3>1 DEF RootsInv
      <3>2. CASE roots'[b][u] # roots[b][u]
        <4>1. roots' = [roots EXCEPT ![d] = [@ EXCEPT ![t] = root]]
          BY <1>1, <3>2 DEF Leaves
        <4>2. b = d /\ u = t /\ roots'[b][u] = root
          BY <1>2, <3>2, <4>1 DEF LearnTypes
        <4> QED BY <1>1, <1>4, <4>2 DEF Leaves
      <3> QED BY <3>1, <3>2
    <2> QED BY <1>3, <2>1 DEF RootsInv
  <1>8. ServerInv'
    <2>1. ASSUME NEW e \in DOMAIN server'
          PROVE  /\ e[1] \in Titles /\ server'[e] \in Titles
                 /\ \E x \in Profiles : e = <<e[1], Learned!WithoutProfile(Played(x, server'[e]))>>
      <3>1. CASE e \in DOMAIN server
        <4>1. server'[e] = server[e]
          BY <1>1, <3>1 DEF Leaves
        <4> QED BY <1>2, <3>1, <4>1 DEF ServerInv
      <3>2. CASE e \notin DOMAIN server
        <4>1. PICK p \in DOMAIN now : Uploaded(t, now, root, e, p)
          BY <1>1, <3>2 DEF Leaves
        <4>2. PICK u : u = now[p]
          OBVIOUS
        <4>3. FilePlayed(p, u) /\ p \in Seq(Segments) /\ Len(p) = Depth + 1
          BY <1>1, <1>2, <4>2, FileIs DEF Leaves
        <4>4. PICK q \in DOMAIN now : root = Learned!Root(q)
          <5>1. root # Learned!NoPath
            BY <1>2, <4>1, <4>3, SuffixIs DEF Uploaded
          <5> QED BY <1>1, <5>1 DEF Leaves
        <4>5. q \in Seq(Segments) /\ Len(q) = Depth + 1
          BY <1>1, <1>2, FileIs DEF Leaves
        <4>6. e = <<t, Learned!WithoutProfile(p)>> /\ server'[e] = u
          BY <1>2, <4>1, <4>2, <4>3, <4>4, <4>5, SuffixIs DEF Uploaded
        <4>7. PICK x \in Profiles : p = Played(x, u)
          BY <4>3 DEF FilePlayed
        <4>8. u \in Titles /\ e[1] = t
          BY <4>3, <4>6 DEF FilePlayed
        <4> QED BY <4>6, <4>7, <4>8
      <3> QED BY <3>1, <3>2
    <2> QED BY <1>3, <2>1 DEF ServerInv
  <1> QED BY <1>5, <1>6, <1>6a, <1>7, <1>8 DEF LearnInv

\* A file that comes down is one the game of its title may play from.
LEMMA DownloadIs ==
  ASSUME LearnRules, LearnInv, NEW d \in Devices, NEW e \in DOMAIN server, Learned!Download(d, e)
  PROVE  \E file :
    /\ FilePlayed(file, server[e])
    /\ rule # "n3ds" /\ server[e] = e[1] => file = Learned!PlaysFrom(d, e[1])
    /\ rule = "n3ds" => \E y \in profiles[d] : file = Played(y, server[e])
    /\ learnedTree' = [learnedTree EXCEPT ![d] =
         [p \in Learned!Files(d) \cup {file} |-> IF p = file THEN server[e] ELSE @[p]]]
    /\ UNCHANGED <<rule, profile, profiles, roots, server, events>>
  <1>1. PICK file : file = Learned!Destination(d, e[1], e[2])
    OBVIOUS
  <1>2. /\ file # Learned!NoPath
        /\ learnedTree' = [learnedTree EXCEPT ![d] =
             [p \in Learned!Files(d) \cup {file} |-> IF p = file THEN server[e] ELSE @[p]]]
        /\ UNCHANGED <<rule, profile, profiles, roots, server, events>>
    BY <1>1 DEF Learned!Download
  <1>3. rule \in {"gc", "wii", "n3ds"} /\ LearnTypes /\ FilesInv /\ ProfilesInv /\ RootsInv /\ ServerInv
    BY RuleOfLearned DEF LearnInv
  <1>4. PICK t \in Titles : t = e[1]
    BY <1>3 DEF ServerInv
  <1>5. PICK u \in Titles : u = server[e]
    BY <1>3 DEF ServerInv
  <1>6. PICK x \in Profiles : e = <<e[1], Learned!WithoutProfile(Played(x, u))>>
    BY <1>3, <1>5 DEF ServerInv
  <1>7. PICK s : s = Learned!WithoutProfile(Played(x, u))
    OBVIOUS
  <1>8. file = Learned!Destination(d, t, s)
    BY <1>1, <1>4, <1>6, <1>7
  <1>9. CASE rule # "n3ds"
    <2>1. file = Played(x, u)
      BY <1>3, <1>7, <1>8, <1>9, LearnedDestination
    <2>2. FilePlayed(file, u)
      BY <2>1 DEF FilePlayed
    <2>3. \A y : Played(x, u) = Played(y, u)
      BY <1>3, <1>9 DEF Played
    <2>4. u = t => file = Learned!PlaysFrom(d, t)
      BY <1>3, <2>1, <2>3, PlaysIs
    <2> QED BY <1>2, <1>4, <1>5, <1>9, <2>2, <2>4
  <1>10. CASE rule = "n3ds"
    <2>1. PICK y \in profiles[d] : file = Played(y, u)
      BY <1>2, <1>3, <1>7, <1>8, <1>10, LearnedDestination
    <2>2. FilePlayed(file, u)
      BY <1>3, <2>1 DEF FilePlayed, LearnTypes
    <2> QED BY <1>2, <1>5, <1>10, <2>1, <2>2
  <1> QED BY <1>9, <1>10

LEMMA LearnedDownloadKeeps ==
  ASSUME LearnRules, LearnInv, NEW d \in Devices, NEW e \in DOMAIN server, Learned!Download(d, e)
  PROVE  LearnInv'
  <1>1. PICK file :
          /\ FilePlayed(file, server[e])
          /\ rule = "n3ds" => \E y \in profiles[d] : file = Played(y, server[e])
          /\ learnedTree' = [learnedTree EXCEPT ![d] =
               [p \in Learned!Files(d) \cup {file} |-> IF p = file THEN server[e] ELSE @[p]]]
          /\ UNCHANGED <<rule, profile, profiles, roots, server, events>>
    BY DownloadIs
  <1>2. rule \in {"gc", "wii", "n3ds"} /\ LearnTypes /\ FilesInv /\ ProfilesInv /\ RootsInv /\ ServerInv
    BY RuleOfLearned DEF LearnInv
  <1>3. /\ \A p, u : FilePlayed(p, u)' <=> FilePlayed(p, u)
        /\ \A p : Learned!Root(p)' = Learned!Root(p)
        /\ \A p : Learned!WithoutProfile(p)' = Learned!WithoutProfile(p)
        /\ \A x, u : Played(x, u)' = Played(x, u)
        /\ Learned!NoPath' = Learned!NoPath
    BY <1>1, RuleStays
  <1>4. DOMAIN learnedTree = Devices
    BY <1>2 DEF LearnTypes
  <1>5. PICK now : now = [p \in Learned!Files(d) \cup {file} |-> IF p = file THEN server[e] ELSE learnedTree[d][p]]
    OBVIOUS
  <1>6. \A b \in Devices : learnedTree'[b] = IF b = d THEN now ELSE learnedTree[b]
    BY <1>1, <1>4, <1>5
  <1>7. Learned!Files(d)' = Learned!Files(d) \cup {file}
    BY <1>5, <1>6 DEF Learned!Files
  <1>8. \A b \in Devices : Learned!Files(b) \subseteq Learned!Files(b)'
    BY <1>6, <1>7 DEF Learned!Files
  <1>9. LearnTypes'
    <2>1. learnedTree' = [b \in Devices |-> learnedTree'[b]]
      BY <1>1, <1>4, <1>2 DEF LearnTypes
    <2> QED BY <1>1, <1>2, <2>1 DEF LearnTypes
  <1>10. FilesInv'
    <2>1. \A b \in Devices : \A p \in Learned!Files(b)' : FilePlayed(p, learnedTree'[b][p])
      <3>1. TAKE b \in Devices
      <3>2. CASE b = d
        <4>1. \A p \in Learned!Files(d) : FilePlayed(p, learnedTree[d][p])
          BY <1>2 DEF FilesInv
        <4>2. \A p \in Learned!Files(d) \cup {file} : FilePlayed(p, now[p])
          BY <1>1, <1>5, <4>1
        <4> QED BY <1>6, <1>7, <3>2, <4>2
      <3>3. CASE b # d
        BY <1>2, <1>6, <3>3 DEF FilesInv, Learned!Files
      <3> QED BY <3>2, <3>3
    <2> QED BY <1>3, <2>1 DEF FilesInv
  <1>10a. ProfilesInv'
    <2>1. ASSUME rule = "n3ds", NEW b \in Devices, NEW p \in Learned!Files(b)' PROVE p[2] \in profiles[b]
      <3>1. CASE p \in Learned!Files(b)
        BY <1>2, <2>1, <3>1 DEF ProfilesInv
      <3>2. CASE p \notin Learned!Files(b)
        <4>1. b = d /\ p = file
          BY <1>6, <1>7, <3>2 DEF Learned!Files
        <4>2. PICK y \in profiles[d] : p = Played(y, server[e])
          BY <1>1, <2>1, <4>1
        <4>3. y \in Profiles /\ server[e] \in Titles
          BY <1>2 DEF LearnTypes, ServerInv
        <4>4. p[2] = y
          BY <1>2, <2>1, <4>2, <4>3, PlayedIs
        <4> QED BY <4>1, <4>4
      <3> QED BY <3>1, <3>2
    <2> QED BY <1>1, <2>1 DEF ProfilesInv
  <1>11. RootsInv'
    <2>1. \A b \in Devices, u \in Titles :
            roots[b][u] = Learned!NoPath \/ \E q \in Learned!Files(b)' : roots[b][u] = Learned!Root(q)
      BY <1>2, <1>8 DEF RootsInv
    <2> QED BY <1>1, <1>3, <2>1 DEF RootsInv
  <1>12. ServerInv'
    BY <1>1, <1>2, <1>3 DEF ServerInv
  <1> QED BY <1>9, <1>10, <1>10a, <1>11, <1>12 DEF LearnInv

LEMMA OthersKeep ==
  ASSUME LearnInv, UNCHANGED <<rule, learnedTree, roots, server>>, profile' \in [Devices -> Profiles],
         profiles' \in [Devices -> SUBSET Profiles], \A d \in Devices : profiles[d] \subseteq profiles'[d]
  PROVE  LearnInv'
  <1>1. /\ \A p, u : FilePlayed(p, u)' <=> FilePlayed(p, u)
        /\ \A p : Learned!Root(p)' = Learned!Root(p)
        /\ \A p : Learned!WithoutProfile(p)' = Learned!WithoutProfile(p)
        /\ \A x, u : Played(x, u)' = Played(x, u)
        /\ Learned!NoPath' = Learned!NoPath
    BY RuleStays
  <1>2. \A d : Learned!Files(d)' = Learned!Files(d)
    BY DEF Learned!Files
  <1>3. LearnTypes'
    BY DEF LearnInv, LearnTypes
  <1>4. FilesInv'
    BY <1>1, <1>2 DEF LearnInv, FilesInv
  <1>4a. ProfilesInv'
    <2>1. rule = "n3ds" => \A d \in Devices : \A p \in Learned!Files(d) : p[2] \in profiles'[d]
      BY DEF LearnInv, ProfilesInv
    <2> QED BY <1>2, <2>1 DEF ProfilesInv
  <1>5. RootsInv'
    BY <1>1, <1>2 DEF LearnInv, RootsInv
  <1>6. ServerInv'
    BY <1>1 DEF LearnInv, ServerInv
  <1> QED BY <1>3, <1>4, <1>4a, <1>5, <1>6 DEF LearnInv

LEMMA LearnStep == LearnRules /\ LearnInv /\ [Learned!Next]_Learned!vars => LearnInv'
  <1> SUFFICES ASSUME LearnRules, LearnInv, [Learned!Next]_Learned!vars PROVE LearnInv'
    OBVIOUS
  <1>1. profile \in [Devices -> Profiles] /\ profiles \in [Devices -> SUBSET Profiles]
    BY DEF LearnInv, LearnTypes
  <1>2. CASE UNCHANGED Learned!vars
    <2>1. UNCHANGED <<rule, learnedTree, roots, server>> /\ profile' = profile /\ profiles' = profiles
      BY <1>2 DEF Learned!vars
    <2> QED BY <1>1, <2>1, OthersKeep
  <1>3. ASSUME NEW d \in Devices, Learned!NewProfile(d) PROVE LearnInv'
    <2>1. UNCHANGED <<rule, learnedTree, roots, server>>
      BY <1>3 DEF Learned!NewProfile
    <2>2. PICK x \in Profiles, has \in BOOLEAN :
            /\ profile' = [profile EXCEPT ![d] = x]
            /\ profiles' = [profiles EXCEPT ![d] = IF has THEN @ \cup {x} ELSE @]
      BY <1>3 DEF Learned!NewProfile
    <2>3. profile' \in [Devices -> Profiles]
      BY <1>1, <2>2
    <2>4. profiles' \in [Devices -> SUBSET Profiles] /\ \A b \in Devices : profiles[b] \subseteq profiles'[b]
      BY <1>1, <2>2
    <2> QED BY <2>1, <2>3, <2>4, OthersKeep
  <1> QED BY <1>2, <1>3, SessionKeeps, LearnedDownloadKeeps DEF Learned!Next

LEMMA LearnInvariant ==
  ASSUME LearnRules
  PROVE  Learned!Spec => []LearnInv
  <1>1. Learned!Init => LearnInv
    BY LearnInit
  <1>2. LearnInv /\ [Learned!Next]_Learned!vars => LearnInv'
    BY LearnStep
  <1> QED BY <1>1, <1>2, PTL DEF Learned!Spec

\* Every file is of a title, and matches the rule; so is what is on the server.
THEOREM LearnedTypes ==
  ASSUME LearnRules
  PROVE  Learned!Spec => []Learned!TypeOK
  <1>1. LearnInv => Learned!TypeOK
    <2> SUFFICES ASSUME LearnInv PROVE Learned!TypeOK
      OBVIOUS
    <2>1. rule \in {"gc", "wii", "n3ds"} /\ FilesInv /\ ServerInv
      BY RuleOfLearned DEF LearnInv
    <2>2. \A d \in Devices : \A p \in Learned!Files(d) : Learned!Matches(p) /\ learnedTree[d][p] \in Titles
      BY <2>1, FileIs DEF FilesInv, FilePlayed
    <2> QED BY <2>1, <2>2 DEF Learned!TypeOK, ServerInv, LearnInv, LearnTypes
  <1> QED BY <1>1, LearnInvariant, PTL

\* Suffix and destination undo one another.
LEMMA ComesBack == LearnRules /\ LearnInv => Learned!ComesBackToItsPlace
  <1> SUFFICES ASSUME LearnRules, LearnInv,
                      NEW d \in Devices, NEW t \in Titles, NEW p \in Learned!Files(d),
                      Learned!Suffix(p, roots[d][t]) # Learned!NoPath
               PROVE  Learned!Destination(d, t, Learned!Suffix(p, roots[d][t])) = p
    BY DEF Learned!ComesBackToItsPlace
  <1>1. rule \in {"gc", "wii", "n3ds"} /\ LearnTypes /\ FilesInv /\ ProfilesInv /\ RootsInv
    BY RuleOfLearned DEF LearnInv
  <1>2. PICK u \in Titles : u = learnedTree[d][p] /\ FilePlayed(p, u)
    BY <1>1 DEF FilesInv, FilePlayed
  <1>3. p \in Seq(Segments) /\ Len(p) = Depth + 1
    BY <1>1, <1>2, FileIs
  <1>4. PICK q \in Learned!Files(d) : roots[d][t] = Learned!Root(q)
    <2>1. roots[d][t] # Learned!NoPath
      BY <1>1, <1>3, SuffixIs
    <2> QED BY <1>1, <2>1 DEF RootsInv
  <1>5. q \in Seq(Segments) /\ Len(q) = Depth + 1
    BY <1>1, FileIs DEF FilesInv
  <1>6. PICK s : s = Learned!WithoutProfile(p)
    OBVIOUS
  <1>7. Learned!Suffix(p, roots[d][t]) = s /\ \A i \in 1 .. Depth : p[i] = q[i]
    BY <1>1, <1>3, <1>4, <1>5, <1>6, SuffixIs
  <1>8. Learned!Root(p) = Learned!Root(q)
    <2>1. /\ Learned!Root(p) \in Seq(Segments) /\ Len(Learned!Root(p)) = Depth
          /\ \A i \in 1 .. Depth : Learned!Root(p)[i] = p[i]
          /\ Learned!Root(q) \in Seq(Segments) /\ Len(Learned!Root(q)) = Depth
          /\ \A i \in 1 .. Depth : Learned!Root(q)[i] = q[i]
      BY <1>1, <1>3, <1>5, RootIs
    <2>2. \A i \in 1 .. Depth : Learned!Root(p)[i] = Learned!Root(q)[i]
      BY <1>7, <2>1
    <2>3. Depth \in Nat
      BY <1>1, RulesAre
    <2> QED BY ONLY <2>1, <2>2, <2>3
  <1>9. PICK x \in Profiles : p = Played(x, u)
    BY <1>2 DEF FilePlayed
  <1>10. rule # "n3ds" => Learned!Destination(d, t, s) = p
    BY <1>1, <1>6, <1>9, LearnedDestination
  <1>11. rule = "n3ds" => Learned!Destination(d, t, s) = p
    BY <1>1, <1>2, <1>4, <1>6, <1>8, <1>9, LearnedDestination
  <1> QED BY <1>7, <1>10, <1>11

\* What comes down is where the game plays from.
LEMMA DownloadsArePlayed == LearnRules /\ LearnInv => Learned!PlayedDownload
  <1> SUFFICES ASSUME LearnRules, LearnInv,
                      NEW d \in Devices, NEW e \in DOMAIN server, Learned!Download(d, e), server[e] = e[1]
               PROVE  \/ Learned!PlaysFrom(d, e[1]) \in DOMAIN learnedTree'[d]
                      \/ rule = "n3ds" /\ \E x \in profiles[d] : x # profile[d]
    BY DEF Learned!PlayedDownload
  <1>1. PICK file :
          /\ FilePlayed(file, server[e])
          /\ rule # "n3ds" /\ server[e] = e[1] => file = Learned!PlaysFrom(d, e[1])
          /\ rule = "n3ds" => \E y \in profiles[d] : file = Played(y, server[e])
          /\ learnedTree' = [learnedTree EXCEPT ![d] =
               [p \in Learned!Files(d) \cup {file} |-> IF p = file THEN server[e] ELSE @[p]]]
          /\ UNCHANGED <<rule, profile, profiles, roots, server, events>>
    BY DownloadIs
  <1>2. LearnTypes /\ e[1] \in Titles
    BY DEF LearnInv, ServerInv
  <1>3. file \in DOMAIN learnedTree'[d]
    <2>1. DOMAIN learnedTree = Devices
      BY <1>2 DEF LearnTypes
    <2>2. learnedTree'[d] = [p \in Learned!Files(d) \cup {file} |-> IF p = file THEN server[e] ELSE learnedTree[d][p]]
      BY <1>1, <2>1
    <2> QED BY <2>2
  <1>4. CASE rule # "n3ds"
    BY <1>1, <1>3, <1>4
  <1>5. CASE rule = "n3ds"
    <2>1. PICK y \in profiles[d] : file = Played(y, e[1])
      BY <1>1, <1>5
    <2>2. y = profile[d] => file = Learned!PlaysFrom(d, e[1])
      BY <1>2, <2>1, PlaysIs
    <2> QED BY <1>3, <1>5, <2>2
  <1> QED BY <1>4, <1>5

\* A session uploads the saves of its title.
LEMMA SessionsAreScoped == LearnRules /\ LearnInv => Learned!ScopedSession
  <1> SUFFICES ASSUME LearnRules, LearnInv, NEW d \in Devices, NEW t \in Titles, NEW saves \in BOOLEAN,
                      Learned!Session(d, t, saves), NEW e \in DOMAIN server' \ DOMAIN server
               PROVE  \/ e[1] = t /\ server'[e] = t
                      \/ rule = "gc" \/ Learned!Mixed(t)
                      \/ /\ ~saves /\ Learned!Of(t) = {}
                         /\ t \notin {learnedTree[d][p] : p \in Learned!Files(d)}
    BY DEF Learned!ScopedSession
  <1>1. PICK now, root : Leaves(d, t, saves, now, root)
    BY SessionIs
  <1>2. PICK p \in DOMAIN now : Uploaded(t, now, root, e, p) /\ Scoped(d, t, saves, p, now)
    BY <1>1 DEF Leaves
  <1>3. e[1] = t /\ server'[e] = now[p]
    BY <1>2 DEF Uploaded
  <1> QED BY <1>2, <1>3 DEF Scoped

\* What a device uploaded comes back to where it came from; on another device it
\* comes to where the game plays from, unless that 3DS has the directory of a
\* profile it does not use; and a session uploads the saves of the title that
\* was played.  Excepted are a card of a GameCube, the session without a save of
\* a title that neither the device nor the server has a save of, and the titles
\* such a session has mixed (learn_binding_root,
\* canonical_suffix_for_learned_path, resolve_local_save_destination).
THEOREM TreesTravel ==
  ASSUME LearnRules
  PROVE  Learned!Spec => [][Learned!TreeTravels]_Learned!vars
  <1>0. LearnInv => Learned!ComesBackToItsPlace
    BY ComesBack
  <1>1. LearnInv' => Learned!ComesBackToItsPlace'
    BY <1>0, PTL
  <1>2. LearnInv /\ LearnInv' /\ [Learned!Next]_Learned!vars => [Learned!TreeTravels]_Learned!vars
    <2> SUFFICES ASSUME LearnInv, LearnInv', Learned!Next
                 PROVE  Learned!TreeTravels
      OBVIOUS
    <2> QED BY <1>1, DownloadsArePlayed, SessionsAreScoped DEF Learned!TreeTravels
  <1> QED BY <1>2, LearnInvariant, PTL DEF Learned!Spec

-----------------------------------------------------------------------------
(* The edits of a configuration file.                                      *)

\* A set of numbers up to a bound has a largest one.
LEMMA Largest ==
  ASSUME NEW n \in Nat, NEW T \in SUBSET (0 .. n), T # {}
  PROVE  \E x \in T : \A y \in T : x >= y
  <1> DEFINE U == {n - x : x \in T}
  <1>1. U \in SUBSET Nat /\ U # {}
    <2>1. \A x \in T : n - x \in Nat
      OBVIOUS
    <2> QED BY <2>1, T # {}
  <1>2. PICK k \in U : \A m \in U : k <= m
    <2> HIDE DEF U
    <2> QED BY <1>1, Smallest
  <1>3. PICK x \in T : k = n - x
    BY <1>2
  <1>4. \A y \in T : n - y \in U
    OBVIOUS
  <1>5. \A y \in T : n - x <= n - y
    BY <1>2, <1>3, <1>4
  <1> QED BY <1>3, <1>5

LEMMA EditsBounds ==
  ASSUME NEW n \in Nat, NEW T \in SUBSET (1 .. n), T # {}
  PROVE  /\ Edits!Min(T) \in T /\ \A y \in T : Edits!Min(T) <= y
         /\ Edits!Max(T) \in T /\ \A y \in T : y <= Edits!Max(T)
  <1>1. \E x \in T : \A y \in T : x <= y
    <2>1. T \in SUBSET Nat
      OBVIOUS
    <2> QED BY <2>1, Smallest
  <1>2. \E x \in T : \A y \in T : x >= y
    <2>1. T \in SUBSET (0 .. n)
      OBVIOUS
    <2> QED BY <2>1, Largest
  <1>3. Edits!Min(T) \in T /\ \A y \in T : Edits!Min(T) <= y
    BY <1>1 DEF Edits!Min
  <1>4. Edits!Max(T) \in T /\ \A y \in T : Edits!Max(T) >= y
    BY <1>2 DEF Edits!Max
  <1>5. \A y \in T : y \in Nat
    OBVIOUS
  <1> QED BY <1>3, <1>4, <1>5

\* The section of a line is that of the last header up to it, if there is one.
LEMMA SectionIs ==
  ASSUME NEW ls \in Seq(Edits!LineType), NEW i \in 1 .. Len(ls)
  PROVE  /\ (\A j \in 1 .. i : ls[j].sort # "section") => Edits!SectionAt(ls, i) = Edits!Outside
         /\ \A h \in 1 .. i :
              ls[h].sort = "section" /\ (\A j \in h + 1 .. i : ls[j].sort # "section") =>
                Edits!SectionAt(ls, i) = ls[h]
  <1> DEFINE H == {j \in 1 .. i : ls[j].sort = "section"}
  <1>1. Edits!SectionAt(ls, i) = IF H = {} THEN Edits!Outside ELSE ls[Edits!Max(H)]
    BY DEF Edits!SectionAt
  <1>2. ASSUME \A j \in 1 .. i : ls[j].sort # "section" PROVE Edits!SectionAt(ls, i) = Edits!Outside
    BY <1>1, <1>2
  <1>3. ASSUME NEW h \in 1 .. i, ls[h].sort = "section", \A j \in h + 1 .. i : ls[j].sort # "section"
        PROVE  Edits!SectionAt(ls, i) = ls[h]
    <2>1. h \in H /\ H \in SUBSET (1 .. i) /\ i \in Nat
      BY <1>3
    <2>2. PICK x : x = Edits!Max(H)
      OBVIOUS
    <2>3. x \in H /\ \A y \in H : y <= x
      <3> HIDE DEF H
      <3> QED BY <2>1, <2>2, EditsBounds
    <2>4. h <= x
      BY ONLY <2>1, <2>3
    <2>5. x \in 1 .. i /\ ls[x].sort = "section"
      BY <2>3
    <2>6. x = h
      BY <1>3, <2>4, <2>5
    <2> QED BY <1>1, <2>1, <2>2, <2>6
  <1> QED BY <1>2, <1>3

\* Every line is in a section, or before all of them.
LEMMA SectionFound ==
  ASSUME NEW ls \in Seq(Edits!LineType), NEW i \in 1 .. Len(ls)
  PROVE  \/ /\ \A j \in 1 .. i : ls[j].sort # "section"
            /\ Edits!SectionAt(ls, i) = Edits!Outside
         \/ \E h \in 1 .. i : /\ ls[h].sort = "section"
                              /\ \A j \in h + 1 .. i : ls[j].sort # "section"
                              /\ Edits!SectionAt(ls, i) = ls[h]
  <1> DEFINE H == {j \in 1 .. i : ls[j].sort = "section"}
  <1>1. CASE H = {}
    <2>1. \A j \in 1 .. i : ls[j].sort # "section"
      BY <1>1
    <2> QED BY <2>1, SectionIs
  <1>2. CASE H # {}
    <2>1. PICK h \in H : \A y \in H : y <= h
      <3>1. H \in SUBSET (1 .. i) /\ i \in Nat
        OBVIOUS
      <3> HIDE DEF H
      <3> QED BY <1>2, <3>1, EditsBounds
    <2>2. h \in 1 .. i /\ ls[h].sort = "section" /\ \A j \in h + 1 .. i : ls[j].sort # "section"
      BY <2>1
    <2> QED BY <2>2, SectionIs
  <1> QED BY <1>1, <1>2

\* A key and a section that a part of GameHub sets, and the lines it writes.
Keys == {"S", "T"} \X {"a", "b", "c"}
LEMMA ManagedIs ==
  ASSUME emu \in {"pcsx2", "dolphin", "azahar", "retroarch"}, NEW w \in Edits!Writers
  PROVE  Edits!Managed(w) \in Keys
  <1>1. w \in {"runtime", "assisted", "profile", "card"}
    BY DEF Edits!Writers
  <1> QED BY <1>1 DEF Edits!Managed, Keys

LEMMA WantedIs ==
  ASSUME NEW m \in Keys
  PROVE  /\ Edits!Wanted(m) \in Edits!LineType /\ Edits!Wanted(m).sort = "key"
         /\ Edits!Wanted(m).name = m[2] /\ Edits!Wanted(m).exact = TRUE /\ Edits!Wanted(m).value = "want"
         /\ Edits!Header(m[1], TRUE) \in Edits!LineType /\ Edits!Header(m[1], TRUE).sort = "section"
         /\ Edits!Header(m[1], TRUE).name = m[1] /\ Edits!Header(m[1], TRUE).exact = TRUE
         /\ Edits!Header(m[1], TRUE).value = ""
         /\ Edits!Outside.name = "" /\ m[1] # ""
  BY DEF Keys, Edits!Wanted, Edits!Setting, Edits!Line, Edits!LineType, Edits!Header, Edits!Outside


\* A line stays in its section when others come in, unless a header does, and
\* that only comes in at the end.
LEMMA SectionsShift ==
  ASSUME NEW ls \in Seq(Edits!LineType), NEW u \in Seq(Edits!LineType),
         NEW p \in 0 .. Len(ls), NEW d \in Nat, Len(u) = Len(ls) + d,
         \A i \in 1 .. Len(ls) : /\ u[Edits!Shift(i, p, d)].sort = ls[i].sort
                                 /\ ls[i].sort = "section" => u[Edits!Shift(i, p, d)] = ls[i],
         p = Len(ls) \/ \A k \in p + 1 .. p + d : u[k].sort # "section",
         NEW i \in 1 .. Len(ls)
  PROVE  /\ Edits!Shift(i, p, d) \in 1 .. Len(u)
         /\ Edits!SectionAt(u, Edits!Shift(i, p, d)) = Edits!SectionAt(ls, i)
  <1>0. Len(ls) \in Nat /\ Len(u) \in Nat
    OBVIOUS
  <1>1. \A j \in 1 .. Len(ls) : Edits!Shift(j, p, d) \in 1 .. Len(u)
    BY <1>0 DEF Edits!Shift
  <1>2. PICK n \in 1 .. Len(u) : n = Edits!Shift(i, p, d)
    BY <1>1
  \* A line up to n is one that was up to i, or came in.
  <1>3. \A k \in 1 .. n : (\E j \in 1 .. i : k = Edits!Shift(j, p, d)) \/ (k \in p + 1 .. p + d /\ p < i)
    <2>1. TAKE k \in 1 .. n
    <2>2. CASE k <= p
      <3>1. k \in 1 .. i /\ k = Edits!Shift(k, p, d)
        BY <1>0, <1>2, <2>2 DEF Edits!Shift
      <3> QED BY <3>1
    <2>3. CASE k > p + d
      <3>1. k - d \in 1 .. i /\ k = Edits!Shift(k - d, p, d)
        BY <1>0, <1>2, <2>3 DEF Edits!Shift
      <3> QED BY <3>1
    <2>4. CASE k > p /\ k <= p + d
      BY <1>0, <1>2, <2>4 DEF Edits!Shift
    <2> QED BY <1>0, <2>2, <2>3, <2>4
  <1>4. \A k \in 1 .. n : (\E j \in 1 .. i : k = Edits!Shift(j, p, d)) \/ u[k].sort # "section"
    BY <1>0, <1>3
  <1>5. CASE \A j \in 1 .. i : ls[j].sort # "section"
    <2>1. \A k \in 1 .. n : u[k].sort # "section"
      <3>1. \A j \in 1 .. i : j \in 1 .. Len(ls) /\ u[Edits!Shift(j, p, d)].sort # "section"
        BY <1>0, <1>5
      <3> QED BY <1>4, <3>1
    <2>2. Edits!SectionAt(u, n) = Edits!Outside
      BY <2>1, SectionIs
    <2>3. Edits!SectionAt(ls, i) = Edits!Outside
      BY <1>5, SectionIs
    <2> QED BY <1>1, <1>2, <2>2, <2>3
  <1>6. ASSUME NEW h \in 1 .. i, ls[h].sort = "section", \A j \in h + 1 .. i : ls[j].sort # "section",
               Edits!SectionAt(ls, i) = ls[h]
        PROVE  Edits!SectionAt(u, n) = Edits!SectionAt(ls, i)
    <2>1. PICK k \in 1 .. n : k = Edits!Shift(h, p, d)
      <3>1. Edits!Shift(h, p, d) \in 1 .. Edits!Shift(i, p, d)
        BY <1>0, <1>6 DEF Edits!Shift
      <3> QED BY <1>2, <3>1
    <2>2. u[k] = ls[h] /\ u[k].sort = "section"
      BY <1>6, <2>1
    <2>3. \A l \in k + 1 .. n : u[l].sort # "section"
      <3>1. TAKE l \in k + 1 .. n
      <3>2. CASE \E j \in 1 .. i : l = Edits!Shift(j, p, d)
        <4>1. PICK j \in 1 .. i : l = Edits!Shift(j, p, d)
          BY <3>2
        <4>2. j \in h + 1 .. i
          BY <1>0, <2>1, <4>1 DEF Edits!Shift
        <4> QED BY <1>6, <4>1, <4>2
      <3> QED BY <1>4, <3>2
    <2> QED BY <1>6, <2>2, <2>3, SectionIs
  <1> QED BY <1>1, <1>2, <1>5, <1>6, SectionFound

-----------------------------------------------------------------------------
\* What an edit makes of the lines: those that hold the key are rewritten, d
\* lines come in after line p, which hold the key, but for a header at the end.
Edited(ls, u, m, p, d) ==
  /\ u \in Seq(Edits!LineType) /\ p \in 0 .. Len(ls) /\ d \in Nat /\ Len(u) = Len(ls) + d
  /\ \A i \in 1 .. Len(ls) :
       u[Edits!Shift(i, p, d)] = IF Edits!Holds(ls, i, m) THEN Edits!Wanted(m) ELSE ls[i]
  /\ \A k \in p + 1 .. p + d :
       \/ u[k] = Edits!Wanted(m) /\ Edits!Holds(u, k, m)
       \/ u[k] = Edits!Header(m[1], TRUE) /\ p = Len(ls)
  /\ \E k \in 1 .. Len(u) : Edits!Holds(u, k, m)

\* After an edit a line holds the key where it did or came in for it, and says
\* what is wanted there; every line is in the section in which it was.
LEMMA EditedKeys ==
  ASSUME NEW ls \in Seq(Edits!LineType), NEW u, NEW m \in Keys, NEW p, NEW d, Edited(ls, u, m, p, d)
  PROVE  /\ \A i \in 1 .. Len(ls) :
              /\ Edits!Shift(i, p, d) \in 1 .. Len(u)
              /\ Edits!SectionAt(u, Edits!Shift(i, p, d)) = Edits!SectionAt(ls, i)
              /\ Edits!Holds(u, Edits!Shift(i, p, d), m) <=> Edits!Holds(ls, i, m)
         /\ \A k \in 1 .. Len(u) : Edits!Holds(u, k, m) => u[k] = Edits!Wanted(m)
         /\ \A k \in 1 .. Len(u) :
              (\E i \in 1 .. Len(ls) : k = Edits!Shift(i, p, d)) \/ k \in p + 1 .. p + d
  <1>0. Len(ls) \in Nat /\ Len(u) \in Nat /\ DOMAIN ls = 1 .. Len(ls)
    BY DEF Edited
  <1>1. \A i \in 1 .. Len(ls) : Edits!Holds(ls, i, m) => ls[i].sort = "key" /\ ls[i].name = m[2]
    BY DEF Edits!Holds
  <1>2. \A i \in 1 .. Len(ls) : /\ u[Edits!Shift(i, p, d)].sort = ls[i].sort
                                /\ ls[i].sort = "section" => u[Edits!Shift(i, p, d)] = ls[i]
                                /\ u[Edits!Shift(i, p, d)].sort = "key" /\ u[Edits!Shift(i, p, d)].name = m[2] <=>
                                     ls[i].sort = "key" /\ ls[i].name = m[2]
    BY <1>1, WantedIs DEF Edited
  <1>3. p = Len(ls) \/ \A k \in p + 1 .. p + d : u[k].sort # "section"
    BY WantedIs DEF Edited
  <1>4. ASSUME NEW i \in 1 .. Len(ls)
        PROVE  Edits!Shift(i, p, d) \in 1 .. Len(u) /\ Edits!SectionAt(u, Edits!Shift(i, p, d)) = Edits!SectionAt(ls, i)
    <2>1. u \in Seq(Edits!LineType) /\ p \in 0 .. Len(ls) /\ d \in Nat /\ Len(u) = Len(ls) + d
      BY DEF Edited
    <2> QED BY <1>2, <1>3, <2>1, SectionsShift
  <1>5. \A i \in 1 .. Len(ls) : Edits!Holds(u, Edits!Shift(i, p, d), m) <=> Edits!Holds(ls, i, m)
    BY <1>2, <1>4 DEF Edits!Holds
  <1>6. \A k \in 1 .. Len(u) : (\E i \in 1 .. Len(ls) : k = Edits!Shift(i, p, d)) \/ k \in p + 1 .. p + d
    <2>1. p \in 0 .. Len(ls) /\ d \in Nat /\ Len(u) = Len(ls) + d
      BY DEF Edited
    <2>2. TAKE k \in 1 .. Len(u)
    <2>3. CASE k <= p
      BY <1>0, <2>1, <2>3 DEF Edits!Shift
    <2>4. CASE k > p + d
      <3>1. k - d \in 1 .. Len(ls) /\ k = Edits!Shift(k - d, p, d)
        BY <1>0, <2>1, <2>4 DEF Edits!Shift
      <3> QED BY <3>1
    <2> QED BY <1>0, <2>1, <2>3, <2>4
  <1>7. ASSUME NEW k \in 1 .. Len(u), Edits!Holds(u, k, m) PROVE u[k] = Edits!Wanted(m)
    <2>1. CASE \E i \in 1 .. Len(ls) : k = Edits!Shift(i, p, d)
      <3>1. PICK i \in 1 .. Len(ls) : k = Edits!Shift(i, p, d)
        BY <2>1
      <3>2. Edits!Holds(ls, i, m)
        BY <1>5, <1>7, <3>1
      <3> QED BY <3>1, <3>2 DEF Edited
    <2>2. CASE k \in p + 1 .. p + d
      <3>1. u[k].sort = "key"
        BY <1>7 DEF Edits!Holds
      <3> QED BY <2>2, <3>1, WantedIs DEF Edited
    <2> QED BY <1>6, <2>1, <2>2
  <1> QED BY <1>4, <1>5, <1>6, <1>7

-----------------------------------------------------------------------------
(* The editors. *)

LEMMA RewrittenIs ==
  ASSUME NEW ls \in Seq(Edits!LineType), NEW m \in Keys, NEW r, r = Edits!Rewritten(ls, m)
  PROVE  /\ r \in Seq(Edits!LineType) /\ Len(r) = Len(ls) /\ DOMAIN ls = 1 .. Len(ls)
         /\ \A i \in 1 .. Len(ls) : r[i] = IF Edits!Holds(ls, i, m) THEN Edits!Wanted(m) ELSE ls[i]
         /\ (\A i \in 1 .. Len(ls) : Edits!Holds(ls, i, m) => ls[i] = Edits!Wanted(m)) => r = ls
  <1>1. \A i \in 1 .. Len(ls) : ls[i] \in Edits!LineType
    OBVIOUS
  <1>2. DOMAIN ls = 1 .. Len(ls) /\ Len(ls) \in Nat
    OBVIOUS
  <1>3. r = [i \in 1 .. Len(ls) |-> IF Edits!Holds(ls, i, m) THEN Edits!Wanted(m) ELSE ls[i]]
    BY <1>2 DEF Edits!Rewritten
  <1>4. \A i \in 1 .. Len(ls) : r[i] = IF Edits!Holds(ls, i, m) THEN Edits!Wanted(m) ELSE ls[i]
    BY <1>3
  <1>5. \A i \in 1 .. Len(ls) : r[i] \in Edits!LineType
    BY <1>1, <1>4, WantedIs
  <1>6. r \in Seq(Edits!LineType) /\ Len(r) = Len(ls)
    BY ONLY <1>2, <1>3, <1>5
  <1>7. ASSUME \A i \in 1 .. Len(ls) : Edits!Holds(ls, i, m) => ls[i] = Edits!Wanted(m) PROVE r = ls
    <2>1. \A i \in 1 .. Len(ls) : r[i] = ls[i]
      BY <1>4, <1>7
    <2> QED BY ONLY <1>2, <1>6, <2>1, ls \in Seq(Edits!LineType)
  <1> QED BY <1>2, <1>4, <1>6, <1>7

\* Where the key is set already, an edit only rewrites.
LEMMA RewrittenIsEdited ==
  ASSUME NEW ls \in Seq(Edits!LineType), NEW m \in Keys, \E i \in 1 .. Len(ls) : Edits!Holds(ls, i, m)
  PROVE  Edited(ls, Edits!Rewritten(ls, m), m, Len(ls), 0)
  <1>1. PICK r : r = Edits!Rewritten(ls, m)
    OBVIOUS
  <1>2. /\ r \in Seq(Edits!LineType) /\ Len(r) = Len(ls)
        /\ \A i \in 1 .. Len(ls) : r[i] = IF Edits!Holds(ls, i, m) THEN Edits!Wanted(m) ELSE ls[i]
    BY <1>1, RewrittenIs
  <1>3. \A i \in 1 .. Len(ls) : Edits!Shift(i, Len(ls), 0) = i
    BY DEF Edits!Shift
  <1>4. Len(ls) \in Nat /\ Len(ls) + 1 .. Len(ls) + 0 = {}
    OBVIOUS
  <1>5. \A i \in 1 .. Len(ls) : /\ r[i].sort = ls[i].sort
                                /\ ls[i].sort = "section" => r[i] = ls[i]
                                /\ Edits!Holds(ls, i, m) => r[i].name = m[2]
    BY <1>2, WantedIs DEF Edits!Holds
  <1>6. \A i \in 1 .. Len(ls) : Edits!SectionAt(r, i) = Edits!SectionAt(ls, i)
    <2>1. TAKE i \in 1 .. Len(ls)
    <2>2. PICK n \in Nat, z \in Nat : n = Len(ls) /\ z = 0
      BY <1>4
    <2>3. /\ n \in 0 .. Len(ls) /\ Len(r) = Len(ls) + z /\ n = Len(ls)
          /\ \A j \in 1 .. Len(ls) : Edits!Shift(j, n, z) = j
      BY <1>2, <1>3, <2>2
    <2>4. \A j \in 1 .. Len(ls) : /\ r[Edits!Shift(j, n, z)].sort = ls[j].sort
                                  /\ ls[j].sort = "section" => r[Edits!Shift(j, n, z)] = ls[j]
      BY <1>5, <2>3
    <2>5. Edits!SectionAt(r, Edits!Shift(i, n, z)) = Edits!SectionAt(ls, i)
      <3>1. r \in Seq(Edits!LineType) /\ Len(r) = Len(ls) + z /\ n \in 0 .. Len(ls)
        BY <1>2, <2>3
      <3>2. n = Len(ls) \/ \A k \in n + 1 .. n + z : r[k].sort # "section"
        BY <2>3
      <3> QED BY ONLY <2>4, <3>1, <3>2, z \in Nat, ls \in Seq(Edits!LineType), i \in 1 .. Len(ls), SectionsShift
    <2> QED BY <2>3, <2>5
  <1>7. \E k \in 1 .. Len(r) : Edits!Holds(r, k, m)
    <2>1. PICK k \in 1 .. Len(ls) : Edits!Holds(ls, k, m)
      OBVIOUS
    <2>2. Edits!Holds(r, k, m)
      BY <1>5, <1>6, <2>1 DEF Edits!Holds
    <2> QED BY <1>2, <2>1, <2>2
  <1>8. Edited(ls, r, m, Len(ls), 0)
    <2>1. Len(ls) \in 0 .. Len(ls) /\ 0 \in Nat /\ Len(r) = Len(ls) + 0
      BY <1>2, <1>4
    <2>2. \A i \in 1 .. Len(ls) :
            r[Edits!Shift(i, Len(ls), 0)] = IF Edits!Holds(ls, i, m) THEN Edits!Wanted(m) ELSE ls[i]
      BY <1>2, <1>3
    <2>3. \A k \in Len(ls) + 1 .. Len(ls) + 0 : FALSE
      BY ONLY <1>4
    <2> QED BY <1>2, <1>7, <2>1, <2>2, <2>3 DEF Edited
  <1> QED BY <1>1, <1>8

LEMMA PlainEdits ==
  ASSUME ~Edits!Sections, NEW ls \in Seq(Edits!LineType), NEW m \in Keys,
         NEW u, u = Edits!UpsertPlain(ls, m)
  PROVE  (\E p, d : d \in 0 .. 2 /\ Edited(ls, u, m, p, d)) /\ Edits!UpsertPlain(u, m) = u
  <1>0. Len(ls) \in Nat /\ DOMAIN ls = 1 .. Len(ls)
    OBVIOUS
  <1>1. \E p, d : d \in 0 .. 2 /\ Edited(ls, u, m, p, d)
    <2>1. CASE Edits!Holding(ls, m) # {}
      <3>1. u = Edits!Rewritten(ls, m)
        BY <2>1 DEF Edits!UpsertPlain
      <3>2. \E i \in 1 .. Len(ls) : Edits!Holds(ls, i, m)
        BY <1>0, <2>1 DEF Edits!Holding
      <3> QED BY <3>1, <3>2, RewrittenIsEdited
    <2>2. CASE Edits!Holding(ls, m) = {}
      <3>1. u = Append(ls, Edits!Wanted(m))
        BY <2>2 DEF Edits!UpsertPlain
      <3>2. \A i \in 1 .. Len(ls) : ~Edits!Holds(ls, i, m)
        BY <1>0, <2>2 DEF Edits!Holding
      <3>3. Edits!Wanted(m) \in Edits!LineType
        BY WantedIs
      <3>4. /\ u \in Seq(Edits!LineType) /\ Len(u) = Len(ls) + 1
            /\ \A i \in 1 .. Len(ls) : u[i] = ls[i] /\ u[Len(ls) + 1] = Edits!Wanted(m)
            /\ u[Len(ls) + 1] = Edits!Wanted(m)
        BY <1>0, <3>1, <3>3
      <3>5. Edits!Holds(u, Len(ls) + 1, m)
        BY <3>4, WantedIs DEF Edits!Holds
      <3>6. \A i \in 1 .. Len(ls) : Edits!Shift(i, Len(ls), 1) = i
        BY DEF Edits!Shift
      <3>7. Len(ls) + 1 .. Len(ls) + 1 = {Len(ls) + 1} /\ Len(ls) \in 0 .. Len(ls) /\ Len(ls) + 1 \in 1 .. Len(ls) + 1
        BY <1>0
      <3>8. \E k \in 1 .. Len(u) : Edits!Holds(u, k, m)
        BY <3>4, <3>5, <3>7
      <3>9. Edited(ls, u, m, Len(ls), 1)
        BY <3>2, <3>4, <3>5, <3>6, <3>7, <3>8 DEF Edited
      <3> QED BY <3>9
    <2> QED BY <2>1, <2>2
  <1>2. PICK p, d : Edited(ls, u, m, p, d)
    BY <1>1
  <1>3. u \in Seq(Edits!LineType) /\ \E k \in 1 .. Len(u) : Edits!Holds(u, k, m)
    BY <1>2 DEF Edited
  <1>4. \A k \in 1 .. Len(u) : Edits!Holds(u, k, m) => u[k] = Edits!Wanted(m)
    BY <1>2, EditedKeys
  <1>5. Edits!Rewritten(u, m) = u
    BY <1>3, <1>4, RewrittenIs
  <1>6. Edits!Holding(u, m) # {}
    BY <1>3 DEF Edits!Holding
  <1>7. Edits!UpsertPlain(u, m) = u
    BY <1>5, <1>6 DEF Edits!UpsertPlain
  <1> QED BY <1>1, <1>7

\* The first header of a section, and the last line of its block.
LEMMA BlockIs ==
  ASSUME NEW ls \in Seq(Edits!LineType), NEW i \in 1 .. Len(ls), NEW e, e = Edits!BlockEnd(ls, i)
  PROVE  /\ e \in i .. Len(ls) /\ \A j \in i + 1 .. e : ls[j].sort # "section"
         /\ \A k \in i .. Len(ls) : (\A j \in i + 1 .. k : ls[j].sort # "section") => k <= e
  <1> DEFINE next == {j \in i + 1 .. Len(ls) : ls[j].sort = "section"}
  <1>0. Len(ls) \in Nat
    OBVIOUS
  <1>1. e = IF next = {} THEN Len(ls) ELSE Edits!Min(next) - 1
    BY DEF Edits!BlockEnd
  <1>2. CASE next = {}
    <2>1. e = Len(ls)
      BY <1>1, <1>2
    <2> QED BY <1>0, <1>2, <2>1
  <1>3. CASE next # {}
    <2>1. PICK x : x = Edits!Min(next)
      OBVIOUS
    <2>2. x \in next /\ \A y \in next : x <= y
      <3>1. next \in SUBSET (1 .. Len(ls))
        BY <1>0
      <3> HIDE DEF next
      <3> QED BY <1>0, <1>3, <2>1, <3>1, EditsBounds
    <2>3. e = x - 1 /\ x \in i + 1 .. Len(ls) /\ ls[x].sort = "section"
      BY <1>1, <1>3, <2>1, <2>2
    <2>4. e \in i .. Len(ls) /\ \A j \in i + 1 .. e : ls[j].sort # "section"
      BY <1>0, <2>2, <2>3
    <2>5. ASSUME NEW k \in i .. Len(ls), \A j \in i + 1 .. k : ls[j].sort # "section" PROVE k <= e
      BY <1>0, <2>3, <2>5
    <2> QED BY <2>4, <2>5
  <1> QED BY <1>2, <1>3

\* Where the first block of a section holds its key and every such line says
\* what is wanted, an edit changes nothing.
LEMMA SettledIni ==
  ASSUME NEW u \in Seq(Edits!LineType), NEW m \in Keys,
         \A k \in 1 .. Len(u) : Edits!Holds(u, k, m) => u[k] = Edits!Wanted(m),
         NEW h \in 1 .. Len(u), u[h].sort = "section", u[h].name = m[1],
         \A j \in 1 .. Len(u) : u[j].sort = "section" /\ u[j].name = m[1] => h <= j,
         NEW e \in h .. Len(u), \A j \in h + 1 .. e : u[j].sort # "section", Edits!Holds(u, e, m)
  PROVE  Edits!UpsertIni(u, m) = u
  <1> DEFINE H == {i \in DOMAIN u : u[i].sort = "section" /\ u[i].name = m[1]}
  <1>0. Len(u) \in Nat /\ DOMAIN u = 1 .. Len(u) /\ h \in H /\ H \in SUBSET (1 .. Len(u))
    OBVIOUS
  <1>1. Edits!Min(H) = h
    <2>1. \A j \in H : h <= j
      BY <1>0
    <2>2. Edits!Min(H) \in H /\ \A j \in H : Edits!Min(H) <= j
      <3> HIDE DEF H
      <3> QED BY <1>0, EditsBounds
    <2>3. Edits!Min(H) \in 1 .. Len(u)
      BY <1>0, <2>2
    <2> HIDE DEF H
    <2> QED BY <1>0, <2>1, <2>2, <2>3
  <1>2. e \in h .. Edits!BlockEnd(u, h)
    <2>1. PICK b : b = Edits!BlockEnd(u, h)
      OBVIOUS
    <2>2. b \in h .. Len(u) /\ e <= b
      BY <1>0, <2>1, BlockIs
    <2> QED BY <1>0, <2>1, <2>2
  <1>3. Edits!Rewritten(u, m) = u
    BY RewrittenIs
  <1>4. \E i \in h .. Edits!BlockEnd(u, h) : Edits!Holds(u, i, m)
    BY <1>2
  <1> QED BY <1>0, <1>1, <1>3, <1>4 DEF Edits!UpsertIni

\* A missing section comes in at the end, and its key with it.
LEMMA SectionAppended ==
  ASSUME Edits!Sections, NEW ls \in Seq(Edits!LineType), NEW m \in Keys,
         \A i \in 1 .. Len(ls) : ~(ls[i].sort = "section" /\ ls[i].name = m[1]),
         NEW u, u = ls \o <<Edits!Header(m[1], TRUE), Edits!Wanted(m)>>
  PROVE  Edited(ls, u, m, Len(ls), 2) /\ Edits!UpsertIni(u, m) = u
  <1>0. PICK a \in Edits!LineType, b \in Edits!LineType : a = Edits!Header(m[1], TRUE) /\ b = Edits!Wanted(m)
    BY WantedIs
  <1>1. /\ u \in Seq(Edits!LineType) /\ Len(u) = Len(ls) + 2
        /\ \A i \in 1 .. Len(ls) : u[i] = ls[i]
        /\ u[Len(ls) + 1] = a /\ u[Len(ls) + 2] = b
    <2>1. u = ls \o <<a, b>>
      BY <1>0
    <2> QED BY ONLY <2>1, ls \in Seq(Edits!LineType), a \in Edits!LineType, b \in Edits!LineType
  <1>2. PICK n \in Nat : n = Len(ls)
    OBVIOUS
  <1>3. a.sort = "section" /\ a.name = m[1] /\ b.sort = "key" /\ b.name = m[2]
    BY <1>0, WantedIs
  <1>4. Edits!SectionAt(u, n + 2) = a
    <2>1. n + 1 \in 1 .. n + 2 /\ n + 2 \in 1 .. Len(u) /\ \A j \in n + 1 + 1 .. n + 2 : j = n + 2
      BY <1>1, <1>2
    <2>2. u[n + 1] = a /\ u[n + 2] = b
      BY <1>1, <1>2
    <2>3. u[n + 1].sort = "section" /\ \A j \in n + 1 + 1 .. n + 2 : u[j].sort # "section"
      BY <1>3, <2>1, <2>2
    <2> QED BY <1>1, <2>1, <2>2, <2>3, SectionIs
  <1>5. Edits!Holds(u, n + 2, m)
    BY <1>1, <1>2, <1>3, <1>4 DEF Edits!Holds
  <1>6. \A i \in 1 .. Len(ls) : ~Edits!Holds(ls, i, m)
    <2>1. TAKE i \in 1 .. Len(ls)
    <2>2. CASE Edits!SectionAt(ls, i) = Edits!Outside
      BY <2>2, WantedIs DEF Edits!Holds
    <2>3. ASSUME NEW h \in 1 .. i, ls[h].sort = "section", Edits!SectionAt(ls, i) = ls[h]
          PROVE  ~Edits!Holds(ls, i, m)
      <3>1. h \in 1 .. Len(ls)
        OBVIOUS
      <3> QED BY <2>3, <3>1 DEF Edits!Holds
    <2> QED BY <2>2, <2>3, SectionFound
  <1>7. Edited(ls, u, m, n, 2)
    <2>1. \A i \in 1 .. Len(ls) : Edits!Shift(i, n, 2) = i
      BY <1>2 DEF Edits!Shift
    <2>2. \A k \in n + 1 .. n + 2 : k = n + 1 \/ k = n + 2
      BY <1>2
    <2>3. \A k \in n + 1 .. n + 2 :
            \/ u[k] = Edits!Wanted(m) /\ Edits!Holds(u, k, m)
            \/ u[k] = Edits!Header(m[1], TRUE) /\ n = Len(ls)
      BY <1>0, <1>1, <1>2, <1>5, <2>2
    <2>4. n + 2 \in 1 .. Len(u) /\ n \in 0 .. Len(ls) /\ 2 \in Nat /\ Len(u) = Len(ls) + 2
      BY <1>1, <1>2
    <2>5. \A i \in 1 .. Len(ls) :
            u[Edits!Shift(i, n, 2)] = IF Edits!Holds(ls, i, m) THEN Edits!Wanted(m) ELSE ls[i]
      BY <1>1, <1>6, <2>1
    <2>6. \E k \in 1 .. Len(u) : Edits!Holds(u, k, m)
      BY <1>5, <2>4
    <2> QED BY <1>1, <2>3, <2>4, <2>5, <2>6 DEF Edited
  <1>8. Edits!UpsertIni(u, m) = u
    <2>0. PICK d : d = 2
      OBVIOUS
    <2>1. \A k \in 1 .. Len(u) : Edits!Holds(u, k, m) => u[k] = Edits!Wanted(m)
      <3>1. Edited(ls, u, m, n, d)
        BY <1>7, <2>0
      <3> QED BY ONLY <3>1, m \in Keys, ls \in Seq(Edits!LineType), EditedKeys
    <2>2. PICK h \in 1 .. Len(u) : h = n + 1
      BY <1>1, <1>2
    <2>3. PICK e \in h .. Len(u) : e = n + 2
      BY <1>1, <1>2, <2>2
    <2>4. \A j \in 1 .. Len(u) : u[j].sort = "section" /\ u[j].name = m[1] => h <= j
      <3>1. \A j \in 1 .. Len(u) : j < h => j \in 1 .. Len(ls) /\ u[j] = ls[j]
        BY <1>1, <1>2, <2>2
      <3> QED BY <1>1, <1>2, <2>2, <3>1
    <2>5. \A j \in h + 1 .. e : j = e
      BY <1>2, <2>2, <2>3
    <2>6. u[h] = a /\ u[e] = b
      BY <1>1, <1>2, <2>2, <2>3
    <2>7. Edits!Holds(u, e, m)
      BY <1>5, <2>3
    <2>8. \A j \in h + 1 .. e : u[j].sort # "section"
      BY <1>3, <2>5, <2>6
    <2>9. u \in Seq(Edits!LineType) /\ u[h].sort = "section" /\ u[h].name = m[1]
      BY <1>1, <1>3, <2>6
    <2> QED BY ONLY <2>1, <2>4, <2>7, <2>8, <2>9, m \in Keys, h \in 1 .. Len(u), e \in h .. Len(u), SettledIni
  <1> QED BY <1>2, <1>7, <1>8

LEMMA LinesJoined ==
  ASSUME NEW v \in Seq(Edits!LineType), NEW y \in Seq(Edits!LineType)
  PROVE  /\ v \o y \in Seq(Edits!LineType) /\ Len(v \o y) = Len(v) + Len(y)
         /\ \A i \in 1 .. Len(v) : (v \o y)[i] = v[i]
         /\ \A i \in 1 .. Len(y) : (v \o y)[Len(v) + i] = y[i]
  OBVIOUS

\* A missing key comes in after the last line of the first block.
LEMMA KeyInserted ==
  ASSUME Edits!Sections, NEW ls \in Seq(Edits!LineType), NEW m \in Keys,
         NEW h \in 1 .. Len(ls), ls[h].sort = "section", ls[h].name = m[1],
         \A j \in 1 .. Len(ls) : ls[j].sort = "section" /\ ls[j].name = m[1] => h <= j,
         NEW e \in h .. Len(ls), \A j \in h + 1 .. e : ls[j].sort # "section",
         NEW u, u = Edits!InsertAt(Edits!Rewritten(ls, m), e + 1, Edits!Wanted(m))
  PROVE  Edited(ls, u, m, e, 1) /\ Edits!UpsertIni(u, m) = u
  <1>0. PICK b \in Edits!LineType : b = Edits!Wanted(m)
    BY WantedIs
  <1>1. PICK r : r = Edits!Rewritten(ls, m)
    OBVIOUS
  <1>2. /\ r \in Seq(Edits!LineType) /\ Len(r) = Len(ls)
        /\ \A i \in 1 .. Len(ls) : r[i] = IF Edits!Holds(ls, i, m) THEN Edits!Wanted(m) ELSE ls[i]
    BY <1>1, RewrittenIs
  <1>3. e \in Nat /\ e <= Len(ls) /\ Len(ls) \in Nat /\ h <= e /\ h \in Nat
    OBVIOUS
  <1>4. /\ u \in Seq(Edits!LineType) /\ Len(u) = Len(ls) + 1
        /\ \A i \in 1 .. e : u[i] = r[i]
        /\ u[e + 1] = b
        /\ \A i \in e + 1 .. Len(ls) : u[i + 1] = r[i]
    <2>0. PICK t : t = e + 1
      OBVIOUS
    <2>1. u = SubSeq(r, 1, t - 1) \o <<b>> \o SubSeq(r, t, Len(r))
      <3>1. u = Edits!InsertAt(r, t, b)
        BY <1>0, <1>1, <2>0
      <3> QED BY ONLY <3>1, Zenon DEF Edits!InsertAt
    <2>2. t - 1 = e
      BY <1>3, <2>0
    <2>3. u = SubSeq(r, 1, e) \o <<b>> \o SubSeq(r, e + 1, Len(r))
      BY ONLY <2>0, <2>1, <2>2
    <2>4. PICK x, y : x = SubSeq(r, 1, e) /\ y = SubSeq(r, e + 1, Len(r))
      OBVIOUS
    <2>5. x \in Seq(Edits!LineType) /\ Len(x) = e /\ \A i \in 1 .. e : x[i] = r[i]
      BY <1>2, <1>3, <2>4
    <2>6. /\ y \in Seq(Edits!LineType) /\ Len(y) = Len(ls) - e
          /\ \A i \in 1 .. Len(ls) - e : y[i] = r[i + e]
      BY <1>2, <1>3, <2>4
    <2>7. u = x \o <<b>> \o y
      BY <2>3, <2>4
    <2>8. PICK v : v = x \o <<b>>
      OBVIOUS
    <2>9. v \in Seq(Edits!LineType) /\ Len(v) = e + 1 /\ v[e + 1] = b /\ \A i \in 1 .. e : v[i] = x[i]
      BY ONLY <1>3, <2>5, <2>8, b \in Edits!LineType
    <2>10. u = v \o y
      BY <2>7, <2>8
    <2>11. /\ u \in Seq(Edits!LineType) /\ Len(u) = e + 1 + (Len(ls) - e)
           /\ \A i \in 1 .. e + 1 : u[i] = v[i]
           /\ \A i \in 1 .. Len(ls) - e : u[e + 1 + i] = y[i]
      <3>1. /\ v \o y \in Seq(Edits!LineType) /\ Len(v \o y) = Len(v) + Len(y)
            /\ \A i \in 1 .. Len(v) : (v \o y)[i] = v[i]
            /\ \A i \in 1 .. Len(y) : (v \o y)[Len(v) + i] = y[i]
        <4>1. v \in Seq(Edits!LineType) /\ y \in Seq(Edits!LineType)
          BY <2>6, <2>9
        <4> QED BY ONLY <4>1, LinesJoined
      <3>2. Len(v) = e + 1 /\ Len(y) = Len(ls) - e
        BY <2>6, <2>9
      <3> QED BY ONLY <2>10, <3>1, <3>2
    <2>12. ASSUME NEW i \in e + 1 .. Len(ls) PROVE u[i + 1] = r[i]
      <3>1. i - e \in 1 .. Len(ls) - e /\ e + 1 + (i - e) = i + 1 /\ i - e + e = i
        BY <1>3
      <3>2. u[e + 1 + (i - e)] = y[i - e] /\ y[i - e] = r[i - e + e]
        BY <2>6, <2>11, <3>1
      <3> QED BY ONLY <3>1, <3>2
    <2> QED BY <1>3, <2>5, <2>9, <2>11, <2>12
  <1>5. /\ e \in 0 .. Len(ls) /\ 1 \in Nat
        /\ \A i \in 1 .. Len(ls) : u[Edits!Shift(i, e, 1)] = r[i]
        /\ \A i \in 1 .. e : Edits!Shift(i, e, 1) = i
    BY <1>3, <1>4 DEF Edits!Shift
  <1>6. b.sort = "key" /\ b.name = m[2]
    BY <1>0, WantedIs
  <1>7. \A i \in 1 .. Len(ls) : /\ r[i].sort = ls[i].sort
                                /\ ls[i].sort = "section" => r[i] = ls[i]
    BY <1>2, WantedIs DEF Edits!Holds
  <1>8. Edits!SectionAt(u, e + 1) = ls[h]
    <2>1. \A j \in h + 1 .. e : j \in 1 .. Len(ls) /\ u[j] = r[j] /\ u[j].sort # "section"
      BY <1>3, <1>4, <1>7
    <2>2. \A j \in h + 1 .. e + 1 : u[j].sort # "section"
      BY <1>3, <1>4, <1>6, <2>1
    <2>3. u[h] = ls[h] /\ h \in 1 .. e + 1 /\ e + 1 \in 1 .. Len(u)
      BY <1>3, <1>4, <1>7
    <2> QED BY <1>4, <2>2, <2>3, SectionIs
  <1>9. Edits!Holds(u, e + 1, m)
    BY <1>4, <1>6, <1>8 DEF Edits!Holds
  <1>10. Edited(ls, u, m, e, 1)
    <2>1. \A k \in e + 1 .. e + 1 : u[k] = Edits!Wanted(m) /\ Edits!Holds(u, k, m)
      BY <1>0, <1>3, <1>4, <1>9
    <2>2. e + 1 \in 1 .. Len(u)
      BY <1>3, <1>4
    <2>3. \A i \in 1 .. Len(ls) :
            u[Edits!Shift(i, e, 1)] = IF Edits!Holds(ls, i, m) THEN Edits!Wanted(m) ELSE ls[i]
      BY <1>2, <1>5
    <2>4. \E k \in 1 .. Len(u) : Edits!Holds(u, k, m)
      BY <1>9, <2>2
    <2> QED BY <1>4, <1>5, <2>1, <2>3, <2>4 DEF Edited
  <1>11. Edits!UpsertIni(u, m) = u
    <2>1. \A k \in 1 .. Len(u) : Edits!Holds(u, k, m) => u[k] = Edits!Wanted(m)
      BY <1>10, EditedKeys
    <2>2. h \in 1 .. Len(u) /\ u[h] = ls[h]
      BY <1>3, <1>4, <1>7
    <2>3. PICK f \in h .. Len(u) : f = e + 1
      BY <1>3, <1>4
    <2>4. \A j \in 1 .. Len(u) : u[j].sort = "section" /\ u[j].name = m[1] => h <= j
      <3>1. \A j \in 1 .. Len(u) : j < h => j \in 1 .. Len(ls) /\ u[j] = r[j]
        BY <1>3, <1>4
      <3>2. \A j \in 1 .. Len(u) : j < h /\ u[j].sort = "section" => u[j] = ls[j]
        BY <1>7, <3>1
      <3> QED BY <1>3, <1>4, <3>1, <3>2
    <2>5. \A j \in h + 1 .. f : u[j].sort # "section"
      <3>1. \A j \in h + 1 .. f : j = e + 1 \/ (j \in h + 1 .. e /\ j \in 1 .. Len(ls) /\ u[j] = r[j])
        BY <1>3, <1>4, <2>3
      <3>2. \A j \in h + 1 .. e : j \in 1 .. Len(ls)
        BY <1>3
      <3>3. ASSUME NEW j \in h + 1 .. f PROVE u[j].sort # "section"
        <4>1. CASE j = e + 1
          BY <1>4, <1>6, <4>1
        <4>2. CASE j \in h + 1 .. e /\ u[j] = r[j]
          BY <1>7, <3>2, <4>2
        <4> QED BY <3>1, <4>1, <4>2
      <3> QED BY <3>3
    <2>6. Edits!Holds(u, f, m)
      BY <1>9, <2>3
    <2>7. u \in Seq(Edits!LineType) /\ h \in 1 .. Len(u) /\ u[h].sort = "section" /\ u[h].name = m[1]
      BY <1>4, <2>2
    <2> QED BY ONLY <2>1, <2>4, <2>5, <2>6, <2>7, m \in Keys, f \in h .. Len(u), SettledIni
  <1> QED BY <1>10, <1>11

LEMMA IniEdits ==
  ASSUME Edits!Sections, NEW ls \in Seq(Edits!LineType), NEW m \in Keys,
         NEW u, u = Edits!UpsertIni(ls, m)
  PROVE  (\E p, d : d \in 0 .. 2 /\ Edited(ls, u, m, p, d)) /\ Edits!UpsertIni(u, m) = u
  <1> DEFINE H == {i \in DOMAIN ls : ls[i].sort = "section" /\ ls[i].name = m[1]}
             first == Edits!Min(H)
             end == Edits!BlockEnd(ls, first)
  <1>0. DOMAIN ls = 1 .. Len(ls) /\ Len(ls) \in Nat
    OBVIOUS
  <1>1. u = IF H = {} THEN ls \o <<Edits!Header(m[1], TRUE), Edits!Wanted(m)>>
            ELSE IF \E i \in first .. end : Edits!Holds(ls, i, m) THEN Edits!Rewritten(ls, m)
            ELSE Edits!InsertAt(Edits!Rewritten(ls, m), end + 1, Edits!Wanted(m))
    BY DEF Edits!UpsertIni
  <1>2. CASE H = {}
    <2>1. \A i \in 1 .. Len(ls) : ~(ls[i].sort = "section" /\ ls[i].name = m[1])
      BY <1>0, <1>2
    <2>2. Edited(ls, u, m, Len(ls), 2) /\ Edits!UpsertIni(u, m) = u
      BY <1>1, <1>2, <2>1, SectionAppended
    <2> QED BY <2>2
  <1>3. CASE H # {}
    <2>1. PICK h : h = first
      OBVIOUS
    <2>2. h \in H /\ \A j \in H : h <= j
      <3>1. H \in SUBSET (1 .. Len(ls))
        BY <1>0
      <3> HIDE DEF H
      <3> QED BY <1>0, <1>3, <2>1, <3>1, EditsBounds
    <2>3. /\ h \in 1 .. Len(ls) /\ ls[h].sort = "section" /\ ls[h].name = m[1]
          /\ \A j \in 1 .. Len(ls) : ls[j].sort = "section" /\ ls[j].name = m[1] => h <= j
      BY <1>0, <2>2
    <2>4. PICK e : e = end
      OBVIOUS
    <2>5. e \in h .. Len(ls) /\ \A j \in h + 1 .. e : ls[j].sort # "section"
      BY <2>1, <2>3, <2>4, BlockIs
    <2>6. CASE \E i \in h .. e : Edits!Holds(ls, i, m)
      <3>1. u = Edits!Rewritten(ls, m)
        BY <1>1, <1>3, <2>1, <2>4, <2>6
      <3>2. PICK i \in h .. e : Edits!Holds(ls, i, m)
        BY <2>6
      <3>3. i \in 1 .. Len(ls)
        BY <1>0, <2>3, <2>5
      <3>4. Edited(ls, u, m, Len(ls), 0)
        BY <3>1, <3>2, <3>3, RewrittenIsEdited
      <3>5. \A k \in 1 .. Len(u) : Edits!Holds(u, k, m) => u[k] = Edits!Wanted(m)
        BY <3>4, EditedKeys
      <3>6. /\ u \in Seq(Edits!LineType) /\ Len(u) = Len(ls)
            /\ \A j \in 1 .. Len(ls) : u[j] = IF Edits!Holds(ls, j, m) THEN Edits!Wanted(m) ELSE ls[j]
        BY <3>1, RewrittenIs
      <3>7. \A j \in 1 .. Len(ls) : /\ u[j].sort = ls[j].sort
                                    /\ ls[j].sort = "section" => u[j] = ls[j]
        BY <3>6, WantedIs DEF Edits!Holds
      <3>8. Edits!Holds(u, i, m)
        <4>0. PICK d, p : d = 0 /\ p = Len(ls)
          OBVIOUS
        <4>1. \A j \in 1 .. Len(ls) : Edits!Shift(j, p, d) = j
          BY <4>0 DEF Edits!Shift
        <4>2. Edited(ls, u, m, p, d)
          BY <3>4, <4>0
        <4>3. Edits!Holds(u, Edits!Shift(i, p, d), m)
          BY <3>2, <3>3, <4>2, EditedKeys
        <4> QED BY <3>3, <4>1, <4>3
      <3>9. h \in 1 .. Len(u) /\ i \in h .. Len(u) /\ u[h].sort = "section" /\ u[h].name = m[1]
        BY <1>0, <2>3, <2>5, <3>6, <3>7
      <3>10. \A j \in 1 .. Len(u) : u[j].sort = "section" /\ u[j].name = m[1] => h <= j
        BY <2>3, <3>6, <3>7
      <3>11. \A j \in h + 1 .. i : u[j].sort # "section"
        <4>1. \A j \in h + 1 .. i : j \in h + 1 .. e /\ j \in 1 .. Len(ls)
          BY <1>0, <2>3, <2>5
        <4> QED BY <2>5, <3>7, <4>1
      <3>12. Edits!UpsertIni(u, m) = u
        BY <3>5, <3>6, <3>8, <3>9, <3>10, <3>11, SettledIni
      <3> QED BY <3>4, <3>12
    <2>7. CASE ~\E i \in h .. e : Edits!Holds(ls, i, m)
      <3>1. u = Edits!InsertAt(Edits!Rewritten(ls, m), e + 1, Edits!Wanted(m))
        BY <1>1, <1>3, <2>1, <2>4, <2>7
      <3>2. Edited(ls, u, m, e, 1) /\ Edits!UpsertIni(u, m) = u
        BY <2>3, <2>5, <3>1, KeyInserted
      <3> QED BY <3>2
    <2> QED BY <2>6, <2>7
  <1> QED BY <1>2, <1>3

\* What every edit comes to, and that the same edit again changes nothing.
LEMMA UpsertIs ==
  ASSUME NEW ls \in Seq(Edits!LineType), NEW m \in Keys, NEW u, u = Edits!Upsert(ls, m)
  PROVE  (\E p, d : d \in 0 .. 2 /\ Edited(ls, u, m, p, d)) /\ Edits!Upsert(u, m) = u
  <1>1. CASE Edits!Sections
    <2>1. u = Edits!UpsertIni(ls, m)
      BY <1>1 DEF Edits!Upsert
    <2>2. (\E p, d : d \in 0 .. 2 /\ Edited(ls, u, m, p, d)) /\ Edits!UpsertIni(u, m) = u
      BY <1>1, <2>1, IniEdits
    <2> QED BY <1>1, <2>2 DEF Edits!Upsert
  <1>2. CASE ~Edits!Sections
    <2>1. u = Edits!UpsertPlain(ls, m)
      BY <1>2 DEF Edits!Upsert
    <2>2. (\E p, d : d \in 0 .. 2 /\ Edited(ls, u, m, p, d)) /\ Edits!UpsertPlain(u, m) = u
      BY <1>2, <2>1, PlainEdits
    <2> QED BY <1>2, <2>2 DEF Edits!Upsert
  <1> QED BY <1>1, <1>2

\* A part that has nothing to do found a line with what it wants.
LEMMA UnneededIs ==
  ASSUME NEW ls \in Seq(Edits!LineType), NEW w, Edits!Unneeded(w, ls)
  PROVE  \E i \in 1 .. Len(ls) : Edits!Holds(ls, i, Edits!Managed(w)) /\ ls[i].value = "want"
  <1> DEFINE m == Edits!Managed(w)
  <1>0. DOMAIN ls = 1 .. Len(ls) /\ Len(ls) \in Nat
    OBVIOUS
  <1>1. ASSUME Edits!First(ls, m) = "want" PROVE \E i \in 1 .. Len(ls) : Edits!Holds(ls, i, m) /\ ls[i].value = "want"
    <2> DEFINE H == Edits!Holding(ls, m)
    <2>1. H # {} /\ ls[Edits!Min(H)].value = "want"
      BY <1>1 DEF Edits!First
    <2>2. H \in SUBSET (1 .. Len(ls)) /\ \A i \in H : Edits!Holds(ls, i, m)
      BY <1>0 DEF Edits!Holding
    <2>3. Edits!Min(H) \in H
      <3> HIDE DEF H
      <3> QED BY <1>0, <2>1, <2>2, EditsBounds
    <2> HIDE DEF H
    <2> QED BY <2>1, <2>2, <2>3
  <1>2. ASSUME Edits!Parsed(ls, m) = "want" PROVE \E i \in 1 .. Len(ls) : Edits!Holds(ls, i, m) /\ ls[i].value = "want"
    <2> DEFINE E == {i \in Edits!Holding(ls, m) : ls[i].exact /\ Edits!SectionAt(ls, i).exact}
    <2>1. E # {} /\ ls[Edits!Max(E)].value = "want"
      BY <1>2 DEF Edits!Parsed
    <2>2. E \in SUBSET (1 .. Len(ls)) /\ \A i \in E : Edits!Holds(ls, i, m)
      BY <1>0 DEF Edits!Holding
    <2>3. Edits!Max(E) \in E
      <3> HIDE DEF E
      <3> QED BY <1>0, <2>1, <2>2, EditsBounds
    <2> HIDE DEF E
    <2> QED BY <2>1, <2>2, <2>3
  <1>3. Edits!First(ls, m) = "want" \/ Edits!Parsed(ls, m) = "want"
    BY DEF Edits!Unneeded, Edits!Drift, Edits!IniDrift, Edits!QSettingsDrift
  <1> HIDE DEF m
  <1>4. \E i \in 1 .. Len(ls) : Edits!Holds(ls, i, m) /\ ls[i].value = "want"
    BY <1>1, <1>2, <1>3
  <1> QED BY <1>4 DEF m

-----------------------------------------------------------------------------
\* The files there are: a header has no value.
EmulatorFiles ==
  /\ Emulators # {} /\ Emulators \subseteq {"pcsx2", "dolphin", "azahar", "retroarch"}
  /\ MaxLines \in Nat /\ MaxEdits \in Nat
EditsInv ==
  /\ Edits!TypeOK /\ emu \in {"pcsx2", "dolphin", "azahar", "retroarch"}
  /\ \A i \in DOMAIN lines : lines[i].sort = "section" => lines[i].value = ""

LEMMA EditsInit == EmulatorFiles /\ Edits!Init => EditsInv
  <1> SUFFICES ASSUME EmulatorFiles, Edits!Init PROVE EditsInv
    OBVIOUS
  <1>1. emu \in {"pcsx2", "dolphin", "azahar", "retroarch"} /\ edits = 0 /\ 0 \in 0 .. MaxEdits
    BY DEF EmulatorFiles, Edits!Init
  <1>2. \A l \in Edits!UserLines : l \in Edits!LineType /\ (l.sort = "section" => l.value = "")
    <2> SUFFICES ASSUME NEW l \in Edits!UserLines
                 PROVE  l \in Edits!LineType /\ (l.sort = "section" => l.value = "")
      OBVIOUS
    <2>1. \/ \E k \in {"a", "b"} : l = Edits!Setting(k, TRUE, "user")
          \/ \E e \in BOOLEAN : l = Edits!Setting("b", e, "want")
          \/ \E e \in BOOLEAN, k \in {"S", "T"} : l = Edits!Header(k, e)
      BY DEF Edits!UserLines
    <2>2. CASE \E k \in {"a", "b"} : l = Edits!Setting(k, TRUE, "user")
      BY <2>2 DEF Edits!LineType, Edits!Setting, Edits!Line
    <2>3. CASE \E e \in BOOLEAN : l = Edits!Setting("b", e, "want")
      BY <2>3 DEF Edits!LineType, Edits!Setting, Edits!Line
    <2>4. CASE \E e \in BOOLEAN, k \in {"S", "T"} : l = Edits!Header(k, e)
      <3>1. PICK e \in BOOLEAN, k \in {"S", "T"} : l = [sort |-> "section", name |-> k, exact |-> e, value |-> ""]
        BY <2>4 DEF Edits!Header, Edits!Line
      <3>2. l.sort \in {"section", "key"} /\ l.value = ""
        BY <3>1
      <3> QED BY <3>1, <3>2 DEF Edits!LineType
    <2> QED BY <2>1, <2>2, <2>3, <2>4
  <1>3. PICK n \in 0 .. MaxLines : lines \in [1 .. n -> Edits!UserLines]
    BY DEF EmulatorFiles, Edits!Init, Edits!SeqOf
  <1>4. n \in Nat /\ DOMAIN lines = 1 .. n /\ \A i \in 1 .. n : lines[i] \in Edits!UserLines
    BY <1>3 DEF EmulatorFiles
  <1>5. lines \in Seq(Edits!LineType)
    <2>1. PICK L : L = Edits!LineType
      OBVIOUS
    <2>2. \A i \in 1 .. n : lines[i] \in L
      BY <1>2, <1>4, <2>1
    <2>3. lines \in [1 .. n -> L]
      BY ONLY <1>3, <1>4, <2>2
    <2>4. lines \in Seq(L)
      BY ONLY <1>4, <2>3
    <2> QED BY <2>1, <2>4
  <1>6. \A i \in DOMAIN lines : lines[i].sort = "section" => lines[i].value = ""
    BY <1>2, <1>4
  <1> QED BY <1>1, <1>5, <1>6 DEF EditsInv, Edits!TypeOK, Edits!Init

LEMMA LinesAreASequence ==
  ASSUME EditsInv
  PROVE  lines \in Seq(Edits!LineType) /\ Len(lines) \in Nat /\ DOMAIN lines = 1 .. Len(lines)
  <1>1. lines \in Seq(Edits!LineType)
    BY DEF EditsInv, Edits!TypeOK
  <1>2. ASSUME NEW L, lines \in Seq(L) PROVE Len(lines) \in Nat /\ DOMAIN lines = 1 .. Len(lines)
    BY ONLY <1>2
  <1> QED BY <1>1, <1>2

\* Where the user sets a line, it stays a line.
LEMMA UserSetsLines ==
  ASSUME EmulatorFiles, EditsInv, Edits!UserSets
  PROVE  EditsInv'
  <1>1. lines \in Seq(Edits!LineType) /\ Len(lines) \in Nat /\ DOMAIN lines = 1 .. Len(lines)
    BY LinesAreASequence
  <1>2. PICK i \in 1 .. Len(lines) : lines[i].sort = "key" /\ lines' = [lines EXCEPT ![i].value = "user"]
    BY <1>1 DEF Edits!UserSets
  <1>3. [lines[i] EXCEPT !.value = "user"] \in Edits!LineType /\ [lines[i] EXCEPT !.value = "user"].sort = "key"
    <2>1. lines[i] \in Edits!LineType
      BY <1>1
    <2> QED BY <1>2, <2>1 DEF Edits!LineType
  <1>4. /\ lines' \in Seq(Edits!LineType) /\ DOMAIN lines' = 1 .. Len(lines)
        /\ \A j \in 1 .. Len(lines) : j # i => lines'[j] = lines[j]
        /\ lines'[i].sort = "key"
    <2>1. PICK l \in Edits!LineType : l = [lines[i] EXCEPT !.value = "user"]
      BY <1>3
    <2>2. lines' = [lines EXCEPT ![i] = l]
      BY <1>2, <2>1
    <2>3. l.sort = "key"
      BY <1>3, <2>1
    <2> QED BY ONLY <1>1, <2>2, <2>3, l \in Edits!LineType, i \in 1 .. Len(lines)
  <1>5. \A j \in DOMAIN lines' : lines'[j].sort = "section" => lines'[j].value = ""
    BY <1>1, <1>2, <1>4 DEF EditsInv
  <1>6. edits' \in 0 .. MaxEdits /\ emu' = emu /\ there' = there /\ kept' = kept /\ (lines # <<>> => there)
    <2>1. edits' = edits + 1 /\ edits < MaxEdits /\ emu' = emu /\ there' = there /\ kept' = kept
      BY DEF Edits!UserSets
    <2>2. edits \in 0 .. MaxEdits /\ MaxEdits \in Nat /\ (lines # <<>> => there)
      BY DEF EditsInv, Edits!TypeOK, EmulatorFiles
    <2>3. edits' \in 0 .. MaxEdits
      BY ONLY <2>1, <2>2
    <2> QED BY <2>1, <2>2, <2>3
  <1>7. there
    <2>1. lines # <<>>
      BY <1>1, <1>2
    <2> QED BY <1>6, <2>1
  <1>8. kept \in Seq(Edits!LineType) \cup {Edits!NoBackup}
    BY DEF EditsInv, Edits!TypeOK
  <1>9. Edits!TypeOK'
    BY <1>4, <1>6, <1>7, <1>8 DEF Edits!TypeOK, Edits!NoBackup, Edits!Line
  <1> QED BY <1>5, <1>6, <1>9 DEF EditsInv

LEMMA AppliedLines ==
  ASSUME EditsInv, NEW w, Edits!Apply(w)
  PROVE  EditsInv'
  <1>1. lines \in Seq(Edits!LineType) /\ Len(lines) \in Nat /\ DOMAIN lines = 1 .. Len(lines)
    BY LinesAreASequence
  <1>2. w \in Edits!Writers /\ lines' = Edits!Result(w, lines) /\ there' = TRUE /\ emu' = emu /\ edits' = edits
    BY DEF Edits!Apply
  <1>3. Edits!Managed(w) \in Keys
    BY <1>2, ManagedIs DEF EditsInv
  <1>4. /\ lines' \in Seq(Edits!LineType)
        /\ \A i \in DOMAIN lines' : lines'[i].sort = "section" => lines'[i].value = ""
    <2>1. CASE Edits!Unneeded(w, lines)
      BY <1>1, <1>2, <2>1 DEF EditsInv, Edits!Result
    <2>2. CASE ~Edits!Unneeded(w, lines)
      <3>0. PICK m \in Keys : m = Edits!Managed(w)
        BY <1>3
      <3>1. PICK u : u = Edits!Upsert(lines, m)
        OBVIOUS
      <3>2. lines' = u
        BY <1>2, <2>2, <3>0, <3>1 DEF Edits!Result
      <3>3. PICK p, d : Edited(lines, u, m, p, d)
        BY <1>1, <3>1, UpsertIs
      <3>4. u \in Seq(Edits!LineType) /\ DOMAIN u = 1 .. Len(u)
        BY <3>3 DEF Edited
      <3>5. ASSUME NEW k \in 1 .. Len(u), u[k].sort = "section" PROVE u[k].value = ""
        <4>1. CASE \E i \in 1 .. Len(lines) : k = Edits!Shift(i, p, d)
          <5>1. PICK i \in 1 .. Len(lines) : k = Edits!Shift(i, p, d)
            BY <4>1
          <5>2. u[k] = lines[i]
            BY <3>3, <3>5, <5>1, WantedIs DEF Edited
          <5> QED BY <1>1, <3>5, <5>2 DEF EditsInv
        <4>2. CASE k \in p + 1 .. p + d
          <5>1. u[k] = Edits!Header(m[1], TRUE)
            BY <3>3, <3>5, <4>2, WantedIs DEF Edited
          <5> QED BY <5>1, WantedIs
        <4> QED BY <1>1, <3>3, <4>1, <4>2, EditedKeys
      <3> QED BY <3>2, <3>4, <3>5
    <2> QED BY <2>1, <2>2
  <1>5. kept' \in Seq(Edits!LineType) \cup {Edits!NoBackup}
    <2>1. kept' = lines \/ kept' = kept
      BY DEF Edits!Apply
    <2> QED BY <1>1, <2>1 DEF EditsInv, Edits!TypeOK
  <1>6. edits \in 0 .. MaxEdits
    BY DEF EditsInv, Edits!TypeOK
  <1>7. Edits!TypeOK'
    BY <1>2, <1>4, <1>5, <1>6 DEF Edits!TypeOK, Edits!NoBackup, Edits!Line
  <1> QED BY <1>2, <1>4, <1>7 DEF EditsInv

\* The settings of the others are where they were, but for lines that came in.
LEMMA OthersStay ==
  ASSUME NEW ls \in Seq(Edits!LineType), NEW w, Edits!Managed(w) \in Keys,
         NEW u, NEW p, NEW d \in 0 .. 2, Edited(ls, u, Edits!Managed(w), p, d)
  PROVE  Edits!OthersAreKept(w, ls, u)
  <1>1. PICK m \in Keys : m = Edits!Managed(w)
    OBVIOUS
  <1>2. Edited(ls, u, m, p, d)
    BY <1>1
  <1>3. p \in 0 .. Len(ls) /\ DOMAIN ls = 1 .. Len(ls) /\ u \in Seq(Edits!LineType) /\ DOMAIN u = 1 .. Len(u)
    BY <1>2 DEF Edited
  <1>4. /\ \A i \in 1 .. Len(ls) :
             /\ Edits!Shift(i, p, d) \in 1 .. Len(u)
             /\ Edits!SectionAt(u, Edits!Shift(i, p, d)) = Edits!SectionAt(ls, i)
             /\ Edits!Holds(u, Edits!Shift(i, p, d), m) <=> Edits!Holds(ls, i, m)
        /\ \A k \in 1 .. Len(u) : Edits!Holds(u, k, m) => u[k] = Edits!Wanted(m)
        /\ \A k \in 1 .. Len(u) :
             (\E i \in 1 .. Len(ls) : k = Edits!Shift(i, p, d)) \/ k \in p + 1 .. p + d
    BY <1>2, EditedKeys
  <1>5. \A i \in 1 .. Len(ls) : ~Edits!Holds(ls, i, m) => u[Edits!Shift(i, p, d)] = ls[i]
    BY <1>2 DEF Edited
  <1>6. \A v \in {ls, u} : \A i : i \in Edits!Others(w, v) <=>
          i \in DOMAIN v /\ v[i].sort = "key" /\ ~Edits!Holds(v, i, m)
    BY <1>1 DEF Edits!Others, Edits!Holding
  <1>7. \A k \in p + 1 .. p + d : k \notin Edits!Others(w, u)
    <2>1. \A k \in p + 1 .. p + d : Edits!Holds(u, k, m) \/ u[k] = Edits!Header(m[1], TRUE)
      BY <1>2 DEF Edited
    <2> QED BY <1>6, <2>1, WantedIs
  <1>8. \A i \in 1 .. Len(ls) : Edits!Holds(ls, i, m) => ls[i].sort = "key"
    BY DEF Edits!Holds
  <1>9. \A i \in Edits!Others(w, ls) : Edits!Shift(i, p, d) \in Edits!Others(w, u)
    BY <1>3, <1>4, <1>5, <1>6
  <1>10. \A k \in Edits!Others(w, u) : \E i \in Edits!Others(w, ls) : k = Edits!Shift(i, p, d)
    <2>1. TAKE k \in Edits!Others(w, u)
    <2>2. k \in 1 .. Len(u) /\ u[k].sort = "key" /\ ~Edits!Holds(u, k, m)
      BY <1>3, <1>6
    <2>3. PICK i \in 1 .. Len(ls) : k = Edits!Shift(i, p, d)
      BY <1>4, <1>7, <2>2
    <2>4. i \in Edits!Others(w, ls)
      BY <1>3, <1>4, <1>5, <1>6, <2>2, <2>3
    <2> QED BY <2>3, <2>4
  <1>11. Edits!Others(w, u) = {Edits!Shift(i, p, d) : i \in Edits!Others(w, ls)}
    BY <1>9, <1>10
  <1>12. \A i \in Edits!Others(w, ls) :
           /\ u[Edits!Shift(i, p, d)] = ls[i]
           /\ Edits!SectionAt(u, Edits!Shift(i, p, d)) = Edits!SectionAt(ls, i)
    BY <1>3, <1>4, <1>5, <1>6
  <1> QED BY <1>3, <1>11, <1>12 DEF Edits!OthersAreKept

\* After an edit the assisted keys are not seen to drift, unless their section
\* was there in another spelling.
LEMMA NoDrift ==
  ASSUME NEW ls \in Seq(Edits!LineType), \A i \in DOMAIN ls : ls[i].sort = "section" => ls[i].value = "",
         Edits!Sections => \A i \in DOMAIN ls : ls[i] # Edits!Header("S", FALSE),
         NEW m \in Keys, m = Edits!Managed("assisted"),
         NEW u, NEW p, NEW d, Edited(ls, u, m, p, d)
  PROVE  ~Edits!Drift(u)
  <1>1. /\ \A k \in 1 .. Len(u) : Edits!Holds(u, k, m) => u[k] = Edits!Wanted(m)
        /\ \A k \in 1 .. Len(u) :
             (\E i \in 1 .. Len(ls) : k = Edits!Shift(i, p, d)) \/ k \in p + 1 .. p + d
    BY EditedKeys
  <1>2. u \in Seq(Edits!LineType) /\ DOMAIN u = 1 .. Len(u) /\ Len(u) \in Nat
    <2>1. u \in Seq(Edits!LineType)
      BY DEF Edited
    <2>2. ASSUME NEW L, u \in Seq(L) PROVE DOMAIN u = 1 .. Len(u) /\ Len(u) \in Nat
      BY ONLY <2>2
    <2> QED BY <2>1, <2>2
  <1>3. PICK k \in 1 .. Len(u) : Edits!Holds(u, k, m)
    BY DEF Edited
  <1>4. CASE ~Edits!Sections
    <2>1. PICK H : H = Edits!Holding(u, m)
      OBVIOUS
    <2>2. k \in H /\ H \in SUBSET (1 .. Len(u)) /\ \A i \in H : Edits!Holds(u, i, m)
      BY <1>2, <1>3, <2>1 DEF Edits!Holding
    <2>3. Edits!Min(H) \in H
      BY <1>2, <2>2, EditsBounds
    <2>4. u[Edits!Min(H)] = Edits!Wanted(m)
      BY <1>1, <2>2, <2>3
    <2>5. Edits!First(u, m) = "want"
      BY <2>1, <2>2, <2>4, WantedIs DEF Edits!First
    <2> QED BY <1>4, <2>5 DEF Edits!Drift, Edits!QSettingsDrift
  <1>5. CASE Edits!Sections
    <2>1. m[1] = "S"
      BY DEF Edits!Managed
    <2>2. ASSUME NEW i \in 1 .. Len(u), Edits!Holds(u, i, m) PROVE Edits!SectionAt(u, i).exact = TRUE
      <3>1. Edits!SectionAt(u, i).name = "S"
        BY <1>5, <2>1, <2>2 DEF Edits!Holds
      <3>2. PICK h \in 1 .. i : u[h].sort = "section" /\ Edits!SectionAt(u, i) = u[h]
        BY <1>2, <3>1, SectionFound, WantedIs
      <3>3. h \in 1 .. Len(u)
        BY ONLY <1>2, h \in 1 .. i, i \in 1 .. Len(u)
      <3>4. CASE \E j \in 1 .. Len(ls) : h = Edits!Shift(j, p, d)
        <4>1. PICK j \in 1 .. Len(ls) : h = Edits!Shift(j, p, d)
          BY <3>4
        <4>2. u[h] = ls[j] /\ ls[j] \in Edits!LineType /\ j \in DOMAIN ls
          <5>1. u[h] = IF Edits!Holds(ls, j, m) THEN Edits!Wanted(m) ELSE ls[j]
            BY <4>1 DEF Edited
          <5>2. u[h] = ls[j]
            BY <3>2, <5>1, WantedIs
          <5>3. \A L : ls \in Seq(L) => ls[j] \in L /\ j \in DOMAIN ls
            BY ONLY j \in 1 .. Len(ls)
          <5> QED BY <5>2, <5>3
        <4>3. ls[j].name = "S" /\ ls[j].sort = "section" /\ ls[j].value = ""
          BY <3>1, <3>2, <4>2
        <4>4. ls[j].exact \in BOOLEAN
          BY <4>2 DEF Edits!LineType
        <4>5. ls[j].exact # FALSE
          <5>1. ls[j].exact = FALSE => ls[j] = Edits!Header("S", FALSE)
            BY <4>2, <4>3 DEF Edits!LineType, Edits!Header, Edits!Line
          <5> QED BY <1>5, <4>2, <5>1
        <4> QED BY <3>2, <4>2, <4>4, <4>5
      <3>5. CASE h \in p + 1 .. p + d
        <4>1. u[h] = Edits!Header(m[1], TRUE)
          BY <3>2, <3>5, WantedIs DEF Edited
        <4> QED BY <3>2, <4>1, WantedIs
      <3> QED BY <1>1, <3>3, <3>4, <3>5
    <2>3. PICK E : E = {i \in Edits!Holding(u, m) : u[i].exact /\ Edits!SectionAt(u, i).exact}
      OBVIOUS
    <2>4. k \in E
      BY <1>1, <1>2, <1>3, <2>2, <2>3, WantedIs DEF Edits!Holding
    <2>5. E \in SUBSET (1 .. Len(u)) /\ \A i \in E : Edits!Holds(u, i, m)
      BY <1>2, <2>3 DEF Edits!Holding
    <2>6. Edits!Max(E) \in E
      BY <1>2, <2>4, <2>5, EditsBounds
    <2>7. u[Edits!Max(E)] = Edits!Wanted(m)
      BY <1>1, <2>5, <2>6
    <2>8. Edits!Parsed(u, m) = "want"
      BY <2>3, <2>4, <2>7, WantedIs DEF Edits!Parsed
    <2> QED BY <1>5, <2>8 DEF Edits!Drift, Edits!IniDrift
  <1> QED BY <1>4, <1>5

LEMMA EditSettles ==
  ASSUME EditsInv
  PROVE  Edits!EditsSettle
  <1> SUFFICES ASSUME NEW w \in Edits!Writers, NEW new, new = Edits!Result(w, lines)
               PROVE  /\ \/ Edits!Of(w, new) # {} /\ \A i \in Edits!Of(w, new) : new[i].value = "want"
                         \/ Edits!Unneeded(w, lines) /\ \E i, j \in Edits!Holding(lines, Edits!Managed(w)) : i # j
                         \/ emu = "azahar" /\ Edits!Of(w, lines) = {} /\ Edits!Strays(w, new) # {}
                      /\ Edits!OthersAreKept(w, lines, new)
                      /\ Edits!Result(w, new) = new
                      /\ Edits!Apply(w) /\ there /\ new # lines =>
                           kept' = lines \/ (emu = "dolphin" /\ w = "runtime")
                      /\ w = "assisted" =>
                           \/ ~Edits!Drift(new)
                           \/ Edits!Sections /\ \E i \in DOMAIN lines : lines[i] = Edits!Header("S", FALSE)
    BY DEF Edits!EditsSettle
  <1>0. PICK ls, u : ls = lines /\ u = new
    OBVIOUS
  <1>1. /\ ls \in Seq(Edits!LineType) /\ DOMAIN ls = 1 .. Len(ls)
        /\ \A i \in DOMAIN ls : ls[i].sort = "section" => ls[i].value = ""
    BY <1>0, LinesAreASequence DEF EditsInv
  <1>2. PICK m \in Keys : m = Edits!Managed(w)
    BY ManagedIs DEF EditsInv
  <1>3. u = Edits!Result(w, ls)
    BY <1>0
  <1>4. Edits!Apply(w) /\ there /\ u # ls => kept' = ls \/ (emu = "dolphin" /\ w = "runtime")
    BY <1>0 DEF Edits!Apply, Edits!BacksUp
  <1>5. \A v : /\ \A i : i \in Edits!Holding(v, m) <=> i \in DOMAIN v /\ Edits!Holds(v, i, m)
               /\ Edits!Of(w, v) \subseteq Edits!Holding(v, m)
               /\ Edits!Strays(w, v) = Edits!Holding(v, m) \ Edits!Of(w, v)
    BY <1>2 DEF Edits!Of, Edits!Holding, Edits!Strays
  <1>5a. ASSUME NEW v, Edits!Strays(w, v) # {} PROVE emu = "azahar"
    <2>1. PICK i : i \in DOMAIN v /\ Edits!Holds(v, i, m) /\ Edits!Sectioned /\ Edits!SectionAt(v, i).name # m[1]
      BY <1>2, <1>5, <1>5a DEF Edits!Of
    <2> QED BY <2>1 DEF Edits!Holds, Edits!Sections, Edits!Sectioned, EditsInv
  <1>6. CASE Edits!Unneeded(w, ls)
    <2>1. u = ls
      BY <1>3, <1>6 DEF Edits!Result
    <2>2. PICK x \in 1 .. Len(ls) : Edits!Holds(ls, x, m) /\ ls[x].value = "want"
      BY <1>1, <1>2, <1>6, UnneededIs
    <2>3. x \in Edits!Holding(ls, m)
      BY <1>1, <1>5, <2>2
    <2>4. \/ Edits!Of(w, u) # {} /\ \A i \in Edits!Of(w, u) : u[i].value = "want"
          \/ \E i, j \in Edits!Holding(ls, m) : i # j
          \/ Edits!Of(w, ls) = {} /\ Edits!Strays(w, u) # {}
      <3>1. CASE Edits!Of(w, ls) = {}
        BY <1>5, <2>1, <2>3, <3>1
      <3>2. CASE Edits!Of(w, ls) # {}
        BY <1>5, <2>1, <2>2, <2>3, <3>2
      <3> QED BY <3>1, <3>2
    <2>5. Edits!OthersAreKept(w, ls, u)
      <3>0. Len(ls) \in 0 .. Len(ls) /\ 0 \in 0 .. 2
        <4>1. Len(ls) \in Nat
          BY ONLY <1>0, EditsInv, LinesAreASequence
        <4>2. \A n \in Nat : n \in 0 .. n
          OBVIOUS
        <4> QED BY <4>1, <4>2
      <3>1. PICK p \in 0 .. Len(ls), d \in 0 .. 2 : d = 0 /\ p = Len(ls)
        <4> DEFINE n == Len(ls)
        <4>1. n \in 0 .. Len(ls)
          BY <3>0
        <4> HIDE DEF n
        <4>2. \E d \in 0 .. 2 : d = 0
          OBVIOUS
        <4> QED BY ONLY <4>1, <4>2, n = Len(ls) DEF n
      <3>2. \A i \in 1 .. Len(ls) : Edits!Shift(i, p, d) = i
        BY <3>1 DEF Edits!Shift
      <3>3. \A i \in Edits!Others(w, ls) : i \in 1 .. Len(ls)
        BY <1>1 DEF Edits!Others
      <3>4. Edits!Others(w, ls) = {Edits!Shift(i, p, d) : i \in Edits!Others(w, ls)}
        BY <3>2, <3>3
      <3> QED BY <2>1, <3>2, <3>3, <3>4 DEF Edits!OthersAreKept
    <2>6. Edits!Result(w, u) = u
      BY <1>6, <2>1 DEF Edits!Result
    <2>7. w = "assisted" => ~Edits!Drift(u)
      BY <1>6, <2>1 DEF Edits!Unneeded
    <2> QED BY <1>0, <1>2, <1>4, <1>5a, <1>6, <2>4, <2>5, <2>6, <2>7
  <1>7. CASE ~Edits!Unneeded(w, ls)
    <2>1. u = Edits!Upsert(ls, m)
      BY <1>2, <1>3, <1>7 DEF Edits!Result
    <2>2. PICK p, d : d \in 0 .. 2 /\ Edited(ls, u, m, p, d)
      BY <1>1, <2>1, UpsertIs
    <2>3. Edits!Upsert(u, m) = u
      BY <1>1, <2>1, UpsertIs
    <2>3a. ls \in Seq(Edits!LineType) /\ m \in Keys /\ d \in 0 .. 2 /\ Edited(ls, u, m, p, d)
      BY <1>1, <2>2
    <2>4. \/ Edits!Of(w, u) # {} /\ \A i \in Edits!Of(w, u) : u[i].value = "want"
          \/ Edits!Of(w, ls) = {} /\ Edits!Strays(w, u) # {}
      <3>1. DOMAIN u = 1 .. Len(u) /\ \E k \in 1 .. Len(u) : Edits!Holds(u, k, m)
        BY <2>2 DEF Edited
      <3>2. \A k \in 1 .. Len(u) : Edits!Holds(u, k, m) => u[k] = Edits!Wanted(m)
        BY ONLY <2>3a, EditedKeys
      <3>3. \A i \in Edits!Of(w, u) : u[i].value = "want"
        BY <1>5, <3>1, <3>2, WantedIs
      <3>4. ASSUME NEW i \in Edits!Of(w, ls) PROVE Edits!Of(w, u) # {}
        <4>1. i \in 1 .. Len(ls) /\ Edits!Holds(ls, i, m)
          BY <1>1, <1>5, <3>4
        <4>2. PICK k \in 1 .. Len(u) :
                /\ Edits!SectionAt(u, k) = Edits!SectionAt(ls, i)
                /\ Edits!Holds(u, k, m)
          <5>1. /\ Edits!Shift(i, p, d) \in 1 .. Len(u)
                /\ Edits!SectionAt(u, Edits!Shift(i, p, d)) = Edits!SectionAt(ls, i)
                /\ Edits!Holds(u, Edits!Shift(i, p, d), m)
            <6>1. \A j \in 1 .. Len(ls) :
                    /\ Edits!Shift(j, p, d) \in 1 .. Len(u)
                    /\ Edits!SectionAt(u, Edits!Shift(j, p, d)) = Edits!SectionAt(ls, j)
                    /\ Edits!Holds(u, Edits!Shift(j, p, d), m) <=> Edits!Holds(ls, j, m)
              BY ONLY <2>3a, EditedKeys
            <6> QED BY ONLY <4>1, <6>1
          <5> QED BY <5>1
        <4>3. k \in Edits!Of(w, u)
          <5>1. Edits!Sectioned => Edits!SectionAt(ls, i).name = m[1]
            BY <1>2, <3>4 DEF Edits!Of
          <5>2. k \in Edits!Holding(u, m)
            BY <1>5, <3>1, <4>2
          <5> QED BY <1>2, <4>2, <5>1, <5>2 DEF Edits!Of
        <4> QED BY <4>3
      <3> QED BY <1>5, <3>1, <3>3, <3>4
    <2>5. Edits!OthersAreKept(w, ls, u)
      BY <1>1, <1>2, <2>2, OthersStay
    <2>6. Edits!Result(w, u) = u
      BY <1>2, <2>3 DEF Edits!Result
    <2>7. w = "assisted" =>
            \/ ~Edits!Drift(u)
            \/ Edits!Sections /\ \E i \in DOMAIN ls : ls[i] = Edits!Header("S", FALSE)
      <3>1. ls \in Seq(Edits!LineType) /\ \A i \in DOMAIN ls : ls[i].sort = "section" => ls[i].value = ""
        BY <1>1
      <3>2. Edited(ls, u, m, p, d)
        BY <2>2
      <3>3. ASSUME w = "assisted", Edits!Sections => \A i \in DOMAIN ls : ls[i] # Edits!Header("S", FALSE)
            PROVE  ~Edits!Drift(u)
        <4>1. m \in Keys /\ m = Edits!Managed("assisted")
          BY <1>2, <3>3
        <4> QED BY ONLY <3>1, <3>2, <3>3, <4>1, NoDrift
      <3> QED BY ONLY <3>3
    <2>8. Edits!Strays(w, u) # {} => emu = "azahar"
      BY <1>5a
    <2> QED BY <1>0, <1>2, <1>4, <2>4, <2>5, <2>6, <2>7, <2>8
  <1> QED BY <1>6, <1>7

\* What is known of the files is kept, and every edit settles.
THEOREM EditedFiles ==
  ASSUME EmulatorFiles
  PROVE  Edits!Spec => []EditsInv /\ [][Edits!EditsSettle]_Edits!vars
  <1>1. EditsInv /\ [Edits!Next]_Edits!vars => EditsInv'
    <2> SUFFICES ASSUME EditsInv, [Edits!Next]_Edits!vars PROVE EditsInv'
      OBVIOUS
    <2>1. ASSUME NEW w, Edits!Apply(w) PROVE EditsInv'
      BY <2>1, AppliedLines
    <2>2. CASE Edits!UserSets
      BY <2>2, UserSetsLines
    <2>3. CASE UNCHANGED Edits!vars
      BY <2>3 DEF Edits!vars, EditsInv, Edits!TypeOK, Edits!LineType, Edits!NoBackup, Edits!Line
    <2> QED BY <2>1, <2>2, <2>3 DEF Edits!Next
  <1>2. EditsInv /\ [Edits!Next]_Edits!vars => [Edits!EditsSettle]_Edits!vars
    BY EditSettles
  <1> QED BY <1>1, <1>2, EditsInit, PTL DEF Edits!Spec

-----------------------------------------------------------------------------
(* The paths of an emulator.                                               *)

\* A search finds the first place that is in the set.
LEMMA FirstFound ==
  ASSUME NEW n \in Nat, NEW seq, DOMAIN seq = 1 .. n, NEW S, NEW o
  PROVE  /\ \A i \in 1 .. n : seq[i] \in S /\ (\A j \in 1 .. i - 1 : seq[j] \notin S) =>
              Paths!FirstIn(seq, S, o) = seq[i]
         /\ (\A i \in 1 .. n : seq[i] \notin S) => Paths!FirstIn(seq, S, o) = o
  <1>1. ASSUME NEW i \in 1 .. n, seq[i] \in S, \A j \in 1 .. i - 1 : seq[j] \notin S
        PROVE  Paths!FirstIn(seq, S, o) = seq[i]
    <2> DEFINE P(x) == x \in DOMAIN seq /\ seq[x] \in S /\ \A j \in 1 .. x - 1 : seq[j] \notin S
    <2>1. \A x : P(x) => x = i
      <3> TAKE x
      <3> HAVE P(x)
      <3>1. x \in 1 .. n /\ seq[x] \in S /\ \A j \in 1 .. x - 1 : seq[j] \notin S
        OBVIOUS
      <3>2. ~(x < i)
        BY <1>1, <3>1
      <3>3. ~(i < x)
        BY <1>1, <3>1
      <3> QED BY <3>1, <3>2, <3>3
    <2>2. P(i)
      BY <1>1
    <2>3. (CHOOSE x \in DOMAIN seq : seq[x] \in S /\ \A j \in 1 .. x - 1 : seq[j] \notin S) = i
      BY <2>1, <2>2
    <2> QED BY <1>1, <2>3 DEF Paths!FirstIn
  <1>2. ASSUME \A i \in 1 .. n : seq[i] \notin S PROVE Paths!FirstIn(seq, S, o) = o
    BY <1>2 DEF Paths!FirstIn
  <1> QED BY <1>1, <1>2

\* The first of a few places.
LEMMA First1 ==
  ASSUME NEW S, NEW o, NEW a
  PROVE  Paths!FirstIn(<<a>>, S, o) = IF a \in S THEN a ELSE o
  <1>1. PICK n \in Nat : n = 1
    OBVIOUS
  <1>2. PICK s : s = <<a>>
    OBVIOUS
  <1>3. DOMAIN s = 1 .. n /\ s[1] = a
    BY <1>1, <1>2
  <1>4. /\ \A i \in 1 .. n : s[i] \in S /\ (\A j \in 1 .. i - 1 : s[j] \notin S) =>
             Paths!FirstIn(s, S, o) = s[i]
        /\ (\A i \in 1 .. n : s[i] \notin S) => Paths!FirstIn(s, S, o) = o
    BY ONLY <1>3, n \in Nat, FirstFound
  <1>5. a \in S => Paths!FirstIn(s, S, o) = a
    <2>1. 1 \in 1 .. n /\ \A j \in 1 .. 1 - 1 : FALSE
      BY <1>1
    <2> QED BY ONLY <1>3, <1>4, <2>1
  <1>6. a \notin S => Paths!FirstIn(s, S, o) = o
    <2>1. \A i \in 1 .. n : i = 1
      BY <1>1
    <2> QED BY ONLY <1>3, <1>4, <2>1
  <1> QED BY <1>2, <1>5, <1>6

LEMMA First2 ==
  ASSUME NEW S, NEW o, NEW a, NEW b
  PROVE  Paths!FirstIn(<<a, b>>, S, o) = IF a \in S THEN a ELSE IF b \in S THEN b ELSE o
  <1>1. PICK n \in Nat : n = 2
    OBVIOUS
  <1>2. PICK s : s = <<a, b>>
    OBVIOUS
  <1>3. DOMAIN s = 1 .. n /\ s[1] = a /\ s[2] = b
    BY <1>1, <1>2
  <1>4. /\ \A i \in 1 .. n : s[i] \in S /\ (\A j \in 1 .. i - 1 : s[j] \notin S) =>
             Paths!FirstIn(s, S, o) = s[i]
        /\ (\A i \in 1 .. n : s[i] \notin S) => Paths!FirstIn(s, S, o) = o
    BY ONLY <1>3, n \in Nat, FirstFound
  <1>5. a \in S => Paths!FirstIn(s, S, o) = a
    <2>1. 1 \in 1 .. n /\ \A j \in 1 .. 1 - 1 : FALSE
      BY <1>1
    <2> QED BY ONLY <1>3, <1>4, <2>1
  <1>6. b \in S /\ a \notin S => Paths!FirstIn(s, S, o) = b
    <2>1. 2 \in 1 .. n /\ \A j \in 1 .. 2 - 1 : j = 1
      BY <1>1
    <2> QED BY ONLY <1>3, <1>4, <2>1
  <1>7. a \notin S /\ b \notin S => Paths!FirstIn(s, S, o) = o
    <2>1. \A i \in 1 .. n : i = 1 \/ i = 2
      BY <1>1
    <2> QED BY ONLY <1>3, <1>4, <2>1
  <1> QED BY <1>2, <1>5, <1>6, <1>7

LEMMA First3 ==
  ASSUME NEW S, NEW o, NEW a, NEW b, NEW c
  PROVE  Paths!FirstIn(<<a, b, c>>, S, o) = IF a \in S THEN a ELSE IF b \in S THEN b ELSE IF c \in S THEN c ELSE o
  <1>1. PICK n \in Nat : n = 3
    OBVIOUS
  <1>2. PICK s : s = <<a, b, c>>
    OBVIOUS
  <1>3. DOMAIN s = 1 .. n /\ s[1] = a /\ s[2] = b /\ s[3] = c
    BY <1>1, <1>2
  <1>4. /\ \A i \in 1 .. n : s[i] \in S /\ (\A j \in 1 .. i - 1 : s[j] \notin S) =>
             Paths!FirstIn(s, S, o) = s[i]
        /\ (\A i \in 1 .. n : s[i] \notin S) => Paths!FirstIn(s, S, o) = o
    BY ONLY <1>3, n \in Nat, FirstFound
  <1>5. a \in S => Paths!FirstIn(s, S, o) = a
    <2>1. 1 \in 1 .. n /\ \A j \in 1 .. 1 - 1 : FALSE
      BY <1>1
    <2> QED BY ONLY <1>3, <1>4, <2>1
  <1>6. b \in S /\ a \notin S => Paths!FirstIn(s, S, o) = b
    <2>1. 2 \in 1 .. n /\ \A j \in 1 .. 2 - 1 : j = 1
      BY <1>1
    <2> QED BY ONLY <1>3, <1>4, <2>1
  <1>7. c \in S /\ a \notin S /\ b \notin S => Paths!FirstIn(s, S, o) = c
    <2>1. 3 \in 1 .. n /\ \A j \in 1 .. 3 - 1 : j = 1 \/ j = 2
      BY <1>1
    <2> QED BY ONLY <1>3, <1>4, <2>1
  <1>8. a \notin S /\ b \notin S /\ c \notin S => Paths!FirstIn(s, S, o) = o
    <2>1. \A i \in 1 .. n : i = 1 \/ i = 2 \/ i = 3
      BY <1>1
    <2> QED BY ONLY <1>3, <1>4, <2>1
  <1> QED BY <1>2, <1>5, <1>6, <1>7, <1>8

LEMMA First4 ==
  ASSUME NEW S, NEW o, NEW a, NEW b, NEW c, NEW d
  PROVE  Paths!FirstIn(<<a, b, c, d>>, S, o) = IF a \in S THEN a ELSE IF b \in S THEN b ELSE IF c \in S THEN c ELSE IF d \in S THEN d ELSE o
  <1>1. PICK n \in Nat : n = 4
    OBVIOUS
  <1>2. PICK s : s = <<a, b, c, d>>
    OBVIOUS
  <1>3. DOMAIN s = 1 .. n /\ s[1] = a /\ s[2] = b /\ s[3] = c /\ s[4] = d
    BY <1>1, <1>2
  <1>4. /\ \A i \in 1 .. n : s[i] \in S /\ (\A j \in 1 .. i - 1 : s[j] \notin S) =>
             Paths!FirstIn(s, S, o) = s[i]
        /\ (\A i \in 1 .. n : s[i] \notin S) => Paths!FirstIn(s, S, o) = o
    BY ONLY <1>3, n \in Nat, FirstFound
  <1>5. a \in S => Paths!FirstIn(s, S, o) = a
    <2>1. 1 \in 1 .. n /\ \A j \in 1 .. 1 - 1 : FALSE
      BY <1>1
    <2> QED BY ONLY <1>3, <1>4, <2>1
  <1>6. b \in S /\ a \notin S => Paths!FirstIn(s, S, o) = b
    <2>1. 2 \in 1 .. n /\ \A j \in 1 .. 2 - 1 : j = 1
      BY <1>1
    <2> QED BY ONLY <1>3, <1>4, <2>1
  <1>7. c \in S /\ a \notin S /\ b \notin S => Paths!FirstIn(s, S, o) = c
    <2>1. 3 \in 1 .. n /\ \A j \in 1 .. 3 - 1 : j = 1 \/ j = 2
      BY <1>1
    <2> QED BY ONLY <1>3, <1>4, <2>1
  <1>8. d \in S /\ a \notin S /\ b \notin S /\ c \notin S => Paths!FirstIn(s, S, o) = d
    <2>1. 4 \in 1 .. n /\ \A j \in 1 .. 4 - 1 : j = 1 \/ j = 2 \/ j = 3
      BY <1>1
    <2> QED BY ONLY <1>3, <1>4, <2>1
  <1>9. a \notin S /\ b \notin S /\ c \notin S /\ d \notin S => Paths!FirstIn(s, S, o) = o
    <2>1. \A i \in 1 .. n : i = 1 \/ i = 2 \/ i = 3 \/ i = 4
      BY <1>1
    <2> QED BY ONLY <1>3, <1>4, <2>1
  <1> QED BY <1>2, <1>5, <1>6, <1>7, <1>8, <1>9

\* The hosts there are, and what is on them.
PathHosts == Combinations \subseteq {"linux", "nt", "darwin"} \X {"retroarch", "pcsx2", "dolphin", "azahar"}
HostOK ==
  /\ onHost.os \in {"linux", "nt", "darwin"} /\ onHost.emu \in {"retroarch", "pcsx2", "dolphin", "azahar"}
  /\ onHost.mac \in {"none", "intel", "silicon", "rosetta"} /\ (onHost.os = "darwin") = (onHost.mac # "none")
  /\ onHost.override \in BOOLEAN
  /\ at \in [Paths!Places -> Paths!Builds \cup {"absent"}]

\* Where there is no Mac, whatever is installed may run.
LEMMA RunsIfThere ==
  ASSUME HostOK, NEW p
  PROVE  /\ Paths!MayRun(p) => Paths!IsThere(p)
         /\ onHost.os # "darwin" => (Paths!MayRun(p) <=> Paths!IsThere(p))
         /\ p \in Paths!Installed <=> Paths!IsThere(p)
         /\ p \in {q \in Paths!Places : Paths!MayRun(q)} <=> Paths!MayRun(p)
         /\ ~Paths!IsThere("missing")
  <1>1. ASSUME onHost.os # "darwin", Paths!IsThere(p) PROVE Paths!Preference(at[p]) = 0
    <2>1. Paths!Builds = {"any"}
      BY <1>1 DEF HostOK, Paths!Builds
    <2>2. at[p] = "any"
      BY <1>1, <2>1 DEF HostOK, Paths!IsThere
    <2> QED BY <2>2 DEF Paths!Preference
  <1>2. "missing" \notin Paths!Places
    BY DEF HostOK, Paths!Places, Paths!os
  <1> QED BY <1>1, <1>2 DEF Paths!MayRun, Paths!Installed, Paths!IsThere

\* The best bundle is one that may run, if there is one.
LEMMA BestIs ==
  ASSUME HostOK, NEW o, NEW a, NEW b
  PROVE  /\ Paths!BestOf(<<a>>, o) = IF Paths!MayRun(a) THEN a ELSE o
         /\ ~Paths!MayRun(a) /\ ~Paths!MayRun(b) => Paths!BestOf(<<a, b>>, o) = o
         /\ Paths!MayRun(a) \/ Paths!MayRun(b) =>
              /\ Paths!BestOf(<<a, b>>, o) \in {a, b} /\ Paths!MayRun(Paths!BestOf(<<a, b>>, o))
  <1>1. \A p : Paths!MayRun(p) <=> /\ p \in Paths!Places /\ Paths!MayRun(p)
                                   /\ Paths!Preference(at[p]) = 0 \/ Paths!Preference(at[p]) = 1
    BY DEF Paths!MayRun, Paths!IsThere, Paths!Preference
  <1> DEFINE S == {p \in Paths!Places : Paths!MayRun(p) /\ Paths!Preference(at[p]) = 0}
             T == {p \in Paths!Places : Paths!MayRun(p) /\ Paths!Preference(at[p]) = 1}
  <1>2. \A p : Paths!MayRun(p) <=> p \in S \/ p \in T
    BY <1>1
  <1>3. \A s : Paths!BestOf(s, o) = Paths!FirstIn(s, S, Paths!FirstIn(s, T, o))
    BY DEF Paths!BestOf
  <1> HIDE DEF S, T
  <1>4. Paths!BestOf(<<a>>, o) = IF Paths!MayRun(a) THEN a ELSE o
    BY <1>2, <1>3, First1
  <1>5. Paths!BestOf(<<a, b>>, o) =
          IF a \in S THEN a ELSE IF b \in S THEN b ELSE IF a \in T THEN a ELSE IF b \in T THEN b ELSE o
    BY <1>3, First2
  <1> QED BY <1>2, <1>4, <1>5

LEMMA NoBest ==
  ASSUME HostOK, NEW o, NEW a, NEW b, ~Paths!MayRun(a), ~Paths!MayRun(b)
  PROVE  Paths!BestOf(<<a, b>>, o) = o
  BY BestIs

\* What is known to be installed comes before anything else.
LEMMA KnownIs ==
  ASSUME HostOK, NEW o, NEW k, k = Paths!Known(o)
  PROVE  /\ k = o \/ (Paths!MayRun(k) /\ k \notin {"own", "onPath", "alias"})
         /\ Paths!Known("missing") = "missing" => k = o
         /\ Paths!Known("missing") # "missing" => k = Paths!Known("missing")
         /\ onHost.os # "linux" => k = o \/ ~Paths!IsFlatpak(k)
         /\ onHost.os = "linux" /\ onHost.emu \in {"dolphin", "azahar"} =>
              /\ Paths!IsThere("exportUser") => k = "exportUser"
              /\ Paths!IsThere("exportSystem") => Paths!IsFlatpak(k)
  <1>0. PICK ma : ma = "missing"
    OBVIOUS
  <1>1. CASE onHost.os = "linux" /\ onHost.emu \in {"retroarch", "pcsx2"}
    <2>1. \A x : Paths!Known(x) = Paths!FirstIn(<<"bin", "exportUser">>, Paths!Installed, x)
      BY <1>1 DEF Paths!Known, Paths!os, Paths!emu
    <2>2. \A x : Paths!Known(x) = IF Paths!IsThere("bin") THEN "bin"
                                  ELSE IF Paths!IsThere("exportUser") THEN "exportUser" ELSE x
      BY <2>1, First2, RunsIfThere
    <2> QED BY <1>1, <2>2, RunsIfThere
  <1>2. CASE onHost.os = "linux" /\ onHost.emu \in {"dolphin", "azahar"}
    <2>1. \A x : Paths!Known(x) = Paths!FirstIn(<<"exportUser", "exportSystem", "bin">>, Paths!Installed, x)
      BY <1>2 DEF Paths!Known, Paths!os, Paths!emu
    <2>2. \A x : Paths!Known(x) = IF Paths!IsThere("exportUser") THEN "exportUser"
                                  ELSE IF Paths!IsThere("exportSystem") THEN "exportSystem"
                                  ELSE IF Paths!IsThere("bin") THEN "bin" ELSE x
      BY <2>1, First3, RunsIfThere
    <2> QED BY <1>2, <2>2, RunsIfThere DEF Paths!IsFlatpak
  <1>3. CASE onHost.os = "nt"
    <2>1. \A x : Paths!Known(x) = Paths!FirstIn(<<"local", "files">>, Paths!Installed, x)
      BY <1>3 DEF Paths!Known, Paths!os, Paths!emu
    <2>2. \A x : Paths!Known(x) = IF Paths!IsThere("local") THEN "local"
                                  ELSE IF Paths!IsThere("files") THEN "files" ELSE x
      BY <2>1, First2, RunsIfThere
    <2> QED BY <1>3, <2>2, RunsIfThere DEF Paths!IsFlatpak
  <1>4. CASE onHost.os = "darwin"
    <2>1. \A x : Paths!Known(x) = Paths!BestOf(<<"userApp", "systemApp">>, x)
      BY <1>4 DEF Paths!Known, Paths!os, Paths!emu
    <2>2. CASE ~Paths!MayRun("userApp") /\ ~Paths!MayRun("systemApp")
      <3>1. ASSUME NEW x PROVE Paths!Known(x) = x
        <4>1. Paths!BestOf(<<"userApp", "systemApp">>, x) = x
          BY ONLY HostOK, <2>2, NoBest
        <4> QED BY <2>1, <4>1
      <3> QED BY <1>4, <3>1
    <2>3. CASE Paths!MayRun("userApp") \/ Paths!MayRun("systemApp")
      <3> DEFINE U == {p \in Paths!Places : Paths!MayRun(p) /\ Paths!Preference(at[p]) = 0}
                 T == {p \in Paths!Places : Paths!MayRun(p) /\ Paths!Preference(at[p]) = 1}
      <3>1. \A x : Paths!Known(x) = Paths!FirstIn(<<"userApp", "systemApp">>, U,
                                      Paths!FirstIn(<<"userApp", "systemApp">>, T, x))
        BY <2>1 DEF Paths!BestOf
      <3>2. \A p : Paths!MayRun(p) <=> p \in U \/ p \in T
        BY DEF Paths!MayRun, Paths!IsThere, Paths!Preference
      <3> HIDE DEF U, T
      <3>3. \A x : Paths!Known(x) =
              IF "userApp" \in U THEN "userApp" ELSE IF "systemApp" \in U THEN "systemApp"
              ELSE IF "userApp" \in T THEN "userApp" ELSE IF "systemApp" \in T THEN "systemApp" ELSE x
        BY <3>1, First2
      <3> QED BY <1>4, <2>3, <3>2, <3>3 DEF Paths!IsFlatpak
    <2> QED BY <2>2, <2>3
  <1> QED BY <1>1, <1>2, <1>3, <1>4 DEF HostOK

\* What is launched is there, and what is called available may run.
LEMMA ResolveIs ==
  ASSUME HostOK
  PROVE  /\ \A path \in BOOLEAN :
              /\ Paths!Resolve(path) # "missing" => Paths!IsThere(Paths!Resolve(path))
              /\ Paths!Available(path) => Paths!MayRun(Paths!Resolve(path))
         /\ Paths!Exe # "missing" => Paths!Available(FALSE)
         /\ onHost.os = "linux" /\ Paths!Resolve(TRUE) # "own" => Paths!Resolve(TRUE) = Paths!Exe
         /\ onHost.os # "linux" => ~Paths!IsFlatpak(Paths!Exe)
         /\ onHost.os = "linux" /\ onHost.emu \in {"dolphin", "azahar"} =>
              /\ Paths!IsThere("exportUser") => Paths!Exe = "exportUser"
              /\ Paths!IsThere("exportSystem") => Paths!IsFlatpak(Paths!Exe)
  <1> DEFINE p == Paths!FirstIn(<<"onPath", "alias">>, {x \in Paths!Places : Paths!MayRun(x)}, "missing")
             k == Paths!Known(p)
             m == Paths!Known("missing")
             app == onHost.os = "darwin" /\ onHost.emu = "azahar" /\ Paths!MayRun("userApp")
  <1>1. p = IF Paths!MayRun("onPath") THEN "onPath" ELSE IF Paths!MayRun("alias") THEN "alias" ELSE "missing"
    BY First2, RunsIfThere
  <1>2. /\ k = p \/ (Paths!MayRun(k) /\ k \notin {"own", "onPath", "alias"})
        /\ m = "missing" => k = p
        /\ m # "missing" => k = m
        /\ onHost.os # "linux" => k = p \/ ~Paths!IsFlatpak(k)
        /\ onHost.os = "linux" /\ onHost.emu \in {"dolphin", "azahar"} =>
             /\ Paths!IsThere("exportUser") => k = "exportUser"
             /\ Paths!IsThere("exportSystem") => Paths!IsFlatpak(k)
    <2> HIDE DEF p
    <2> QED BY KnownIs
  <1>3. m = "missing" \/ Paths!MayRun(m)
    BY KnownIs
  <1>4. \A x : onHost.os = "darwin" => Paths!BestOf(<<"userApp">>, x) = IF Paths!MayRun("userApp") THEN "userApp" ELSE x
    BY BestIs
  <1>5. /\ Paths!Resolve(FALSE) = IF app THEN "userApp" ELSE k
        /\ Paths!Resolve(TRUE) = IF app THEN "userApp" ELSE IF Paths!IsThere("own") THEN "own" ELSE k
    BY <1>4 DEF Paths!Resolve, Paths!os, Paths!emu
  <1>6. /\ Paths!Available(FALSE) <=> Paths!MayRun("onPath") \/ Paths!MayRun("alias") \/ m # "missing"
        /\ Paths!Available(TRUE) <=> Paths!MayRun("own")
    BY DEF Paths!Available
  <1>7. app => m # "missing"
    <2>1. ASSUME app PROVE m = Paths!BestOf(<<"userApp", "systemApp">>, "missing")
      BY <2>1 DEF Paths!Known, Paths!os, Paths!emu
    <2>2. ASSUME app PROVE Paths!MayRun(m)
      <3>1. Paths!MayRun(Paths!BestOf(<<"userApp", "systemApp">>, "missing"))
        BY ONLY HostOK, app, BestIs
      <3> QED BY <2>1, <2>2, <3>1
    <2> QED BY <2>2, RunsIfThere
  <1>8. Paths!Exe = Paths!Resolve(FALSE)
    BY DEF Paths!Exe
  <1> HIDE DEF p, k, m
  <1>9. ~Paths!IsFlatpak("userApp") /\ ~Paths!IsFlatpak("onPath") /\ ~Paths!IsFlatpak("alias") /\ ~Paths!IsFlatpak("missing")
    BY DEF Paths!IsFlatpak
  <1>10. \A x : Paths!MayRun(x) => Paths!IsThere(x)
    BY RunsIfThere
  <1>11. ~Paths!IsThere("missing")
    BY RunsIfThere
  <1>12. k = p => ~Paths!IsFlatpak(k)
    BY <1>1, <1>9
  <1>13. ASSUME NEW path \in BOOLEAN
         PROVE  /\ Paths!Resolve(path) # "missing" => Paths!IsThere(Paths!Resolve(path))
                /\ Paths!Available(path) => Paths!MayRun(Paths!Resolve(path))
    BY <1>1, <1>2, <1>3, <1>5, <1>6, <1>7, <1>10, <1>11
  <1>14. Paths!Exe # "missing" => Paths!Available(FALSE)
    BY <1>1, <1>2, <1>5, <1>6, <1>7, <1>8
  <1> QED BY <1>2, <1>5, <1>8, <1>9, <1>12, <1>13, <1>14

\* A search of directories by their roots.
LEMMA HavingIs ==
  ASSUME NEW r \in Paths!Roots, NEW sub
  PROVE  r \in Paths!Having(sub) <=> <<r, sub>> \in dirs
  BY DEF Paths!Having, Paths!Exists, Paths!In

LEMMA Existing1 ==
  ASSUME NEW a \in Paths!Roots, NEW sub
  PROVE  Paths!FirstExisting(<<a>>, sub) = IF <<a, sub>> \in dirs THEN <<a, sub>> ELSE Paths!NoPath
  <1>1. a # "none"
    BY DEF Paths!Roots
  <1>2. Paths!FirstIn(<<a>>, Paths!Having(sub), "none") = IF <<a, sub>> \in dirs THEN a ELSE "none"
    BY First1, HavingIs
  <1> QED BY <1>1, <1>2 DEF Paths!FirstExisting, Paths!In

LEMMA Existing2 ==
  ASSUME NEW a \in Paths!Roots, NEW b \in Paths!Roots, NEW sub
  PROVE  Paths!FirstExisting(<<a, b>>, sub) =
           IF <<a, sub>> \in dirs THEN <<a, sub>>
           ELSE IF <<b, sub>> \in dirs THEN <<b, sub>> ELSE Paths!NoPath
  <1>1. a # "none" /\ b # "none"
    BY DEF Paths!Roots
  <1>2. Paths!FirstIn(<<a, b>>, Paths!Having(sub), "none") =
          IF <<a, sub>> \in dirs THEN a ELSE IF <<b, sub>> \in dirs THEN b ELSE "none"
    BY First2, HavingIs
  <1> QED BY <1>1, <1>2 DEF Paths!FirstExisting, Paths!In

LEMMA Existing3 ==
  ASSUME NEW a \in Paths!Roots, NEW b \in Paths!Roots, NEW c \in Paths!Roots, NEW sub
  PROVE  Paths!FirstExisting(<<a, b, c>>, sub) =
           IF <<a, sub>> \in dirs THEN <<a, sub>>
           ELSE IF <<b, sub>> \in dirs THEN <<b, sub>>
           ELSE IF <<c, sub>> \in dirs THEN <<c, sub>> ELSE Paths!NoPath
  <1>1. a # "none" /\ b # "none" /\ c # "none"
    BY DEF Paths!Roots
  <1>2. Paths!FirstIn(<<a, b, c>>, Paths!Having(sub), "none") =
          IF <<a, sub>> \in dirs THEN a ELSE IF <<b, sub>> \in dirs THEN b
          ELSE IF <<c, sub>> \in dirs THEN c ELSE "none"
    BY First3, HavingIs
  <1> QED BY <1>1, <1>2 DEF Paths!FirstExisting, Paths!In


\* What is launched depends on the host and what is installed, only.
LEMMA LaunchStays ==
  ASSUME UNCHANGED <<onHost, at>>
  PROVE  /\ \A path \in BOOLEAN : Paths!Resolve(path)' = Paths!Resolve(path)
         /\ Paths!Exe' = Paths!Exe
         /\ \A p : Paths!IsThere(p)' <=> Paths!IsThere(p)
         /\ \A p : Paths!MayRun(p)' <=> Paths!MayRun(p)
         /\ \A path \in BOOLEAN : Paths!Available(path)' <=> Paths!Available(path)
  <1>1. Paths!os' = Paths!os /\ Paths!emu' = Paths!emu /\ Paths!Places' = Paths!Places
    BY DEF Paths!os, Paths!emu, Paths!Places
  <1>2. \A p : Paths!IsThere(p)' <=> Paths!IsThere(p)
    BY <1>1 DEF Paths!IsThere
  <1>3. \A b : Paths!Preference(b)' = Paths!Preference(b)
    BY <1>1 DEF Paths!Preference
  <1>4. \A p : Paths!MayRun(p)' <=> Paths!MayRun(p)
    BY <1>2, <1>3 DEF Paths!MayRun
  <1>5. \A s, o : Paths!BestOf(s, o)' = Paths!BestOf(s, o)
    BY <1>1, <1>3, <1>4 DEF Paths!BestOf
  <1>6. \A o : Paths!Known(o)' = Paths!Known(o)
    <2>1. Paths!Installed' = Paths!Installed
      BY <1>1, <1>2 DEF Paths!Installed
    <2> QED BY <1>1, <1>5, <2>1 DEF Paths!Known
  <1>7. {p \in Paths!Places : Paths!MayRun(p)}' = {p \in Paths!Places : Paths!MayRun(p)}
    BY <1>1, <1>4
  <1>8. \A path \in BOOLEAN : Paths!Resolve(path)' = Paths!Resolve(path)
    BY <1>1, <1>2, <1>5, <1>6, <1>7 DEF Paths!Resolve
  <1>9. \A path \in BOOLEAN : Paths!Available(path)' <=> Paths!Available(path)
    BY <1>4, <1>6 DEF Paths!Available
  <1> QED BY <1>2, <1>4, <1>8, <1>9 DEF Paths!Exe

\* What is known of the directories and the files of configuration.
PathsTyped ==
  /\ HostOK /\ byPath \in BOOLEAN
  /\ conf \in [Paths!ConfRoots -> {"absent", "plain", "custom"}]
  /\ \A d \in dirs : d[1] # "none" /\ <<d[1], "">> \in dirs
  /\ synced \subseteq Paths!ConfRoots \cup {"nativeConfig", "flatConfig", "exeDir", "documents",
                                             "appdata", "xdg", "support"}

LEMMA TypedIs ==
  ASSUME PathsTyped
  PROVE  Paths!TypeOK
  <1>1. Paths!Exe \in Paths!Places \cup {"missing"}
    <2>1. Paths!Exe = Paths!Resolve(FALSE)
      BY DEF Paths!Exe
    <2>2. Paths!Exe # "missing" => Paths!IsThere(Paths!Exe)
      BY <2>1, ResolveIs DEF PathsTyped
    <2> QED BY <2>2 DEF Paths!IsThere
  <1>2. dirs = Paths!WithRoots(dirs)
    BY DEF PathsTyped, Paths!WithRoots, Paths!In
  <1>3. Paths!NoPath \notin dirs
    BY DEF PathsTyped, Paths!NoPath
  <1> QED BY <1>1, <1>2, <1>3 DEF PathsTyped, HostOK, Paths!TypeOK

\* Of two roots on a Mac the one that exists comes first.
LEMMA MacRootsAre ==
  ASSUME NEW a \in Paths!Roots, NEW b \in Paths!Roots
  PROVE  /\ Paths!MacRoots(a, b) = IF <<b, "">> \in dirs /\ <<a, "">> \notin dirs THEN <<b, a>> ELSE <<a, b>>
         /\ Paths!MacRoots(a, b)[1] = IF <<b, "">> \in dirs /\ <<a, "">> \notin dirs THEN b ELSE a
  <1>1. Paths!MacRoots(a, b) = IF <<b, "">> \in dirs /\ <<a, "">> \notin dirs THEN <<b, a>> ELSE <<a, b>>
    BY DEF Paths!MacRoots, Paths!Exists, Paths!In
  <1>2. <<a, b>>[1] = a /\ <<b, a>>[1] = b
    OBVIOUS
  <1>3. CASE <<b, "">> \in dirs /\ <<a, "">> \notin dirs
    BY <1>1, <1>2, <1>3
  <1>4. CASE ~(<<b, "">> \in dirs /\ <<a, "">> \notin dirs)
    BY <1>1, <1>2, <1>4
  <1> QED BY <1>1, <1>3, <1>4

MacFirst(a, b, ina, inb, o) ==
  IF <<b, "">> \in dirs /\ <<a, "">> \notin dirs
  THEN IF inb THEN b ELSE IF ina THEN a ELSE o
  ELSE IF ina THEN a ELSE IF inb THEN b ELSE o
LEMMA MacFound ==
  ASSUME NEW a \in Paths!Roots, NEW b \in Paths!Roots, NEW sub, NEW o
  PROVE  Paths!FirstIn(Paths!MacRoots(a, b), Paths!Having(sub), o) =
           MacFirst(a, b, <<a, sub>> \in dirs, <<b, sub>> \in dirs, o)
  <1> USE DEF MacFirst
  <1>1. CASE <<b, "">> \in dirs /\ <<a, "">> \notin dirs
    <2>1. Paths!MacRoots(a, b) = <<b, a>>
      BY <1>1, MacRootsAre
    <2>2. Paths!FirstIn(<<b, a>>, Paths!Having(sub), o) =
            IF <<b, sub>> \in dirs THEN b ELSE IF <<a, sub>> \in dirs THEN a ELSE o
      BY First2, HavingIs
    <2> QED BY <1>1, <2>1, <2>2
  <1>2. CASE ~(<<b, "">> \in dirs /\ <<a, "">> \notin dirs)
    <2>1. Paths!MacRoots(a, b) = <<a, b>>
      BY <1>2, MacRootsAre
    <2>2. Paths!FirstIn(<<a, b>>, Paths!Having(sub), o) =
            IF <<a, sub>> \in dirs THEN a ELSE IF <<b, sub>> \in dirs THEN b ELSE o
      BY First2, HavingIs
    <2> QED BY <1>2, <2>1, <2>2
  <1> QED BY <1>1, <1>2

LEMMA MacExisting ==
  ASSUME NEW a \in Paths!Roots, NEW b \in Paths!Roots, NEW sub
  PROVE  Paths!FirstExisting(Paths!MacRoots(a, b), sub) =
           IF <<b, "">> \in dirs /\ <<a, "">> \notin dirs
           THEN IF <<b, sub>> \in dirs THEN <<b, sub>>
                ELSE IF <<a, sub>> \in dirs THEN <<a, sub>> ELSE Paths!NoPath
           ELSE IF <<a, sub>> \in dirs THEN <<a, sub>>
                ELSE IF <<b, sub>> \in dirs THEN <<b, sub>> ELSE Paths!NoPath
  <1>1. a # "none" /\ b # "none"
    BY DEF Paths!Roots
  <1>2. PICK x : x = Paths!FirstIn(Paths!MacRoots(a, b), Paths!Having(sub), "none")
    OBVIOUS
  <1>3. x = MacFirst(a, b, <<a, sub>> \in dirs, <<b, sub>> \in dirs, "none")
    BY <1>2, MacFound
  <1>4. Paths!FirstExisting(Paths!MacRoots(a, b), sub) = IF x = "none" THEN Paths!NoPath ELSE <<x, sub>>
    BY <1>2 DEF Paths!FirstExisting, Paths!In
  <1> QED BY <1>1, <1>3, <1>4 DEF MacFirst

\* Where the saves of PCSX2 are looked for.
Pcsx2Looks ==
  /\ onHost.os = "linux" =>
       Paths!SaveRoot = IF Paths!IsFlatpak(Paths!Exe)
                        THEN IF <<"flat", "memcards">> \in dirs THEN <<"flat", "memcards">> ELSE Paths!NoPath
                        ELSE IF <<"native", "memcards">> \in dirs THEN <<"native", "memcards">> ELSE Paths!NoPath
  /\ onHost.os = "nt" =>
       Paths!SaveRoot = IF /\ conf["appdata"] = "custom" \/ conf["documents"] = "custom"
                           /\ <<"custom", "memcards">> \in dirs
                        THEN <<"custom", "memcards">>
                        ELSE IF <<"appdata", "memcards">> \in dirs THEN <<"appdata", "memcards">>
                        ELSE IF <<"documents", "memcards">> \in dirs THEN <<"documents", "memcards">>
                        ELSE Paths!NoPath
  /\ onHost.os = "darwin" =>
       Paths!SaveRoot = IF /\ conf["support"] = "custom" \/ (onHost.override /\ conf["override"] = "custom")
                           /\ <<"custom", "memcards">> \in dirs
                        THEN <<"custom", "memcards">>
                        ELSE IF <<"support", "memcards">> \in dirs THEN <<"support", "memcards">>
                        ELSE Paths!NoPath
LEMMA Pcsx2SavesAre ==
  ASSUME HostOK, onHost.emu = "pcsx2"
  PROVE  Pcsx2Looks
  <1> USE DEF Pcsx2Looks
  <1>1. Paths!SaveRoot = Paths!Pcsx2Saves
    BY DEF Paths!SaveRoot, Paths!emu
  <1>2. \A a \in {"flat", "native", "support"} :
          Paths!FirstExisting(<<a>>, "memcards") = IF <<a, "memcards">> \in dirs THEN <<a, "memcards">> ELSE Paths!NoPath
    BY Existing1 DEF Paths!Roots
  <1>3. Paths!FirstExisting(<<"appdata", "documents">>, "memcards") =
          IF <<"appdata", "memcards">> \in dirs THEN <<"appdata", "memcards">>
          ELSE IF <<"documents", "memcards">> \in dirs THEN <<"documents", "memcards">> ELSE Paths!NoPath
    <2>1. PICK a \in Paths!Roots, b \in Paths!Roots : a = "appdata" /\ b = "documents"
      BY DEF Paths!Roots
    <2> QED BY <2>1, Existing2
  <1>4. CASE onHost.os = "linux"
    BY <1>1, <1>2, <1>4 DEF Paths!Pcsx2Saves, Paths!os
  <1>5. CASE onHost.os = "nt"
    <2>1. ~Paths!IsFlatpak(Paths!Exe)
      BY <1>5, ResolveIs
    <2> QED BY <1>1, <1>3, <1>5, <2>1 DEF Paths!Pcsx2Saves, Paths!os, Paths!Exists, Paths!In
  <1>6. CASE onHost.os = "darwin"
    <2>1. ~Paths!IsFlatpak(Paths!Exe)
      BY <1>6, ResolveIs
    <2> QED BY <1>1, <1>2, <1>6, <2>1 DEF Paths!Pcsx2Saves, Paths!os, Paths!Exists, Paths!In
  <1> QED BY <1>4, <1>5, <1>6 DEF HostOK

\* Where the saves of Azahar are looked for; last, on a Mac, next to the
\* directory of a configuration in the home.
DotSaves == IF <<"dotConfig", "sdmc">> \in dirs THEN <<"dotConfig", "sdmc">> ELSE Paths!NoPath
AzaharLooks ==
  /\ onHost.os = "linux" =>
       Paths!SaveRoot = IF Paths!IsFlatpak(Paths!Exe)
                        THEN IF <<"flat", "sdmc">> \in dirs THEN <<"flat", "sdmc">> ELSE Paths!NoPath
                        ELSE IF <<"native", "sdmc">> \in dirs THEN <<"native", "sdmc">> ELSE Paths!NoPath
  /\ onHost.os = "nt" =>
       Paths!SaveRoot = IF <<"appdata", "sdmc">> \in dirs THEN <<"appdata", "sdmc">> ELSE Paths!NoPath
  /\ onHost.os = "darwin" =>
       Paths!SaveRoot = IF <<"support", "">> \in dirs /\ <<"xdg", "">> \notin dirs
                        THEN IF <<"support", "sdmc">> \in dirs THEN <<"support", "sdmc">>
                             ELSE IF <<"xdg", "sdmc">> \in dirs THEN <<"xdg", "sdmc">> ELSE DotSaves
                        ELSE IF <<"xdg", "sdmc">> \in dirs THEN <<"xdg", "sdmc">>
                             ELSE IF <<"support", "sdmc">> \in dirs THEN <<"support", "sdmc">> ELSE DotSaves

\* One more root after two.
LEMMA TripleIs ==
  ASSUME NEW S, NEW x \in S, NEW y \in S, NEW z \in S
  PROVE  <<x, y>> \o <<z>> = <<x, y, z>>
  <1>1. <<x, y>> \in Seq(S) /\ Len(<<x, y>>) = 2 /\ <<x, y>>[1] = x /\ <<x, y>>[2] = y
    OBVIOUS
  <1>2. <<z>> \in Seq(S) /\ Len(<<z>>) = 1 /\ <<z>>[1] = z
    OBVIOUS
  <1>3. /\ <<x, y, z>> \in Seq(S) /\ Len(<<x, y, z>>) = 3
        /\ <<x, y, z>>[1] = x /\ <<x, y, z>>[2] = y /\ <<x, y, z>>[3] = z
    OBVIOUS
  <1>4. PICK s, r, u : s = <<x, y>> /\ r = <<z>> /\ u = <<x, y, z>>
    OBVIOUS
  <1>5. s \in Seq(S) /\ r \in Seq(S) /\ u \in Seq(S) /\ Len(u) = Len(s) + Len(r)
    BY <1>1, <1>2, <1>3, <1>4
  <1>6. \A i \in 1 .. Len(s) : u[i] = s[i]
    BY <1>1, <1>3, <1>4
  <1>7. \A i \in 1 .. Len(r) : r[i] = u[i + Len(s)]
    BY <1>1, <1>2, <1>3, <1>4
  <1> QED BY <1>4, <1>5, <1>6, <1>7, JoinedIs

LEMMA AzaharSavesAre ==
  ASSUME HostOK, onHost.emu = "azahar"
  PROVE  AzaharLooks
  <1> USE DEF AzaharLooks
  <1>1. Paths!SaveRoot = Paths!AzaharSaves
    BY DEF Paths!SaveRoot, Paths!emu
  <1>2. \A a \in {"flat", "native", "appdata"} :
          Paths!FirstExisting(<<a>>, "sdmc") = IF <<a, "sdmc">> \in dirs THEN <<a, "sdmc">> ELSE Paths!NoPath
    BY Existing1 DEF Paths!Roots
  <1>3. Paths!FirstExisting(Paths!MacRoots("xdg", "support") \o <<"dotConfig">>, "sdmc") =
          IF <<"support", "">> \in dirs /\ <<"xdg", "">> \notin dirs
          THEN IF <<"support", "sdmc">> \in dirs THEN <<"support", "sdmc">>
               ELSE IF <<"xdg", "sdmc">> \in dirs THEN <<"xdg", "sdmc">> ELSE DotSaves
          ELSE IF <<"xdg", "sdmc">> \in dirs THEN <<"xdg", "sdmc">>
               ELSE IF <<"support", "sdmc">> \in dirs THEN <<"support", "sdmc">> ELSE DotSaves
    <2>1. PICK a \in Paths!Roots, b \in Paths!Roots, c \in Paths!Roots :
            a = "xdg" /\ b = "support" /\ c = "dotConfig"
      BY DEF Paths!Roots
    <2>2. Paths!MacRoots(a, b) \o <<c>> =
            IF <<b, "">> \in dirs /\ <<a, "">> \notin dirs THEN <<b, a, c>> ELSE <<a, b, c>>
      <3>1. \A x, y \in Paths!Roots : <<x, y>> \o <<c>> = <<x, y, c>>
        BY TripleIs
      <3> QED BY ONLY <3>1, MacRootsAre, a \in Paths!Roots, b \in Paths!Roots
    <2>3. DotSaves = IF <<c, "sdmc">> \in dirs THEN <<c, "sdmc">> ELSE Paths!NoPath
      BY <2>1 DEF DotSaves
    <2>4. PICK sub : sub = "sdmc"
      OBVIOUS
    <2>5. Paths!FirstExisting(<<a, b, c>>, sub) =
            IF <<a, sub>> \in dirs THEN <<a, sub>>
            ELSE IF <<b, sub>> \in dirs THEN <<b, sub>>
            ELSE IF <<c, sub>> \in dirs THEN <<c, sub>> ELSE Paths!NoPath
      BY Existing3
    <2>6. Paths!FirstExisting(<<b, a, c>>, sub) =
            IF <<b, sub>> \in dirs THEN <<b, sub>>
            ELSE IF <<a, sub>> \in dirs THEN <<a, sub>>
            ELSE IF <<c, sub>> \in dirs THEN <<c, sub>> ELSE Paths!NoPath
      BY Existing3
    <2>7. Paths!FirstExisting(Paths!MacRoots(a, b) \o <<c>>, sub) =
            IF <<b, "">> \in dirs /\ <<a, "">> \notin dirs
            THEN Paths!FirstExisting(<<b, a, c>>, sub) ELSE Paths!FirstExisting(<<a, b, c>>, sub)
      BY ONLY <2>2
    <2> QED BY ONLY <2>1, <2>3, <2>4, <2>5, <2>6, <2>7
  <1>4. onHost.os # "linux" => ~Paths!IsFlatpak(Paths!Exe)
    BY ResolveIs
  <1> QED BY <1>1, <1>2, <1>3, <1>4 DEF HostOK, Paths!AzaharSaves, Paths!os

\* Where Dolphin's data are looked for, and the root the shortcut passes to it.
LEMMA DolphinRootsAre ==
  ASSUME HostOK, onHost.emu = "dolphin"
  PROVE  /\ Paths!DolphinData \in Paths!Roots \cup {"none"}
         /\ Paths!SaveRoot = IF Paths!DolphinData # "none" /\ <<Paths!DolphinData, "GC">> \in dirs
                             THEN <<Paths!DolphinData, "GC">> ELSE Paths!NoPath
         /\ Paths!DolphinUser \in Paths!Roots \ {"dotConfig"}
  <1>1. Paths!DolphinData \in Paths!Roots \cup {"none"}
    <2>1. CASE Paths!IsFlatpak(Paths!Exe)
      <3>1. Paths!DolphinData = Paths!FirstIn(<<"flat">>, Paths!Having(""), "none")
        BY <2>1 DEF Paths!DolphinData
      <3>2. Paths!DolphinData \in {"flat", "none"}
        BY <3>1, First1
      <3> QED BY <3>2 DEF Paths!Roots
    <2>2. CASE ~Paths!IsFlatpak(Paths!Exe) /\ onHost.os = "linux"
      <3>1. Paths!DolphinData = Paths!FirstIn(<<"native", "flat">>, Paths!Having(""), "none")
        BY <2>2 DEF Paths!DolphinData, Paths!os
      <3>2. Paths!DolphinData = IF "native" \in Paths!Having("") THEN "native"
                                ELSE IF "flat" \in Paths!Having("") THEN "flat" ELSE "none"
        <4>1. \A S, o : Paths!FirstIn(<<"native", "flat">>, S, o) =
                         IF "native" \in S THEN "native" ELSE IF "flat" \in S THEN "flat" ELSE o
          BY First2
        <4> QED BY <3>1, <4>1
      <3> QED BY <3>2 DEF Paths!Roots
    <2>3. CASE ~Paths!IsFlatpak(Paths!Exe) /\ onHost.os = "nt"
      <3>1. \A S, o : Paths!FirstIn(Paths!DolphinNtRoots, S, o) \in Paths!Roots \cup {o}
        BY First2, First3 DEF Paths!DolphinNtRoots, Paths!Roots
      <3> QED BY <2>3, <3>1 DEF Paths!DolphinData, Paths!os
    <2>4. CASE ~Paths!IsFlatpak(Paths!Exe) /\ onHost.os = "darwin"
      <3>1. PICK a \in Paths!Roots, b \in Paths!Roots : a = "xdg" /\ b = "support"
        BY DEF Paths!Roots
      <3>2. Paths!FirstIn(Paths!MacRoots(a, b), Paths!Having(""), "none") =
              MacFirst(a, b, <<a, "">> \in dirs, <<b, "">> \in dirs, "none")
        <4>1. PICK o, sub : o = "none" /\ sub = ""
          OBVIOUS
        <4>2. Paths!FirstIn(Paths!MacRoots(a, b), Paths!Having(sub), o) =
                MacFirst(a, b, <<a, sub>> \in dirs, <<b, sub>> \in dirs, o)
          BY MacFound
        <4> QED BY <4>1, <4>2
      <3> QED BY <2>4, <3>1, <3>2 DEF MacFirst, Paths!DolphinData, Paths!os, Paths!Roots
    <2> QED BY <2>1, <2>2, <2>3, <2>4 DEF HostOK
  <1>2. Paths!SaveRoot = IF Paths!DolphinData # "none" /\ <<Paths!DolphinData, "GC">> \in dirs
                         THEN <<Paths!DolphinData, "GC">> ELSE Paths!NoPath
    <2>1. Paths!SaveRoot = Paths!FirstExisting(<<Paths!DolphinData>>, "GC")
      BY DEF Paths!SaveRoot, Paths!emu
    <2>2. CASE Paths!DolphinData = "none"
      <3>1. Paths!FirstIn(<<"none">>, Paths!Having("GC"), "none") = "none"
        BY First1
      <3> QED BY <2>1, <2>2, <3>1 DEF Paths!FirstExisting
    <2>3. CASE Paths!DolphinData \in Paths!Roots
      <3>1. "none" \notin Paths!Roots
        BY DEF Paths!Roots
      <3> QED BY <2>1, <2>3, <3>1, Existing1
    <2> QED BY <1>1, <2>2, <2>3
  <1>3. Paths!DolphinUser \in Paths!Roots \ {"dotConfig"}
    <2>1. CASE onHost.override
      BY <2>1 DEF Paths!DolphinUser, Paths!Roots
    <2>2. CASE ~onHost.override /\ onHost.os = "linux"
      BY <2>2 DEF Paths!DolphinUser, Paths!Roots, Paths!os
    <2>3. CASE ~onHost.override /\ onHost.os = "nt"
      <3>1. \A S, o : Paths!FirstIn(Paths!DolphinNtRoots, S, o) \in (Paths!Roots \ {"dotConfig"}) \cup {o}
        BY First2, First3 DEF Paths!DolphinNtRoots, Paths!Roots
      <3>2. Paths!DolphinNtRoots[1] \in Paths!Roots \ {"dotConfig"}
        BY DEF Paths!DolphinNtRoots, Paths!Roots
      <3>3. Paths!DolphinUser =
              IF Paths!Exe = "local" THEN "exeDir"
              ELSE Paths!FirstIn(Paths!DolphinNtRoots, Paths!Having("Config"),
                     Paths!FirstIn(Paths!DolphinNtRoots, Paths!Having(""), Paths!DolphinNtRoots[1]))
        BY <2>3 DEF Paths!DolphinUser, Paths!os
      <3>4. "exeDir" \in Paths!Roots \ {"dotConfig"}
        BY DEF Paths!Roots
      <3>5. PICK o \in Paths!Roots \ {"dotConfig"} : o = Paths!FirstIn(Paths!DolphinNtRoots, Paths!Having(""), Paths!DolphinNtRoots[1])
        BY <3>1, <3>2
      <3>6. Paths!FirstIn(Paths!DolphinNtRoots, Paths!Having("Config"), o) \in Paths!Roots \ {"dotConfig"}
        BY <3>1
      <3> QED BY <3>3, <3>4, <3>5, <3>6
    <2>4. CASE ~onHost.override /\ onHost.os = "darwin"
      <3>1. PICK a \in Paths!Roots, b \in Paths!Roots : a = "xdg" /\ b = "support"
        BY DEF Paths!Roots
      <3>2. Paths!FirstIn(Paths!MacRoots(a, b), Paths!Having(""), "support") =
              MacFirst(a, b, <<a, "">> \in dirs, <<b, "">> \in dirs, "support")
        <4>1. PICK o, sub : o = "support" /\ sub = ""
          OBVIOUS
        <4>2. Paths!FirstIn(Paths!MacRoots(a, b), Paths!Having(sub), o) =
                MacFirst(a, b, <<a, sub>> \in dirs, <<b, sub>> \in dirs, o)
          BY MacFound
        <4> QED BY <4>1, <4>2
      <3> QED BY <2>4, <3>1, <3>2 DEF MacFirst, Paths!DolphinUser, Paths!os, Paths!Roots
    <2> QED BY <2>1, <2>2, <2>3, <2>4 DEF HostOK
  <1> QED BY <1>1, <1>2, <1>3
\* Where Dolphin's data and its user directory are on each system.
LEMMA DolphinOnLinux ==
  ASSUME HostOK, onHost.emu = "dolphin", onHost.os = "linux"
  PROVE  /\ Paths!DolphinData =
              IF Paths!IsFlatpak(Paths!Exe) THEN IF <<"flat", "">> \in dirs THEN "flat" ELSE "none"
              ELSE IF <<"native", "">> \in dirs THEN "native"
              ELSE IF <<"flat", "">> \in dirs THEN "flat" ELSE "none"
         /\ ~onHost.override =>
              Paths!DolphinUser = IF <<"flat", "">> \in dirs \/ <<"flatConfig", "">> \in dirs \/ Paths!IsFlatpak(Paths!Exe)
                                  THEN "flat" ELSE "native"
  <1>1. Paths!IsThere("exportUser") \/ Paths!IsThere("exportSystem") <=> Paths!IsFlatpak(Paths!Exe)
    <2>1. Paths!Exe # "missing" => Paths!IsThere(Paths!Exe)
      BY ResolveIs DEF Paths!Exe
    <2> QED BY <2>1, ResolveIs DEF Paths!IsFlatpak
  <1>2. "flat" \in Paths!Roots /\ "native" \in Paths!Roots
    BY DEF Paths!Roots
  <1>3. CASE Paths!IsFlatpak(Paths!Exe)
    <2>1. Paths!DolphinData = Paths!FirstIn(<<"flat">>, Paths!Having(""), "none")
      BY <1>3 DEF Paths!DolphinData
    <2>2. Paths!DolphinData = IF <<"flat", "">> \in dirs THEN "flat" ELSE "none"
      BY <1>2, <2>1, First1, HavingIs
    <2> QED BY <1>1, <1>3, <2>2 DEF Paths!DolphinUser, Paths!os, Paths!Exists, Paths!In
  <1>4. CASE ~Paths!IsFlatpak(Paths!Exe)
    <2>1. Paths!DolphinData = Paths!FirstIn(<<"native", "flat">>, Paths!Having(""), "none")
      BY <1>4 DEF Paths!DolphinData, Paths!os
    <2>2. \A S, o : Paths!FirstIn(<<"native", "flat">>, S, o) =
                    IF "native" \in S THEN "native" ELSE IF "flat" \in S THEN "flat" ELSE o
      BY First2
    <2>3. \A r \in {"native", "flat"} : r \in Paths!Having("") <=> <<r, "">> \in dirs
      BY <1>2, HavingIs
    <2>4. Paths!DolphinData = IF <<"native", "">> \in dirs THEN "native"
                              ELSE IF <<"flat", "">> \in dirs THEN "flat" ELSE "none"
      BY <2>1, <2>2, <2>3
    <2> QED BY <1>1, <1>4, <2>4 DEF Paths!DolphinUser, Paths!os, Paths!Exists, Paths!In
  <1> QED BY <1>3, <1>4

LEMMA DolphinOnMac ==
  ASSUME HostOK, onHost.emu = "dolphin", onHost.os = "darwin"
  PROVE  /\ Paths!DolphinData =
              IF onHost.override /\ <<"override", "">> \in dirs THEN "override"
              ELSE MacFirst("xdg", "support", <<"xdg", "">> \in dirs, <<"support", "">> \in dirs, "none")
         /\ Paths!DolphinUser =
              IF onHost.override THEN "override"
              ELSE MacFirst("xdg", "support", <<"xdg", "">> \in dirs, <<"support", "">> \in dirs, "support")
  <1>0. PICK sub : sub = ""
    OBVIOUS
  <1>1. PICK a \in Paths!Roots, b \in Paths!Roots : a = "xdg" /\ b = "support"
    BY DEF Paths!Roots
  <1>2. \A o : Paths!FirstIn(Paths!MacRoots(a, b), Paths!Having(sub), o) =
               MacFirst(a, b, <<a, sub>> \in dirs, <<b, sub>> \in dirs, o)
    BY MacFound
  <1>3. ~Paths!IsFlatpak(Paths!Exe)
    BY ResolveIs
  <1> QED BY <1>0, <1>1, <1>2, <1>3 DEF Paths!DolphinData, Paths!DolphinUser, Paths!os, Paths!Exists, Paths!In

LEMMA DolphinOnWindows ==
  ASSUME HostOK, onHost.emu = "dolphin", onHost.os = "nt", ~onHost.override, Paths!Exe # "missing",
         \A r \in Paths!Roots : <<r, "Wii">> \notin dirs /\ (<<r, "GC">> \in dirs => <<r, "Config">> \in dirs),
         <<Paths!DolphinUser, "Config">> \in dirs
  PROVE  Paths!DolphinData = Paths!DolphinUser
  <1>1. PICK C : C = Paths!Having("Config")
    OBVIOUS
  <1>2. Paths!Having("Config") \cup Paths!Having("GC") \cup Paths!Having("Wii") = C
    BY <1>1 DEF Paths!Having, Paths!Exists, Paths!In
  <1>3. Paths!DolphinNtRoots = <<"exeDir", "documents", "appdata">>
    BY DEF Paths!DolphinNtRoots
  <1>4. \A S, o : Paths!FirstIn(Paths!DolphinNtRoots, S, o) =
                  IF "exeDir" \in S THEN "exeDir" ELSE IF "documents" \in S THEN "documents"
                  ELSE IF "appdata" \in S THEN "appdata" ELSE o
    BY <1>3, First3
  <1>5. PICK x : x = Paths!FirstIn(Paths!DolphinNtRoots, Paths!Having(""), "none")
    OBVIOUS
  <1>6. PICK y : y = Paths!FirstIn(Paths!DolphinNtRoots, Paths!Having(""), Paths!DolphinNtRoots[1])
    OBVIOUS
  <1>7. Paths!DolphinData = Paths!FirstIn(Paths!DolphinNtRoots, C, x)
    <2>1. ~Paths!IsFlatpak(Paths!Exe)
      BY ResolveIs
    <2> QED BY <1>2, <1>5, <2>1 DEF Paths!DolphinData, Paths!os
  <1>8. Paths!DolphinUser = IF Paths!Exe = "local" THEN "exeDir" ELSE Paths!FirstIn(Paths!DolphinNtRoots, C, y)
    BY <1>1, <1>6 DEF Paths!DolphinUser, Paths!os
  <1>9. Paths!DolphinUser \in {"exeDir", "documents", "appdata"}
    <2>1. Paths!DolphinNtRoots[1] = "exeDir"
      BY <1>3
    <2>2. y \in {"exeDir", "documents", "appdata"}
      BY <1>4, <1>6, <2>1
    <2> QED BY <1>4, <1>8, <2>2
  <1>10. Paths!DolphinUser \in C
    <2>1. Paths!DolphinUser \in Paths!Roots
      BY <1>9 DEF Paths!Roots
    <2> QED BY <1>1, <2>1 DEF Paths!Having, Paths!Exists, Paths!In
  <1> QED BY <1>4, <1>7, <1>8, <1>9, <1>10

\* The directories RetroArch's configurations name, and the first of them.
RetroArchFound ==
  {r \in Paths!RetroArchConfs(onHost.os = "darwin" /\ onHost.override) : Paths!RetroArchIn(r, "saves") \in dirs}
RetroArchDefault == Paths!FirstIn(Paths!RetroArchDefaults, Paths!Having("saves"), "none")

LEMMA RetroArchConfIs ==
  ASSUME HostOK, NEW ex \in BOOLEAN, NEW S \in SUBSET Paths!RetroArchConfs(ex), NEW o
  PROVE  /\ S # {} => Paths!RetroArchConf(S, o) \in S
         /\ S = {} => Paths!RetroArchConf(S, o) = o
  <1>1. CASE "override" \in S
    BY <1>1 DEF Paths!RetroArchConf
  <1>2. CASE "override" \notin S /\ onHost.os = "linux"
    <2>1. \A x \in S : x = "native" \/ x = "flat"
      BY <1>2 DEF Paths!RetroArchConfs, Paths!os
    <2>2. \/ Paths!RetroArchConf(S, o) = Paths!FirstIn(<<"flat", "native">>, S, o)
          \/ Paths!RetroArchConf(S, o) = Paths!FirstIn(<<"native", "flat">>, S, o)
      BY <1>2 DEF Paths!RetroArchConf, Paths!os
    <2> QED BY <2>1, <2>2, First2
  <1>3. CASE "override" \notin S /\ onHost.os = "nt"
    <2>1. \A x \in S : x = "exeDir" \/ x = "appdata"
      BY <1>3 DEF Paths!RetroArchConfs, Paths!os
    <2>2. Paths!RetroArchConf(S, o) = Paths!FirstIn(<<"exeDir", "appdata">>, S, o)
      BY <1>3 DEF Paths!RetroArchConf, Paths!os
    <2> QED BY <2>1, <2>2, First2
  <1>4. CASE "override" \notin S /\ onHost.os = "darwin"
    <2>1. \A x \in S : x \in {"documentsConfig", "supportConfig", "documents", "support"}
      BY <1>4 DEF Paths!RetroArchConfs, Paths!os
    <2>2. PICK a, b, c, d : /\ Paths!RetroArchConf(S, o) =
                                 Paths!FirstIn(<<a, b, c, d>>, S \cap Paths!WithConf, Paths!FirstIn(<<a, b, c, d>>, S, o))
                            /\ {a, b, c, d} = {"documentsConfig", "supportConfig", "documents", "support"}
      <3>1. \/ Paths!RetroArchConf(S, o) =
                 Paths!FirstIn(<<"documentsConfig", "supportConfig", "documents", "support">>, S \cap Paths!WithConf,
                   Paths!FirstIn(<<"documentsConfig", "supportConfig", "documents", "support">>, S, o))
            \/ Paths!RetroArchConf(S, o) =
                 Paths!FirstIn(<<"supportConfig", "documentsConfig", "support", "documents">>, S \cap Paths!WithConf,
                   Paths!FirstIn(<<"supportConfig", "documentsConfig", "support", "documents">>, S, o))
        BY <1>4 DEF Paths!RetroArchConf, Paths!os
      <3> DEFINE P(a, b, c, d) ==
                   /\ Paths!RetroArchConf(S, o) =
                        Paths!FirstIn(<<a, b, c, d>>, S \cap Paths!WithConf, Paths!FirstIn(<<a, b, c, d>>, S, o))
                   /\ {a, b, c, d} = {"documentsConfig", "supportConfig", "documents", "support"}
      <3>2. {"supportConfig", "documentsConfig", "support", "documents"} =
              {"documentsConfig", "supportConfig", "documents", "support"}
        OBVIOUS
      <3>3. \/ P("documentsConfig", "supportConfig", "documents", "support")
            \/ P("supportConfig", "documentsConfig", "support", "documents")
        BY <3>1, <3>2, Zenon
      <3> HIDE DEF P
      <3>4. \E a, b, c, d : P(a, b, c, d)
        BY <3>3, Zenon
      <3> QED BY <3>4, Zenon DEF P
    <2>3. PICK x : x = Paths!FirstIn(<<a, b, c, d>>, S, o)
      OBVIOUS
    <2>4. x = IF a \in S THEN a ELSE IF b \in S THEN b ELSE IF c \in S THEN c ELSE IF d \in S THEN d ELSE o
      BY <2>3, First4
    <2>5. PICK T : T = S \cap Paths!WithConf
      OBVIOUS
    <2>6. Paths!RetroArchConf(S, o) =
            IF a \in T THEN a ELSE IF b \in T THEN b ELSE IF c \in T THEN c ELSE IF d \in T THEN d ELSE x
      BY <2>2, <2>3, <2>5, First4
    <2> QED BY <2>1, <2>2, <2>4, <2>5, <2>6
  <1> QED BY <1>1, <1>2, <1>3, <1>4 DEF HostOK

RetroArchDefaultLooks ==
  /\ onHost.os = "linux" => RetroArchDefault = IF <<"native", "saves">> \in dirs THEN "native" ELSE "none"
  /\ onHost.os = "nt" => RetroArchDefault = IF <<"appdata", "saves">> \in dirs THEN "appdata" ELSE "none"
  /\ onHost.os = "darwin" =>
       RetroArchDefault = MacFirst("documents", "support", <<"documents", "saves">> \in dirs,
                                   <<"support", "saves">> \in dirs, "none")
  /\ RetroArchDefault = "none" => <<Paths!RetroArchDefaults[1], "saves">> \notin dirs
  /\ Paths!RetroArchDefaults[1] # "none"
LEMMA RetroArchDefaultIs ==
  ASSUME HostOK
  PROVE  RetroArchDefaultLooks
  <1> USE DEF RetroArchDefaultLooks
  <1>1. CASE onHost.os = "linux"
    <2>1. Paths!RetroArchDefaults = <<"native">> /\ <<"native">>[1] = "native" /\ "native" \in Paths!Roots
      BY <1>1 DEF Paths!RetroArchDefaults, Paths!os, Paths!Roots
    <2> QED BY <1>1, <2>1, First1, HavingIs DEF RetroArchDefault
  <1>2. CASE onHost.os = "nt"
    <2>1. Paths!RetroArchDefaults = <<"appdata">> /\ <<"appdata">>[1] = "appdata" /\ "appdata" \in Paths!Roots
      BY <1>2 DEF Paths!RetroArchDefaults, Paths!os, Paths!Roots
    <2> QED BY <1>2, <2>1, First1, HavingIs DEF RetroArchDefault
  <1>3. CASE onHost.os = "darwin"
    <2>0. PICK sub, o : sub = "saves" /\ o = "none"
      OBVIOUS
    <2>1. PICK a \in Paths!Roots, b \in Paths!Roots : a = "documents" /\ b = "support"
      BY DEF Paths!Roots
    <2>2. Paths!RetroArchDefaults = Paths!MacRoots(a, b)
      BY <1>3, <2>1 DEF Paths!RetroArchDefaults, Paths!os
    <2>3. RetroArchDefault = MacFirst(a, b, <<a, sub>> \in dirs, <<b, sub>> \in dirs, o)
      BY <2>0, <2>2, MacFound DEF RetroArchDefault
    <2>4. Paths!RetroArchDefaults[1] = IF <<b, "">> \in dirs /\ <<a, "">> \notin dirs THEN b ELSE a
      BY <2>2, MacRootsAre
    <2> QED BY <1>3, <2>0, <2>1, <2>3, <2>4 DEF MacFirst
  <1> QED BY <1>1, <1>2, <1>3 DEF HostOK

RetroArchLooks ==
  /\ Paths!IsFlatpak(Paths!Exe) => Paths!SaveRoot = <<"flat", "saves">>
  /\ ~Paths!IsFlatpak(Paths!Exe) /\ RetroArchFound # {} =>
       Paths!SaveRoot = Paths!RetroArchIn(Paths!RetroArchConf(RetroArchFound, "none"), "saves")
  /\ ~Paths!IsFlatpak(Paths!Exe) /\ RetroArchFound = {} /\ RetroArchDefault # "none" =>
       Paths!SaveRoot = <<RetroArchDefault, "saves">>
  /\ ~Paths!IsFlatpak(Paths!Exe) /\ Paths!SaveRoot \in dirs =>
       RetroArchFound # {} \/ RetroArchDefault # "none"
  /\ Paths!SaveRoot[1] # "none"
LEMMA RetroArchSavesAre ==
  ASSUME HostOK, onHost.emu = "retroarch"
  PROVE  RetroArchLooks
  <1> USE DEF RetroArchLooks
  <1> DEFINE ex == onHost.os = "darwin" /\ onHost.override
             cs == Paths!RetroArchConfs(ex)
             written == Paths!RetroArchConf(cs \cap Paths!WithConf, "none")
             f == Paths!RetroArchConf(RetroArchFound, "none")
  <1>1. Paths!SaveRoot =
          IF Paths!IsFlatpak(Paths!Exe) THEN <<"flat", "saves">>
          ELSE IF f # "none" THEN Paths!RetroArchIn(f, "saves")
          ELSE IF RetroArchDefault # "none" THEN <<RetroArchDefault, "saves">>
          ELSE IF written # "none" THEN Paths!RetroArchIn(written, "saves")
          ELSE <<Paths!RetroArchDefaults[1], "saves">>
    BY DEF Paths!SaveRoot, Paths!RetroArchSaves, Paths!emu, Paths!os, RetroArchFound, RetroArchDefault,
      Paths!Exists, Paths!In
  <1>2. \A r \in cs : r # "none" /\ r # "custom" /\ Paths!RootOf(r) # "none"
    BY DEF HostOK, Paths!RetroArchConfs, Paths!os, Paths!RootOf
  <1>3. ex \in BOOLEAN /\ RetroArchFound \in SUBSET cs /\ cs \cap Paths!WithConf \in SUBSET cs
    BY DEF RetroArchFound
  <1>4. RetroArchFound # {} => f \in RetroArchFound
    <2> HIDE DEF ex
    <2> QED BY <1>3, RetroArchConfIs
  <1>5. RetroArchFound = {} => f = "none"
    <2> HIDE DEF ex
    <2> QED BY <1>3, RetroArchConfIs
  <1>6. written \in cs \/ written = "none"
    <2> HIDE DEF ex
    <2> QED BY <1>3, RetroArchConfIs
  <1>7. RetroArchDefault = "none" => <<Paths!RetroArchDefaults[1], "saves">> \notin dirs
    BY RetroArchDefaultIs DEF RetroArchDefaultLooks
  <1>9. \A r \in cs : Paths!RetroArchIn(r, "saves")[1] # "none"
    BY <1>2 DEF Paths!RetroArchIn, Paths!In
  <1>10. Paths!RetroArchDefaults[1] # "none"
    BY RetroArchDefaultIs DEF RetroArchDefaultLooks
  <1>11. \A r \in cs : r \notin RetroArchFound => Paths!RetroArchIn(r, "saves") \notin dirs
    BY DEF RetroArchFound
  <1> HIDE DEF ex, cs, written, f
  <1>12. RetroArchFound # {} => f # "none"
    BY <1>2, <1>3, <1>4
  <1>13. Paths!SaveRoot[1] # "none"
    BY <1>1, <1>2, <1>3, <1>4, <1>5, <1>6, <1>9, <1>10
  <1>14. ASSUME ~Paths!IsFlatpak(Paths!Exe), Paths!SaveRoot \in dirs, RetroArchFound = {}, RetroArchDefault = "none"
         PROVE  FALSE
    BY <1>1, <1>5, <1>6, <1>7, <1>11, <1>14
  <1> QED BY <1>1, <1>5, <1>12, <1>13, <1>14 DEF f

\* The paths of a host: what is known of its directories and configurations.
WrittenHere ==
  LET rt == Paths!ReadsConf(shortcut.exe, shortcut.user)
  IN  /\ Paths!IsThere(shortcut.exe)
      /\ onHost.os = "linux" \/ onHost.emu = "dolphin"
      /\ wrote = Paths!WritesSaves(shortcut.exe, shortcut.user) /\ wrote \in dirs
      /\ <<rt, "Config">> \in dirs
      /\ rt \in Paths!ConfRoots => conf[rt] # "absent"
DolphinKnown ==
  /\ \A r \in Paths!Roots : <<r, "Wii">> \notin dirs /\ (<<r, "GC">> \in dirs => <<r, "Config">> \in dirs)
  /\ shortcut = Paths!NoShortcut => \A r \in Paths!Roots : <<r, "GC">> \notin dirs
  /\ shortcut # Paths!NoShortcut =>
       /\ shortcut.user \in Paths!Roots
       /\ <<shortcut.user, "GC">> \in dirs /\ <<shortcut.user, "Config">> \in dirs
       /\ onHost.os = "linux" /\ ~onHost.override =>
            \E r \in {"flatConfig", "nativeConfig", "native"} : <<r, "">> \in dirs
PathsInv ==
  /\ PathsTyped
  /\ wrote # Paths!NoPath => WrittenHere
  /\ onHost.emu = "dolphin" => DolphinKnown
  /\ onHost.emu # "retroarch" => \A r \in Paths!ConfRoots : conf[r] # "absent" => <<r, "">> \in dirs
  /\ onHost.emu = "retroarch" /\ onHost.os = "darwin" =>
       \A r \in {"documents", "documentsConfig"} : conf[r] = "plain" => <<"documents", "">> \in dirs

\* What the emulator wrote, GameHub finds.
LEMMA SavesSeen ==
  ASSUME PathsInv
  PROVE  Paths!SavesAreSeen
  <1> SUFFICES ASSUME wrote # Paths!NoPath, shortcut = Paths!Wanted, byPath = FALSE,
                      ~(onHost.override /\ onHost.os # "darwin"), ~Paths!Leftover,
                      ~(/\ onHost.emu \in {"pcsx2", "retroarch"} /\ Paths!Moved(Paths!Exe)
                        /\ Paths!IsFlatpak(Paths!Exe) \/ onHost.emu = "pcsx2")
               PROVE  Paths!SaveRoot = wrote
    BY DEF Paths!SavesAreSeen, Paths!os, Paths!emu, PathsInv, PathsTyped
  <1>1. HostOK /\ WrittenHere
    BY DEF PathsInv, PathsTyped
  <1>2. /\ shortcut.exe = Paths!Exe
        /\ shortcut.user = IF onHost.emu = "dolphin" THEN Paths!DolphinUser ELSE "none"
    BY DEF Paths!Wanted, Paths!Exe, Paths!emu
  <1>3. wrote = Paths!WritesSaves(Paths!Exe, shortcut.user) /\ wrote \in dirs
    BY <1>1, <1>2 DEF WrittenHere
  <1>4. Paths!Exe # "missing"
    BY <1>1, <1>2, RunsIfThere DEF WrittenHere
  <1>5. CASE onHost.emu = "dolphin"
    <2>1. wrote = <<Paths!DolphinUser, "GC">> /\ <<Paths!DolphinUser, "GC">> \in dirs
      BY <1>2, <1>3, <1>5 DEF Paths!WritesSaves, Paths!emu, Paths!In
    <2>2. <<Paths!DolphinUser, "Config">> \in dirs
      BY <1>1, <1>2, <1>5 DEF WrittenHere, Paths!ReadsConf, Paths!emu
    <2>3. <<Paths!DolphinUser, "">> \in dirs
      <3>1. PICK d \in dirs : d = <<Paths!DolphinUser, "GC">>
        BY <2>1
      <3>2. d[1] = Paths!DolphinUser
        BY <3>1
      <3> QED BY <3>2 DEF PathsInv, PathsTyped
    <2>4. Paths!DolphinData = Paths!DolphinUser
      <3>1. CASE onHost.os = "linux"
        <4>1. ~Paths!IsFlatpak(Paths!Exe) => <<"flat", "">> \notin dirs /\ <<"flatConfig", "">> \notin dirs
          BY <3>1 DEF Paths!Leftover, Paths!os, Paths!Exists, Paths!In
        <4> QED BY <1>1, <1>5, <2>3, <3>1, <4>1, DolphinOnLinux
      <3>2. CASE onHost.os = "nt"
        <4>1. \A r \in Paths!Roots : <<r, "Wii">> \notin dirs /\ (<<r, "GC">> \in dirs => <<r, "Config">> \in dirs)
          BY <1>5 DEF PathsInv, DolphinKnown
        <4> QED BY <1>1, <1>4, <1>5, <2>2, <3>2, <4>1, DolphinOnWindows
      <3>3. CASE onHost.os = "darwin"
        BY <1>1, <1>5, <2>3, <3>3, DolphinOnMac DEF MacFirst
      <3> QED BY <1>1, <3>1, <3>2, <3>3 DEF HostOK
    <2>5. Paths!DolphinUser # "none"
      BY <1>1, <1>5, DolphinRootsAre DEF Paths!Roots
    <2> QED BY <1>1, <1>5, <2>1, <2>4, <2>5, DolphinRootsAre
  <1>6. CASE onHost.emu # "dolphin"
    <2>0. onHost.os = "linux"
      BY <1>1, <1>6 DEF WrittenHere
    <2> DEFINE a == IF Paths!IsFlatpak(Paths!Exe) THEN "flat" ELSE "native"
    <2>1. Paths!OwnRoot(Paths!Exe) = a
      BY DEF Paths!OwnRoot
    <2>2. CASE onHost.emu = "pcsx2"
      <3>1. wrote = <<a, "memcards">>
        BY <1>3, <2>1, <2>2 DEF Paths!WritesSaves, Paths!emu, Paths!In, Paths!SavePart
      <3> QED BY <1>1, <1>3, <2>0, <2>2, <3>1, Pcsx2SavesAre DEF Pcsx2Looks
    <2>3. CASE onHost.emu = "azahar"
      <3>1. wrote = <<a, "sdmc">>
        BY <1>3, <2>1, <2>3 DEF Paths!WritesSaves, Paths!emu, Paths!In, Paths!SavePart
      <3> QED BY <1>1, <1>3, <2>0, <2>3, <3>1, AzaharSavesAre DEF AzaharLooks
    <2>4. CASE onHost.emu = "retroarch" /\ Paths!IsFlatpak(Paths!Exe)
      <3>1. wrote = <<"flat", "saves">>
        BY <1>3, <2>1, <2>4 DEF Paths!WritesSaves, Paths!emu, Paths!In, Paths!SavePart
      <3> QED BY <1>1, <2>4, <3>1, RetroArchSavesAre DEF RetroArchLooks
    <2>5. CASE onHost.emu = "retroarch" /\ ~Paths!IsFlatpak(Paths!Exe)
      <3>1. wrote = Paths!RetroArchIn("native", "saves")
        BY <1>3, <2>1, <2>5 DEF Paths!WritesSaves, Paths!emu, Paths!In, Paths!SavePart, Paths!Moved,
          Paths!RetroArchIn, Paths!RootOf
      <3>2. "native" \in RetroArchFound /\ "override" \notin RetroArchFound
        BY <1>3, <2>0, <3>1 DEF RetroArchFound, Paths!RetroArchConfs, Paths!os
      <3>3. Paths!RetroArchConf(RetroArchFound, "none") = Paths!FirstIn(<<"native", "flat">>, RetroArchFound, "none")
        BY <2>0, <2>5, <3>2 DEF Paths!RetroArchConf, Paths!os
      <3>4. \A S, o : Paths!FirstIn(<<"native", "flat">>, S, o) =
                      IF "native" \in S THEN "native" ELSE IF "flat" \in S THEN "flat" ELSE o
        BY First2
      <3>5. Paths!RetroArchConf(RetroArchFound, "none") = "native"
        BY <3>2, <3>3, <3>4
      <3> QED BY <1>1, <2>5, <3>1, <3>2, <3>5, RetroArchSavesAre DEF RetroArchLooks
    <2> QED BY <1>1, <1>6, <2>2, <2>3, <2>4, <2>5 DEF HostOK
  <1> QED BY <1>5, <1>6

\* A sync configures what its shortcut starts.
LEMMA SyncWrites ==
  ASSUME PathsInv
  PROVE  Paths!SyncWritesRead
  <1> SUFFICES ASSUME Paths!Sync, onHost.os = "linux", ~onHost.override, shortcut'.exe # "own",
                      NEW read, read = Paths!ReadsConf(shortcut'.exe, shortcut'.user),
                      ~(onHost.emu # "dolphin" /\ ~Paths!HasConf(read)),
                      ~(onHost.emu = "azahar" /\ Paths!Leftover),
                      ~(onHost.emu = "pcsx2" /\ Paths!HasConf("documents"))
               PROVE  read \in synced'
    BY DEF Paths!SyncWritesRead, Paths!os, Paths!emu
  <1>1. HostOK
    BY DEF PathsInv, PathsTyped
  <1>2. synced' = Paths!Configured /\ shortcut' = Paths!Wanted
    BY DEF Paths!Sync
  <1>3. shortcut'.exe = Paths!Exe /\ (onHost.emu = "dolphin" => shortcut'.user = Paths!DolphinUser)
    <2>1. shortcut'.exe = Paths!Resolve(byPath)
      BY <1>2 DEF Paths!Wanted
    <2>2. byPath = TRUE => Paths!Resolve(TRUE) = Paths!Exe
      BY <1>1, <2>1, ResolveIs
    <2> QED BY <1>2, <2>1, <2>2 DEF Paths!Wanted, Paths!Exe, Paths!emu, PathsInv, PathsTyped
  <1>4. CASE onHost.emu = "dolphin"
    <2>1. read = Paths!DolphinUser
      BY <1>3, <1>4 DEF Paths!ReadsConf, Paths!emu
    <2>2. Paths!Configured = Paths!DolphinConfs
      BY <1>4 DEF Paths!Configured, Paths!emu
    <2> QED BY <1>2, <2>1, <2>2 DEF Paths!DolphinConfs
  <1>5. ASSUME onHost.emu # "dolphin"
        PROVE  /\ read = IF Paths!IsFlatpak(Paths!Exe) THEN "flat" ELSE "native"
               /\ Paths!HasConf(read)
    BY <1>3, <1>5 DEF Paths!ReadsConf, Paths!emu, Paths!OwnRoot
  <1>6. CASE onHost.emu = "pcsx2"
    <2>1. Paths!Configured = {Paths!Pcsx2Ini}
      BY <1>6 DEF Paths!Configured, Paths!emu
    <2>2. CASE Paths!IsFlatpak(Paths!Exe)
      BY <1>2, <1>5, <1>6, <2>1, <2>2 DEF Paths!Pcsx2Ini, Paths!os
    <2>3. CASE ~Paths!IsFlatpak(Paths!Exe)
      <3>1. Paths!Pcsx2Ini = Paths!FirstIn(<<"documents", "native", "flat">>, Paths!WithConf, "native")
        BY <2>3 DEF Paths!Pcsx2Ini, Paths!Pcsx2Inis, Paths!os
      <3>2. \A S, o : Paths!FirstIn(<<"documents", "native", "flat">>, S, o) =
                      IF "documents" \in S THEN "documents" ELSE IF "native" \in S THEN "native"
                      ELSE IF "flat" \in S THEN "flat" ELSE o
        BY First3
      <3>3. "documents" \notin Paths!WithConf
        BY <1>6 DEF Paths!WithConf
      <3>4. "native" \in Paths!WithConf
        BY <1>5, <1>6, <2>3 DEF Paths!WithConf, Paths!ConfRoots, Paths!os, Paths!emu
      <3> QED BY <1>2, <1>5, <1>6, <2>1, <2>3, <3>1, <3>2, <3>3, <3>4
    <2> QED BY <2>2, <2>3
  <1>7. CASE onHost.emu = "azahar"
    <2>1. Paths!Configured = {Paths!AzaharConf}
      BY <1>7 DEF Paths!Configured, Paths!emu
    <2>2. CASE Paths!IsFlatpak(Paths!Exe)
      BY <1>2, <1>5, <1>7, <2>1, <2>2 DEF Paths!AzaharConf, Paths!os
    <2>3. CASE ~Paths!IsFlatpak(Paths!Exe)
      <3>1. <<"flat", "">> \notin dirs
        BY <1>7, <2>3 DEF Paths!Leftover, Paths!os, Paths!Exists, Paths!In
      <3>2. ~Paths!HasConf("flat")
        <4>1. "flat" \in Paths!ConfRoots
          BY <1>7 DEF Paths!ConfRoots, Paths!os, Paths!emu
        <4> QED BY <1>7, <3>1, <4>1 DEF PathsInv, Paths!HasConf
      <3>3. ~Paths!IsThere("exportUser")
        <4>1. Paths!IsThere("exportUser") => Paths!Exe = "exportUser"
          BY <1>1, <1>7, ResolveIs
        <4> QED BY <2>3, <4>1 DEF Paths!IsFlatpak
      <3>4. Paths!AzaharConf = "native"
        BY <2>3, <3>1, <3>2, <3>3 DEF Paths!AzaharConf, Paths!os, Paths!Exists, Paths!In
      <3> QED BY <1>2, <1>5, <1>7, <2>1, <2>3, <3>4
    <2> QED BY <2>2, <2>3
  <1>8. CASE onHost.emu = "retroarch"
    <2>1. PICK cs : cs = Paths!RetroArchConfs(onHost.override /\ onHost.os # "nt")
      OBVIOUS
    <2>2. cs = {"native", "flat"}
      BY <2>1 DEF Paths!RetroArchConfs, Paths!os
    <2>3. Paths!Configured = {Paths!RetroArchConf(cs \cap Paths!WithConf, "none")} \ {"none"}
      BY <1>8, <2>1, <2>2 DEF Paths!Configured, Paths!os, Paths!emu
    <2>4. \A S, o : /\ Paths!FirstIn(<<"native", "flat">>, S, o) =
                         IF "native" \in S THEN "native" ELSE IF "flat" \in S THEN "flat" ELSE o
                    /\ Paths!FirstIn(<<"flat", "native">>, S, o) =
                         IF "flat" \in S THEN "flat" ELSE IF "native" \in S THEN "native" ELSE o
      BY First2
    <2>5. PICK S : S = cs \cap Paths!WithConf
      OBVIOUS
    <2>6. read \in S /\ "override" \notin S
      BY <1>5, <1>8, <2>2, <2>5 DEF Paths!WithConf, Paths!ConfRoots, Paths!os, Paths!emu
    <2>7. Paths!RetroArchConf(S, "none") =
            Paths!FirstIn(IF Paths!IsFlatpak(Paths!Exe) THEN <<"flat", "native">> ELSE <<"native", "flat">>, S, "none")
      BY <2>6 DEF Paths!RetroArchConf, Paths!os
    <2>8. Paths!RetroArchConf(S, "none") = read
      BY <1>5, <1>8, <2>4, <2>6, <2>7
    <2>9. read # "none"
      BY <1>5, <1>8
    <2> QED BY <1>2, <2>3, <2>5, <2>8, <2>9
  <1> QED BY <1>1, <1>4, <1>6, <1>7, <1>8 DEF HostOK
\* What is added to the directories brings its roots with it, and nothing else.
LEMMA Grown ==
  ASSUME NEW S, \A d \in S : d[1] # "none",
         \A d \in dirs : d[1] # "none" /\ <<d[1], "">> \in dirs,
         NEW T, T = Paths!WithRoots(dirs \cup S)
  PROVE  /\ \A d \in T : d[1] # "none" /\ <<d[1], "">> \in T
         /\ dirs \subseteq T /\ S \subseteq T
         /\ \A r, sub : sub # "" /\ <<r, sub>> \in T => <<r, sub>> \in dirs \/ <<r, sub>> \in S
         /\ \A r : <<r, "">> \in T => <<r, "">> \in dirs \/ \E e \in S : e[1] = r
  <1>1. \A d : d \in T <=> d \in dirs \/ d \in S \/ \E e \in dirs \cup S : d = <<e[1], "">>
    BY DEF Paths!WithRoots, Paths!In
  <1>2. \A r, sub : <<r, sub>>[1] = r /\ <<r, sub>>[2] = sub
    OBVIOUS
  <1>3. ASSUME NEW d \in T PROVE d[1] # "none" /\ <<d[1], "">> \in T
    <2>1. CASE d \in dirs \/ d \in S
      BY <1>1, <2>1
    <2>2. CASE \E e \in dirs \cup S : d = <<e[1], "">>
      <3>1. PICK e \in dirs \cup S : d = <<e[1], "">>
        BY <2>2
      <3>2. d[1] = e[1]
        BY <1>2, <3>1
      <3> QED BY <1>1, <3>1, <3>2
    <2> QED BY <1>1, <2>1, <2>2
  <1>4. ASSUME NEW r, NEW sub, sub # "", <<r, sub>> \in T PROVE <<r, sub>> \in dirs \/ <<r, sub>> \in S
    <2>1. \A e : <<r, sub>> # <<e[1], "">>
      BY <1>2, <1>4
    <2> QED BY <1>1, <1>4, <2>1
  <1>5. ASSUME NEW r, <<r, "">> \in T PROVE <<r, "">> \in dirs \/ \E e \in S : e[1] = r
    <2>1. CASE <<r, "">> \in S
      BY <1>2, <2>1
    <2>2. CASE \E e \in dirs \cup S : <<r, "">> = <<e[1], "">>
      <3>1. PICK e \in dirs \cup S : <<r, "">> = <<e[1], "">>
        BY <2>2
      <3>2. e[1] = r
        BY <1>2, <3>1
      <3> QED BY <3>1, <3>2
    <2> QED BY <1>1, <1>5, <2>1, <2>2
  <1> QED BY <1>1, <1>3, <1>4, <1>5

\* Of every emulator, the files a sync writes and the directories it needs.
LEMMA ConfiguredIs ==
  ASSUME HostOK, NEW f \in Paths!Configured
  PROVE  /\ f \in Paths!Roots \cup {"nativeConfig", "flatConfig", "xdgConfig",
                                "documentsConfig", "supportConfig"}
         /\ f \in Paths!ConfRoots \cup {"nativeConfig", "flatConfig", "exeDir", "documents",
                                        "appdata", "xdg", "support"}
         /\ f # "none"
         /\ onHost.emu = "retroarch" =>
              \/ f \in Paths!WithConf \/ f = "override"
              \/ /\ onHost.os = "darwin" /\ ~onHost.override
                 /\ Paths!RetroArchConfs(FALSE) \cap Paths!WithConf = {}
                 /\ f = IF Paths!MacRoots("documents", "support")[1] = "documents"
                        THEN "documentsConfig" ELSE "supportConfig"
  <1> DEFINE All == Paths!Roots \cup {"nativeConfig", "flatConfig", "xdgConfig",
                                "documentsConfig", "supportConfig"}
             Synced == Paths!ConfRoots \cup {"nativeConfig", "flatConfig", "exeDir", "documents",
                                             "appdata", "xdg", "support"}
  <1>1. CASE onHost.emu = "dolphin"
    <2>1. f \in Paths!DolphinConfs
      BY <1>1 DEF Paths!Configured, Paths!emu
    <2>2. f = Paths!DolphinUser \/ f \in {"override", "flatConfig", "nativeConfig", "native"}
      BY <2>1 DEF Paths!DolphinConfs
    <2>3. Paths!ConfRoots = {"override", "native", "flat"}
      BY <1>1 DEF Paths!ConfRoots, Paths!emu, Paths!os, HostOK
    <2> QED BY <1>1, <2>2, <2>3, DolphinRootsAre DEF Paths!Roots
  <1>2. CASE onHost.emu = "pcsx2"
    <2>1. f = Paths!Pcsx2Ini
      BY <1>2 DEF Paths!Configured, Paths!emu
    <2>2. CASE onHost.override
      <3>1. f = "override"
        BY <2>1, <2>2 DEF Paths!Pcsx2Ini
      <3> QED BY <1>2, <3>1 DEF Paths!Roots, Paths!ConfRoots
    <2>3. CASE ~onHost.override /\ onHost.os = "linux"
      <3>1. f = "flat" \/ f = Paths!FirstIn(<<"documents", "native", "flat">>, Paths!WithConf, "native")
        BY <2>1, <2>3 DEF Paths!Pcsx2Ini, Paths!Pcsx2Inis, Paths!os
      <3>2. \A S, o : Paths!FirstIn(<<"documents", "native", "flat">>, S, o) =
                      IF "documents" \in S THEN "documents" ELSE IF "native" \in S THEN "native"
                      ELSE IF "flat" \in S THEN "flat" ELSE o
        BY First3
      <3>3. f \in {"documents", "native", "flat"}
        BY <3>1, <3>2
      <3>4. {"documents", "native", "flat"} \subseteq Paths!ConfRoots
        BY <1>2, <2>3 DEF Paths!ConfRoots, Paths!os, Paths!emu
      <3> QED BY <1>2, <3>3, <3>4 DEF Paths!Roots
    <2>4. CASE ~onHost.override /\ onHost.os = "nt"
      <3>1. f = Paths!FirstIn(<<"documents", "appdata", "native">>, Paths!WithConf, <<"documents", "appdata", "native">>[1])
        BY <2>1, <2>4 DEF Paths!Pcsx2Ini, Paths!Pcsx2Inis, Paths!os
      <3>2. \A S, o : Paths!FirstIn(<<"documents", "appdata", "native">>, S, o) =
                      IF "documents" \in S THEN "documents" ELSE IF "appdata" \in S THEN "appdata"
                      ELSE IF "native" \in S THEN "native" ELSE o
        BY First3
      <3>3. f \in {"documents", "appdata", "native"}
        BY <3>1, <3>2
      <3>4. {"documents", "appdata", "native"} \subseteq Paths!ConfRoots
        BY <1>2, <2>4 DEF Paths!ConfRoots, Paths!os, Paths!emu
      <3> QED BY <1>2, <3>3, <3>4 DEF Paths!Roots
    <2>5. CASE ~onHost.override /\ onHost.os = "darwin"
      <3>1. f = Paths!FirstIn(<<"support">>, Paths!WithConf, <<"support">>[1])
        BY <2>1, <2>5 DEF Paths!Pcsx2Ini, Paths!Pcsx2Inis, Paths!os
      <3>2. \A S, o : Paths!FirstIn(<<"support">>, S, o) = IF "support" \in S THEN "support" ELSE o
        BY First1
      <3>3. f = "support"
        BY <3>1, <3>2
      <3> QED BY <1>2, <3>3 DEF Paths!Roots
    <2> QED BY <2>2, <2>3, <2>4, <2>5 DEF HostOK
  <1>3. CASE onHost.emu = "azahar"
    <2>1. f = Paths!AzaharConf
      BY <1>3 DEF Paths!Configured, Paths!emu
    <2>2. f \in {"native", "flat", "xdgConfig", "support"}
      <3>1. CASE onHost.os # "darwin"
        BY <2>1, <3>1 DEF Paths!AzaharConf, Paths!os, HostOK
      <3>2. CASE onHost.os = "darwin"
        <4>1. \A S, o : Paths!FirstIn(<<"xdgConfig", "support">>, S, o) =
                        IF "xdgConfig" \in S THEN "xdgConfig" ELSE IF "support" \in S THEN "support" ELSE o
          BY First2
        <4>2. PICK o : o = IF \/ Paths!Exists(Paths!In("xdgConfig", ""))
                            \/ Paths!Exists(Paths!In("xdg", ""))
                         THEN "xdgConfig" ELSE "support"
          OBVIOUS
        <4>3. f = Paths!FirstIn(<<"xdgConfig", "support">>, Paths!WithConf, o)
          BY <2>1, <3>2, <4>2 DEF Paths!AzaharConf, Paths!os
        <4> QED BY <4>1, <4>2, <4>3
      <3> QED BY <3>1, <3>2
    <2>3. f \in {"xdgConfig", "support"} \/ f \in Paths!ConfRoots
      <3>1. onHost.os # "darwin" => {"native", "flat"} \subseteq Paths!ConfRoots
        BY <1>3 DEF Paths!ConfRoots, Paths!os, Paths!emu, HostOK
      <3>2. ASSUME onHost.os = "darwin" PROVE f \in {"xdgConfig", "support"}
        <4>1. \A S, o : Paths!FirstIn(<<"xdgConfig", "support">>, S, o) =
                        IF "xdgConfig" \in S THEN "xdgConfig" ELSE IF "support" \in S THEN "support" ELSE o
          BY First2
        <4>2. PICK o : o = IF \/ Paths!Exists(Paths!In("xdgConfig", ""))
                            \/ Paths!Exists(Paths!In("xdg", ""))
                         THEN "xdgConfig" ELSE "support"
          OBVIOUS
        <4>3. f = Paths!FirstIn(<<"xdgConfig", "support">>, Paths!WithConf, o)
          BY <2>1, <3>2, <4>2 DEF Paths!AzaharConf, Paths!os
        <4> QED BY <4>1, <4>2, <4>3
      <3> QED BY <2>2, <3>1, <3>2
    <2>4. f \in All /\ f # "none"
      BY <2>2 DEF Paths!Roots
    <2>5. f = "xdgConfig" => "xdgConfig" \in Paths!ConfRoots
      <3>1. CASE onHost.os = "darwin"
        BY <1>3, <3>1 DEF Paths!ConfRoots, Paths!os, Paths!emu
      <3>2. CASE onHost.os # "darwin"
        BY <2>1, <3>2 DEF Paths!AzaharConf, Paths!os, HostOK
      <3> QED BY <3>1, <3>2
    <2>6. f \in Synced
      BY <2>3, <2>5
    <2> QED BY <1>3, <2>4, <2>6
  <1>4. CASE onHost.emu = "retroarch"
    <2> DEFINE ex == onHost.override /\ onHost.os # "nt"
    <2>1. PICK cs : cs = Paths!RetroArchConfs(ex)
      OBVIOUS
    <2>2. PICK c : c = IF onHost.os = "darwin" THEN Paths!RetroArchConf(cs, "none")
                       ELSE IF "override" \in cs THEN "override" ELSE "none"
      OBVIOUS
    <2>3. \/ f = "override"
          \/ /\ ~(onHost.os = "darwin" /\ onHost.override)
             /\ f = Paths!RetroArchConf(cs \cap Paths!WithConf, c) /\ f # "none"
      BY <1>4, <2>1, <2>2 DEF Paths!Configured, Paths!os, Paths!emu
    <2>4. cs \subseteq Paths!ConfRoots /\ cs \subseteq All
      BY <1>4, <2>1 DEF Paths!ConfRoots, Paths!RetroArchConfs, Paths!os, Paths!emu, Paths!Roots, HostOK
    <2>5. CASE cs \cap Paths!WithConf # {}
      <3>1. f = "override" \/ f \in cs \cap Paths!WithConf
        <4>1. cs \cap Paths!WithConf \in SUBSET Paths!RetroArchConfs(ex) /\ ex \in BOOLEAN
          BY <2>1
        <4> HIDE DEF ex
        <4> QED BY <2>3, <2>5, <4>1, RetroArchConfIs
      <3>2. "override" \in Paths!ConfRoots /\ "override" \in Paths!Roots
        BY DEF Paths!ConfRoots, Paths!Roots
      <3> QED BY <2>4, <3>1, <3>2 DEF Paths!Roots, HostOK
    <2>6. CASE cs \cap Paths!WithConf = {}
      <3>1. f = "override" \/ (~(onHost.os = "darwin" /\ onHost.override) /\ f = c /\ f # "none")
        <4>1. cs \cap Paths!WithConf \in SUBSET Paths!RetroArchConfs(ex) /\ ex \in BOOLEAN
          BY <2>1
        <4> HIDE DEF ex
        <4> QED BY <2>3, <2>6, <4>1, RetroArchConfIs
      <3>2. CASE f = "override"
        BY <3>2 DEF Paths!ConfRoots, Paths!Roots
      <3>3. CASE f # "override"
        <4>1. onHost.os = "darwin" /\ ~onHost.override /\ f = Paths!RetroArchConf(cs, "none")
          BY <2>2, <3>1, <3>3
        <4>2. cs = {"documentsConfig", "supportConfig", "documents", "support"}
          BY <2>1, <4>1 DEF Paths!RetroArchConfs, Paths!os
        <4>3. cs = Paths!RetroArchConfs(FALSE)
          BY <4>1, <4>2 DEF Paths!RetroArchConfs, Paths!os
        <4>4. PICK x : x = IF Paths!MacRoots("documents", "support")[1] = "documents"
                           THEN "documentsConfig" ELSE "supportConfig"
          OBVIOUS
        <4>5. PICK a, b, d, e :
                /\ <<a, b, d, e>> = IF Paths!MacRoots("documents", "support")[1] = "documents"
                                    THEN <<"documentsConfig", "supportConfig", "documents", "support">>
                                    ELSE <<"supportConfig", "documentsConfig", "support", "documents">>
                /\ a = x /\ a \in cs
          BY <4>2, <4>4
        <4>6. PICK y, W : y = Paths!FirstIn(<<a, b, d, e>>, cs, "none") /\ W = cs \cap Paths!WithConf
          OBVIOUS
        <4>7. f = Paths!FirstIn(<<a, b, d, e>>, W, y)
          BY <4>1, <4>2, <4>5, <4>6 DEF Paths!RetroArchConf, Paths!os
        <4>8. y = a
          BY <4>5, <4>6, First4
        <4>9. f = y
          BY <2>6, <4>6, <4>7, First4
        <4> QED BY <2>4, <2>6, <4>1, <4>3, <4>4, <4>5, <4>8, <4>9
      <3> QED BY <3>2, <3>3
    <2> QED BY <2>5, <2>6
  <1> QED BY <1>1, <1>2, <1>3, <1>4 DEF HostOK

LEMMA TargetsAre ==
  ASSUME HostOK
  PROVE  /\ \A d \in Paths!Targets : d[1] # "none"
         /\ onHost.emu = "retroarch" => \A d \in Paths!Targets : d[2] = "system"
         /\ onHost.emu = "retroarch" /\ onHost.os = "darwin" =>
              <<Paths!MacRoots("documents", "support")[1], "system">> \in Paths!Targets
         /\ onHost.emu = "dolphin" => Paths!Targets = {<<Paths!DolphinUser, "GC">>}
         /\ onHost.emu \in {"pcsx2", "azahar"} => Paths!Targets = {}
  <1>1. CASE onHost.emu = "dolphin"
    <2>1. Paths!Targets = {<<Paths!DolphinUser, "GC">>}
      BY <1>1 DEF Paths!Targets, Paths!emu, Paths!In
    <2>2. Paths!DolphinUser # "none"
      BY <1>1, DolphinRootsAre DEF Paths!Roots
    <2> QED BY <1>1, <2>1, <2>2
  <1>2. CASE onHost.emu \in {"pcsx2", "azahar"}
    BY <1>2 DEF Paths!Targets, Paths!emu
  <1>3. CASE onHost.emu = "retroarch"
    <2> DEFINE ex == onHost.override /\ onHost.os # "nt"
    <2>1. \A b \in BOOLEAN : \A r \in Paths!RetroArchConfs(b) : r # "none" /\ Paths!RootOf(r) # "none"
      BY DEF Paths!RetroArchConfs, Paths!os, Paths!RootOf, HostOK
    <2>2. Paths!MacRoots("documents", "support")[1] \in {"documents", "support"}
      <3>1. PICK a \in Paths!Roots, b \in Paths!Roots : a = "documents" /\ b = "support"
        BY DEF Paths!Roots
      <3>2. Paths!MacRoots(a, b)[1] = IF <<b, "">> \in dirs /\ <<a, "">> \notin dirs THEN b ELSE a
        BY MacRootsAre
      <3> QED BY <3>1, <3>2
    <2>3. PICK cs : cs = Paths!RetroArchConfs(ex)
      OBVIOUS
    <2>4. Paths!Targets =
            {<<IF conf[r] = "custom" THEN "custom" ELSE Paths!RootOf(r), "system">> : r \in cs \cap Paths!WithConf}
            \cup (IF onHost.override THEN {<<"override", "system">>} ELSE {})
            \cup CASE onHost.os = "nt" -> {<<r, "system">> : r \in Paths!RetroArchConfs(FALSE)}
                   [] onHost.os = "darwin" -> {<<Paths!MacRoots("documents", "support")[1], "system">>}
                   [] onHost.os = "linux" -> {<<"native", "system">>, <<"flat", "system">>}
      BY <1>3, <2>3 DEF Paths!Targets, Paths!RetroArchSystems, Paths!RetroArchIn, Paths!emu, Paths!os, Paths!In
    <2>5. \A r \in cs : Paths!RootOf(r) # "none"
      BY <2>1, <2>3
    <2>6. \A r \in Paths!RetroArchConfs(FALSE) : r # "none"
      BY <2>1
    <2>7. \A x, y : <<x, y>>[1] = x /\ <<x, y>>[2] = y
      OBVIOUS
    <2>8. ASSUME NEW d \in Paths!Targets PROVE d[1] # "none" /\ d[2] = "system"
      <3>1. \/ \E r \in cs : d = <<IF conf[r] = "custom" THEN "custom" ELSE Paths!RootOf(r), "system">>
            \/ d = <<"override", "system">>
            \/ \E r \in Paths!RetroArchConfs(FALSE) : d = <<r, "system">>
            \/ d = <<Paths!MacRoots("documents", "support")[1], "system">>
            \/ d = <<"native", "system">> \/ d = <<"flat", "system">>
        BY <2>4 DEF HostOK
      <3>2. CASE \E r \in cs : d = <<IF conf[r] = "custom" THEN "custom" ELSE Paths!RootOf(r), "system">>
        <4>1. PICK r \in cs : d = <<IF conf[r] = "custom" THEN "custom" ELSE Paths!RootOf(r), "system">>
          BY <3>2
        <4>2. PICK x : x = IF conf[r] = "custom" THEN "custom" ELSE Paths!RootOf(r)
          OBVIOUS
        <4>3. x # "none" /\ d = <<x, "system">>
          BY <2>5, <4>1, <4>2
        <4> QED BY <2>7, <4>3
      <3>3. CASE \E r \in Paths!RetroArchConfs(FALSE) : d = <<r, "system">>
        <4>1. PICK r \in Paths!RetroArchConfs(FALSE) : d = <<r, "system">>
          BY <3>3
        <4>2. r # "none"
          BY <2>6
        <4> QED BY <2>7, <4>1, <4>2
      <3>4. CASE d = <<Paths!MacRoots("documents", "support")[1], "system">>
        <4>1. PICK x : x = Paths!MacRoots("documents", "support")[1]
          OBVIOUS
        <4>2. x # "none" /\ d = <<x, "system">>
          BY <2>2, <3>4, <4>1
        <4> QED BY <2>7, <4>2
      <3>5. CASE d = <<"override", "system">> \/ d = <<"native", "system">> \/ d = <<"flat", "system">>
        BY <2>7, <3>5
      <3> QED BY <3>1, <3>2, <3>3, <3>4, <3>5
    <2>9. onHost.os = "darwin" => <<Paths!MacRoots("documents", "support")[1], "system">> \in Paths!Targets
      BY <2>4
    <2> QED BY <1>3, <2>8, <2>9
  <1> QED BY <1>1, <1>2, <1>3 DEF HostOK

\* What GameHub calls the root of the saves is one.
LEMMA SaveRootIs ==
  ASSUME HostOK, Paths!SaveRoot # Paths!NoPath
  PROVE  /\ Paths!SaveRoot[1] # "none"
         /\ onHost.emu = "dolphin" => Paths!SaveRoot \in dirs
  <1>0. \A x, y : <<x, y>>[1] = x
    OBVIOUS
  <1>1. CASE onHost.emu = "dolphin"
    BY <1>0, <1>1, DolphinRootsAre
  <1>2. CASE onHost.emu = "pcsx2"
    <2>1. \E x \in {"flat", "native", "custom", "appdata", "documents", "support"} : Paths!SaveRoot = <<x, "memcards">>
      BY <1>2, Pcsx2SavesAre DEF HostOK, Pcsx2Looks
    <2> QED BY <1>0, <1>2, <2>1
  <1>3. CASE onHost.emu = "azahar"
    <2>1. \E x \in {"flat", "native", "appdata", "xdg", "support", "dotConfig"} : Paths!SaveRoot = <<x, "sdmc">>
      BY <1>3, AzaharSavesAre DEF HostOK, AzaharLooks, DotSaves
    <2> QED BY <1>0, <1>3, <2>1
  <1>4. CASE onHost.emu = "retroarch"
    BY <1>4, RetroArchSavesAre DEF RetroArchLooks
  <1> QED BY <1>1, <1>2, <1>3, <1>4 DEF HostOK

\* The host stays what it is, and so do the places for its configurations.
LEMMA HostStays ==
  ASSUME UNCHANGED onHost
  PROVE  /\ Paths!Places' = Paths!Places /\ Paths!Builds' = Paths!Builds /\ Paths!ConfRoots' = Paths!ConfRoots
         /\ \A exe, us : Paths!ReadsConf(exe, us)' = Paths!ReadsConf(exe, us)
         /\ HostOK /\ at' = at => HostOK'
  <1>1. Paths!Places' = Paths!Places
    BY DEF Paths!Places, Paths!os
  <1>2. Paths!Builds' = Paths!Builds
    BY DEF Paths!Builds
  <1>3. Paths!ConfRoots' = Paths!ConfRoots
    BY DEF Paths!ConfRoots, Paths!os, Paths!emu
  <1>4. \A exe, us : Paths!ReadsConf(exe, us)' = Paths!ReadsConf(exe, us)
    BY DEF Paths!ReadsConf, Paths!emu, Paths!OwnRoot, Paths!IsFlatpak
  <1> QED BY <1>1, <1>2, <1>3, <1>4 DEF HostOK

LEMMA ConfRootsAre ==
  ASSUME HostOK
  PROVE  /\ "none" \notin Paths!ConfRoots
         /\ onHost.os = "linux" => \A exe : Paths!OwnRoot(exe) \in Paths!ConfRoots
  <1>1. "none" \notin Paths!ConfRoots
    BY DEF HostOK, Paths!ConfRoots, Paths!os, Paths!emu
  <1>2. onHost.os = "linux" => {"native", "flat"} \subseteq Paths!ConfRoots
    BY DEF HostOK, Paths!ConfRoots, Paths!os, Paths!emu
  <1> QED BY <1>1, <1>2 DEF Paths!OwnRoot

\* What is written somewhere stays written while the configurations name the same places.
LEMMA WrittenStays ==
  ASSUME HostOK, WrittenHere, UNCHANGED <<onHost, at, shortcut, wrote>>, dirs \subseteq dirs',
         \A r \in Paths!ConfRoots : /\ conf'[r] = "custom" <=> conf[r] = "custom"
                                    /\ conf[r] # "absent" => conf'[r] # "absent"
  PROVE  WrittenHere'
  <1>1. Paths!IsThere(shortcut.exe)'
    BY LaunchStays DEF WrittenHere
  <1>2. Paths!ReadsConf(shortcut.exe, shortcut.user)' = Paths!ReadsConf(shortcut.exe, shortcut.user)
    BY HostStays
  <1>3. Paths!WritesSaves(shortcut.exe, shortcut.user)' = Paths!WritesSaves(shortcut.exe, shortcut.user)
    <2>1. onHost.os = "linux" => (Paths!Moved(shortcut.exe)' <=> Paths!Moved(shortcut.exe))
      <3>1. onHost.os = "linux" => Paths!OwnRoot(shortcut.exe) \in Paths!ConfRoots
        BY ConfRootsAre
      <3>2. Paths!OwnRoot(shortcut.exe)' = Paths!OwnRoot(shortcut.exe)
        BY DEF Paths!OwnRoot, Paths!IsFlatpak
      <3> QED BY <3>1, <3>2 DEF Paths!Moved
    <2>2. Paths!OwnRoot(shortcut.exe)' = Paths!OwnRoot(shortcut.exe)
      BY DEF Paths!OwnRoot, Paths!IsFlatpak
    <2>3. onHost.os = "linux" \/ onHost.emu = "dolphin"
      BY DEF WrittenHere
    <2> QED BY <2>1, <2>2, <2>3 DEF Paths!WritesSaves, Paths!emu, Paths!In, Paths!SavePart
  <1>4. Paths!ConfRoots' = Paths!ConfRoots
    BY HostStays
  <1> QED BY <1>1, <1>2, <1>3, <1>4 DEF WrittenHere

\* The user installs and removes, and nothing of the directories changes.
LEMMA UserStays ==
  ASSUME PathsInv, UNCHANGED <<onHost, byPath, shortcut>>, synced' = {}, wrote' = Paths!NoPath,
         at' \in [Paths!Places -> Paths!Builds \cup {"absent"}], UNCHANGED <<dirs, conf>>
  PROVE  PathsInv'
  <1>1. HostOK'
    BY HostStays DEF PathsInv, PathsTyped, HostOK
  <1>2. Paths!ConfRoots' = Paths!ConfRoots
    BY HostStays
  <1>3. PathsTyped'
    BY <1>1, <1>2 DEF PathsInv, PathsTyped
  <1>4. wrote' = Paths!NoPath'
    BY DEF Paths!NoPath
  <1>5. (onHost.emu = "dolphin" => DolphinKnown)'
    BY DEF PathsInv, DolphinKnown, Paths!NoShortcut, Paths!Roots
  <1> QED BY <1>2, <1>3, <1>4, <1>5 DEF PathsInv

LEMMA StillInv ==
  ASSUME PathsInv, UNCHANGED Paths!vars
  PROVE  PathsInv'
  <1> USE DEF Paths!vars
  <1>1. HostOK' /\ Paths!ConfRoots' = Paths!ConfRoots
    BY HostStays DEF PathsInv, PathsTyped
  <1>2. PathsTyped'
    BY <1>1 DEF PathsInv, PathsTyped
  <1>3. (wrote # Paths!NoPath => WrittenHere)'
    BY WrittenStays DEF PathsInv, PathsTyped, Paths!NoPath
  <1>4. (onHost.emu = "dolphin" => DolphinKnown)'
    BY DEF PathsInv, DolphinKnown, Paths!NoShortcut, Paths!Roots
  <1> QED BY <1>1, <1>2, <1>3, <1>4 DEF PathsInv

LEMMA InstallsInv ==
  ASSUME PathsInv, Paths!UserInstalls \/ Paths!UserUninstalls
  PROVE  PathsInv'
  <1>1. UNCHANGED <<onHost, byPath, shortcut, dirs, conf>> /\ synced' = {} /\ wrote' = Paths!NoPath
    BY DEF Paths!UserInstalls, Paths!UserUninstalls, Paths!Changes
  <1>2. at' \in [Paths!Places -> Paths!Builds \cup {"absent"}]
    BY DEF PathsInv, PathsTyped, HostOK, Paths!UserInstalls, Paths!UserUninstalls, Paths!Changes
  <1> QED BY <1>1, <1>2, UserStays

LEMMA ConfiguresInv ==
  ASSUME PathsInv, Paths!UserConfigures
  PROVE  PathsInv'
  <1>1. PICK r \in Paths!ConfRoots :
          /\ UNCHANGED <<onHost, byPath, shortcut, at>> /\ synced' = {} /\ wrote' = Paths!NoPath
          /\ conf' = [conf EXCEPT ![r] = "custom"]
          /\ dirs' = Paths!WithRoots(dirs \cup {<<r, "">>, <<"custom", Paths!SavePart>>})
    BY DEF Paths!UserConfigures, Paths!Changes, Paths!In
  <1>2. HostOK /\ PathsTyped
    BY DEF PathsInv, PathsTyped
  <1>3. HostOK' /\ Paths!ConfRoots' = Paths!ConfRoots
    BY <1>1, <1>2, HostStays
  <1> DEFINE S == {<<r, "">>, <<"custom", Paths!SavePart>>}
  <1>4. \A d \in S : d[1] # "none"
    <2>1. r # "none"
      BY <1>2, ConfRootsAre
    <2>2. \A x, y : <<x, y>>[1] = x
      OBVIOUS
    <2>3. PICK p, c : p = Paths!SavePart /\ c = "custom"
      OBVIOUS
    <2>4. \A d \in S : d = <<r, "">> \/ d = <<c, p>>
      BY <2>3
    <2> QED BY <2>1, <2>2, <2>3, <2>4
  <1>5. /\ \A d \in dirs' : d[1] # "none" /\ <<d[1], "">> \in dirs'
        /\ dirs \subseteq dirs' /\ S \subseteq dirs'
        /\ \A x, sub : sub # "" /\ <<x, sub>> \in dirs' => <<x, sub>> \in dirs \/ <<x, sub>> \in S
    <2>1. \A d \in dirs : d[1] # "none" /\ <<d[1], "">> \in dirs
      BY <1>2 DEF PathsTyped
    <2>2. PICK T : T = dirs'
      OBVIOUS
    <2>3. T = Paths!WithRoots(dirs \cup S)
      BY <1>1, <2>2
    <2> HIDE DEF S
    <2> QED BY <1>4, <2>1, <2>2, <2>3, Grown
  <1>6. conf' \in [Paths!ConfRoots -> {"absent", "plain", "custom"}]
    BY <1>1, <1>2 DEF PathsTyped
  <1>7. PathsTyped'
    BY <1>1, <1>2, <1>3, <1>5, <1>6 DEF PathsTyped
  <1>8. wrote' = Paths!NoPath'
    BY <1>1 DEF Paths!NoPath
  <1>9. (onHost.emu = "dolphin" => DolphinKnown)'
    <2> SUFFICES ASSUME onHost.emu = "dolphin" PROVE DolphinKnown'
      BY <1>1
    <2>1. DolphinKnown
      BY DEF PathsInv
    <2>2. \A x \in Paths!Roots : \A sub : sub # "" /\ <<x, sub>> \in dirs' => <<x, sub>> \in dirs
      <3>1. \A x \in Paths!Roots : \A sub : sub # "" => <<x, sub>> \notin S
        BY DEF Paths!Roots
      <3> QED BY <1>5, <3>1
    <2>3. Paths!Roots' = Paths!Roots /\ Paths!NoShortcut' = Paths!NoShortcut
      BY DEF Paths!Roots, Paths!NoShortcut
    <2>4. \A x \in Paths!Roots : <<x, "Wii">> \notin dirs' /\ (<<x, "GC">> \in dirs' => <<x, "GC">> \in dirs)
      BY <2>1, <2>2 DEF DolphinKnown
    <2>5. \A x : <<x, "Config">> \in dirs => <<x, "Config">> \in dirs'
      BY <1>5
    <2> QED BY <1>1, <1>5, <2>1, <2>3, <2>4, <2>5 DEF DolphinKnown
  <1>10. \A x \in Paths!ConfRoots : conf'[x] # "absent" => conf[x] # "absent" \/ x = r
    BY <1>1, <1>2 DEF PathsTyped
  <1>11. (onHost.emu # "retroarch" => \A x \in Paths!ConfRoots : conf[x] # "absent" => <<x, "">> \in dirs)'
    BY <1>1, <1>3, <1>5, <1>10 DEF PathsInv
  <1>12. (onHost.emu = "retroarch" /\ onHost.os = "darwin" =>
            \A x \in {"documents", "documentsConfig"} : conf[x] = "plain" => <<"documents", "">> \in dirs)'
    <2>1. onHost.emu = "retroarch" /\ onHost.os = "darwin" => {"documents", "documentsConfig"} \subseteq Paths!ConfRoots
      BY DEF Paths!ConfRoots, Paths!os, Paths!emu
    <2>2. \A x \in Paths!ConfRoots : conf'[x] = "plain" => conf[x] = "plain"
      BY <1>1, <1>2 DEF PathsTyped
    <2> QED BY <1>1, <1>5, <2>1, <2>2 DEF PathsInv
  <1> QED BY <1>7, <1>8, <1>9, <1>11, <1>12 DEF PathsInv

LEMMA PathsInit ==
  ASSUME PathHosts, Paths!Init
  PROVE  PathsInv
  <1>1. HostOK
    BY DEF PathHosts, Paths!Init, HostOK, Paths!os, Paths!emu
  <1>2. "none" \notin Paths!ConfRoots
    BY <1>1, ConfRootsAre
  <1>3. conf = [r \in Paths!ConfRoots |-> "absent"] /\ synced = {} /\ byPath \in BOOLEAN
    BY DEF Paths!Init
  <1>9. \A d \in dirs : d[1] # "none" /\ <<d[1], "">> \in dirs
    <2>1. CASE dirs = {}
      BY <2>1
    <2>2. CASE dirs # {}
      <3>1. PICK d \in {"xdg", "support", "dotConfig"} \X {"sdmc"} : dirs = Paths!WithRoots({d})
        BY <2>2 DEF Paths!Init, Paths!EarlierSaves
      <3>2. PICK r \in {"xdg", "support", "dotConfig"} : d[1] = r
        OBVIOUS
      <3>3. dirs = {d} \cup {<<r, "">>}
        <4>1. {Paths!In(e[1], "") : e \in {d}} = {<<r, "">>}
          BY <3>2 DEF Paths!In
        <4> QED BY ONLY <3>1, <4>1 DEF Paths!WithRoots
      <3>4. <<r, "">>[1] = r /\ r # "none"
        OBVIOUS
      <3>5. \A e \in dirs : e[1] = r
        BY <3>2, <3>3, <3>4
      <3> QED BY <3>3, <3>4, <3>5
    <2> QED BY <2>1, <2>2
  <1>4. PathsTyped
    BY <1>1, <1>3, <1>9 DEF PathsTyped
  <1>5. wrote = Paths!NoPath /\ (onHost.emu = "dolphin" => DolphinKnown)
    <2>1. onHost.emu = "dolphin" => dirs = {}
      BY DEF Paths!Init, Paths!EarlierSaves, Paths!emu
    <2>2. wrote = Paths!NoPath /\ shortcut = Paths!NoShortcut
      BY DEF Paths!Init
    <2> QED BY <2>1, <2>2 DEF DolphinKnown
  <1>6. \A r \in Paths!ConfRoots : conf[r] = "absent"
    BY <1>3
  <1>7. onHost.emu = "retroarch" /\ onHost.os = "darwin" => {"documents", "documentsConfig"} \subseteq Paths!ConfRoots
    BY DEF Paths!ConfRoots, Paths!os, Paths!emu
  <1>8. onHost.emu = "retroarch" /\ onHost.os = "darwin" =>
          \A r \in {"documents", "documentsConfig"} : conf[r] # "plain"
    BY <1>6, <1>7
  <1> QED BY <1>4, <1>5, <1>6, <1>8 DEF PathsInv

LEMMA LaunchInv ==
  ASSUME PathsInv, Paths!Launch
  PROVE  PathsInv'
  <1>1. PICK rt, td :
          /\ rt = Paths!ReadsConf(shortcut.exe, shortcut.user)
          /\ td = Paths!WritesSaves(shortcut.exe, shortcut.user)
          /\ wrote' = td
          /\ dirs' = Paths!WithRoots(dirs \cup {td, <<rt, "Config">>})
          /\ conf' = [r \in Paths!ConfRoots |-> IF r = rt /\ conf[r] = "absent" THEN "plain" ELSE conf[r]]
    BY DEF Paths!Launch, Paths!In, Paths!HasConf
  <1>2. /\ UNCHANGED <<onHost, byPath, shortcut, at, synced>>
        /\ Paths!IsThere(shortcut.exe) /\ (onHost.os = "linux" \/ onHost.emu = "dolphin")
    BY DEF Paths!Launch, Paths!os, Paths!emu
  <1>3. HostOK /\ PathsTyped
    BY DEF PathsInv, PathsTyped
  <1>4. HostOK' /\ Paths!ConfRoots' = Paths!ConfRoots
    BY <1>2, <1>3, HostStays
  <1>5. onHost.emu = "dolphin" =>
          /\ rt = shortcut.user /\ td = <<shortcut.user, "GC">>
          /\ shortcut # Paths!NoShortcut /\ shortcut.user \in Paths!Roots
    <2>1. shortcut # Paths!NoShortcut
      BY <1>2, <1>3, RunsIfThere DEF Paths!NoShortcut
    <2> QED BY <1>1, <2>1 DEF PathsInv, DolphinKnown, Paths!ReadsConf, Paths!WritesSaves, Paths!emu, Paths!In
  <1>6. rt # "none" /\ td[1] # "none"
    <2>1. \A x, y : <<x, y>>[1] = x
      OBVIOUS
    <2>2. CASE onHost.emu = "dolphin"
      BY <1>5, <2>1, <2>2 DEF Paths!Roots
    <2>3. CASE onHost.emu # "dolphin"
      <3>1. rt = Paths!OwnRoot(shortcut.exe) /\ rt # "none"
        BY <1>1, <2>3 DEF Paths!ReadsConf, Paths!OwnRoot, Paths!emu
      <3>2. td = <<rt, Paths!SavePart>> \/ td = <<"custom", Paths!SavePart>>
        BY <1>1, <2>3, <3>1 DEF Paths!WritesSaves, Paths!emu, Paths!In
      <3> QED BY <2>1, <3>1, <3>2
    <2> QED BY <2>2, <2>3
  <1> DEFINE S == {td, <<rt, "Config">>}
  <1>7. \A d \in S : d[1] # "none"
    <2>1. \A x, y : <<x, y>>[1] = x
      OBVIOUS
    <2> QED BY <1>6, <2>1
  <1>8. /\ \A d \in dirs' : d[1] # "none" /\ <<d[1], "">> \in dirs'
        /\ dirs \subseteq dirs' /\ S \subseteq dirs'
        /\ \A x, sub : sub # "" /\ <<x, sub>> \in dirs' => <<x, sub>> \in dirs \/ <<x, sub>> \in S
    <2>1. \A d \in dirs : d[1] # "none" /\ <<d[1], "">> \in dirs
      BY <1>3 DEF PathsTyped
    <2>2. PICK T : T = dirs'
      OBVIOUS
    <2>3. T = Paths!WithRoots(dirs \cup S)
      BY <1>1, <2>2
    <2> HIDE DEF S
    <2> QED BY <1>7, <2>1, <2>2, <2>3, Grown
  <1>9. conf' \in [Paths!ConfRoots -> {"absent", "plain", "custom"}]
    BY <1>1, <1>3 DEF PathsTyped
  <1>10. PathsTyped'
    BY <1>2, <1>3, <1>4, <1>8, <1>9 DEF PathsTyped
  <1>11. \A r \in Paths!ConfRoots : /\ conf'[r] = "custom" <=> conf[r] = "custom"
                                    /\ conf[r] # "absent" => conf'[r] # "absent"
                                    /\ r = rt => conf'[r] # "absent"
                                    /\ conf'[r] # "absent" => conf[r] # "absent" \/ r = rt
    BY <1>1
  <1>12. WrittenHere'
    <2>1. Paths!IsThere(shortcut.exe)'
      BY <1>2, LaunchStays
    <2>2. Paths!ReadsConf(shortcut.exe, shortcut.user)' = rt
      BY <1>1, <1>2, HostStays
    <2>3. Paths!WritesSaves(shortcut.exe, shortcut.user)' = td
      <3>1. Paths!OwnRoot(shortcut.exe)' = Paths!OwnRoot(shortcut.exe)
        BY <1>2 DEF Paths!OwnRoot, Paths!IsFlatpak
      <3>2. onHost.os = "linux" => (Paths!Moved(shortcut.exe)' <=> Paths!Moved(shortcut.exe))
        BY <1>3, <1>11, <3>1, ConfRootsAre DEF Paths!Moved
      <3> QED BY <1>1, <1>2, <3>1, <3>2 DEF Paths!WritesSaves, Paths!emu, Paths!In, Paths!SavePart
    <2>4. td \in dirs' /\ <<rt, "Config">> \in dirs'
      BY <1>8
    <2> QED BY <1>1, <1>2, <1>4, <1>11, <2>1, <2>2, <2>3, <2>4 DEF WrittenHere
  <1>13. (onHost.emu = "dolphin" => DolphinKnown)'
    <2> SUFFICES ASSUME onHost.emu = "dolphin" PROVE DolphinKnown'
      BY <1>2
    <2>1. DolphinKnown
      BY DEF PathsInv
    <2>2. \A x, y, z : <<x, y>> = <<z, "GC">> => y = "GC" /\ x = z
      OBVIOUS
    <2>3. \A x, y, z : <<x, y>> = <<z, "Config">> => y = "Config" /\ x = z
      OBVIOUS
    <2>4. <<rt, "Config">> \in dirs'
      BY <1>8
    <2>5. \A x \in Paths!Roots : <<x, "Wii">> \notin dirs' /\ (<<x, "GC">> \in dirs' => <<x, "Config">> \in dirs')
      BY <1>5, <1>8, <2>1, <2>2, <2>3, <2>4 DEF DolphinKnown
    <2>6. Paths!Roots' = Paths!Roots /\ Paths!NoShortcut' = Paths!NoShortcut
      BY DEF Paths!Roots, Paths!NoShortcut
    <2> QED BY <1>2, <1>5, <1>8, <2>1, <2>5, <2>6 DEF DolphinKnown
  <1>14. (onHost.emu # "retroarch" => \A x \in Paths!ConfRoots : conf[x] # "absent" => <<x, "">> \in dirs)'
    <2>1. <<rt, "">> \in dirs'
      <3>1. <<rt, "Config">> \in dirs' /\ <<rt, "Config">>[1] = rt
        BY <1>8
      <3> QED BY <1>8, <3>1
    <2> QED BY <1>2, <1>4, <1>8, <1>11, <2>1 DEF PathsInv
  <1>15. ~(onHost.emu = "retroarch" /\ onHost.os = "darwin")'
    BY <1>2
  <1> QED BY <1>10, <1>12, <1>13, <1>14, <1>15 DEF PathsInv

LEMMA DownloadInv ==
  ASSUME PathsInv, Paths!Download
  PROVE  PathsInv' /\ (onHost.emu = "dolphin" => dirs' = dirs)
  <1>1. PICK d : d = Paths!SaveRoot
    OBVIOUS
  <1>2. /\ d # Paths!NoPath /\ dirs' = Paths!WithRoots(dirs \cup {d})
        /\ UNCHANGED <<onHost, byPath, shortcut, at, synced, conf, wrote>>
    BY <1>1 DEF Paths!Download
  <1>3. HostOK /\ PathsTyped
    BY DEF PathsInv, PathsTyped
  <1>4. HostOK' /\ Paths!ConfRoots' = Paths!ConfRoots
    BY <1>2, <1>3, HostStays
  <1>5. d[1] # "none" /\ (onHost.emu = "dolphin" => d \in dirs)
    BY <1>1, <1>2, <1>3, SaveRootIs
  <1>6. /\ \A e \in dirs' : e[1] # "none" /\ <<e[1], "">> \in dirs'
        /\ dirs \subseteq dirs'
    <2>1. \A e \in dirs : e[1] # "none" /\ <<e[1], "">> \in dirs
      BY <1>3 DEF PathsTyped
    <2>2. PICK S, T : S = {d} /\ T = dirs'
      OBVIOUS
    <2>3. T = Paths!WithRoots(dirs \cup S) /\ \A e \in S : e[1] # "none"
      BY <1>2, <1>5, <2>2
    <2> QED BY <2>1, <2>2, <2>3, Grown
  <1>7. onHost.emu = "dolphin" => dirs' = dirs
    BY <1>2, <1>3, <1>5 DEF PathsTyped, Paths!WithRoots, Paths!In
  <1>8. PathsTyped'
    BY <1>2, <1>3, <1>4, <1>6 DEF PathsTyped
  <1>9. (wrote # Paths!NoPath => WrittenHere)'
    BY <1>2, <1>3, <1>6, WrittenStays DEF PathsInv, Paths!NoPath
  <1>10. (onHost.emu = "dolphin" => DolphinKnown)'
    BY <1>2, <1>7 DEF PathsInv, DolphinKnown, Paths!Roots, Paths!NoShortcut
  <1> QED BY <1>2, <1>4, <1>6, <1>7, <1>8, <1>9, <1>10 DEF PathsInv

LEMMA SyncInv ==
  ASSUME PathsInv, Paths!Sync
  PROVE  PathsInv'
  <1>1. PICK fs, D, S :
          /\ fs = Paths!Configured
          /\ S = Paths!Targets \cup (IF onHost.emu = "retroarch" THEN {} ELSE {<<r, "Config">> : r \in fs})
          /\ D = Paths!WithRoots(dirs \cup S)
    OBVIOUS
  <1>2. /\ dirs' = D /\ synced' = fs
        /\ conf' = [r \in Paths!ConfRoots |-> IF r \in fs /\ conf[r] = "absent" THEN "plain" ELSE conf[r]]
        /\ shortcut' = Paths!Wanted /\ wrote' = (IF shortcut' = shortcut THEN wrote ELSE Paths!NoPath)
        /\ UNCHANGED <<onHost, byPath, at>>
    <2>1. (dirs \cup Paths!Targets) \cup (IF onHost.emu = "retroarch" THEN {} ELSE {<<r, "Config">> : r \in fs})
            = dirs \cup S
      BY <1>1
    <2> QED BY <1>1, <2>1 DEF Paths!Sync, Paths!HasConf, Paths!emu, Paths!In
  <1>3. HostOK /\ PathsTyped
    BY DEF PathsInv, PathsTyped
  <1>4. HostOK' /\ Paths!ConfRoots' = Paths!ConfRoots
    BY <1>2, <1>3, HostStays
  <1>5. \A f \in fs :
          /\ f # "none"
          /\ f \in Paths!ConfRoots \cup {"nativeConfig", "flatConfig", "exeDir", "documents",
                                         "appdata", "xdg", "support"}
          /\ onHost.emu = "retroarch" /\ onHost.os = "darwin" /\ f \in {"documents", "documentsConfig"} =>
               f \in Paths!WithConf \/ Paths!MacRoots("documents", "support")[1] = "documents"
    <2> TAKE f \in fs
    <2>1. f \in Paths!Configured
      BY <1>1
    <2> QED BY <1>3, <2>1, ConfiguredIs
  <1>6. \A d \in S : d[1] # "none"
    <2>1. \A d \in Paths!Targets : d[1] # "none"
      BY <1>3, TargetsAre
    <2>2. \A r \in fs : <<r, "Config">>[1] # "none"
      BY <1>5
    <2> QED BY <1>1, <2>1, <2>2
  <1>7. /\ \A d \in dirs' : d[1] # "none" /\ <<d[1], "">> \in dirs'
        /\ dirs \subseteq dirs' /\ S \subseteq dirs'
        /\ \A x, sub : sub # "" /\ <<x, sub>> \in dirs' => <<x, sub>> \in dirs \/ <<x, sub>> \in S
    <2>1. \A d \in dirs : d[1] # "none" /\ <<d[1], "">> \in dirs
      BY <1>3 DEF PathsTyped
    <2>2. /\ \A d \in D : d[1] # "none" /\ <<d[1], "">> \in D
          /\ dirs \subseteq D /\ S \subseteq D
          /\ \A x, sub : sub # "" /\ <<x, sub>> \in D => <<x, sub>> \in dirs \/ <<x, sub>> \in S
      <3>1. D = Paths!WithRoots(dirs \cup S)
        BY <1>1
      <3> QED BY <1>6, <2>1, <3>1, Grown
    <2> QED BY <1>2, <2>2
  <1>8. conf' \in [Paths!ConfRoots -> {"absent", "plain", "custom"}]
    BY <1>2, <1>3 DEF PathsTyped
  <1>9. PathsTyped'
    BY <1>2, <1>3, <1>4, <1>5, <1>7, <1>8 DEF PathsTyped
  <1>10. \A r \in Paths!ConfRoots : /\ conf'[r] = "custom" <=> conf[r] = "custom"
                                    /\ conf[r] # "absent" => conf'[r] # "absent"
                                    /\ conf'[r] # "absent" => conf[r] # "absent" \/ r \in fs
                                    /\ conf'[r] = "plain" => conf[r] = "plain" \/ (conf[r] = "absent" /\ r \in fs)
    BY <1>2
  <1>11. (wrote # Paths!NoPath => WrittenHere)'
    BY <1>2, <1>3, <1>7, <1>10, WrittenStays DEF PathsInv, Paths!NoPath
  <1>12. \A r, sub : <<r, sub>> \in dirs' => <<r, "">> \in dirs'
    <2> TAKE r, sub
    <2>1. <<r, sub>>[1] = r
      OBVIOUS
    <2> QED BY <1>7, <2>1
  <1>13. \A r \in fs : onHost.emu # "retroarch" => <<r, "Config">> \in dirs'
    BY <1>1, <1>7
  <1>14. (onHost.emu = "dolphin" => DolphinKnown)'
    <2> SUFFICES ASSUME onHost.emu = "dolphin" PROVE DolphinKnown'
      BY <1>2
    <2>1. DolphinKnown
      BY DEF PathsInv
    <2>2. PICK u : u = Paths!DolphinUser
      OBVIOUS
    <2>3. fs = Paths!DolphinConfs
      BY <1>1 DEF Paths!Configured, Paths!emu
    <2>4. u \in fs /\ u \in Paths!Roots
      <3>1. u \in fs
        <4>1. CASE onHost.override
          BY <2>2, <2>3, <4>1 DEF Paths!DolphinConfs, Paths!DolphinUser
        <4>2. CASE ~onHost.override
          BY <2>2, <2>3, <4>2 DEF Paths!DolphinConfs
        <4> QED BY <4>1, <4>2
      <3> QED BY <1>3, <2>2, <3>1, DolphinRootsAre
    <2>5. S = {<<u, "GC">>} \cup {<<r, "Config">> : r \in fs}
      <3>1. Paths!Targets = {<<u, "GC">>}
        BY <1>3, <2>2, TargetsAre
      <3> QED BY <1>1, <3>1
    <2>6. <<u, "GC">> \in dirs' /\ <<u, "Config">> \in dirs'
      BY <1>7, <1>13, <2>4, <2>5
    <2>7. shortcut'.user = u /\ shortcut' # Paths!NoShortcut
      <3>1. shortcut'.user = u
        BY <1>2, <2>2 DEF Paths!Wanted, Paths!emu
      <3> QED BY <2>4, <3>1 DEF Paths!NoShortcut, Paths!Roots
    <2>8. onHost.os = "linux" /\ ~onHost.override =>
            \E r \in {"flatConfig", "nativeConfig", "native"} : r \in fs
      BY <2>3 DEF Paths!DolphinConfs, Paths!os
    <2>9. \A x, y, z : <<x, y>> = <<z, "GC">> => y = "GC" /\ x = z
      OBVIOUS
    <2>10. \A x, y, z : <<x, y>> = <<z, "Config">> => y = "Config" /\ x = z
      OBVIOUS
    <2>11. \A x, y : <<x, y>> \in S => y = "Config" \/ (y = "GC" /\ x = u)
      BY <2>5, <2>9, <2>10
    <2>12. \A x \in Paths!Roots : <<x, "Wii">> \notin dirs' /\ (<<x, "GC">> \in dirs' => <<x, "Config">> \in dirs')
      BY <1>7, <2>1, <2>6, <2>11 DEF DolphinKnown
    <2>13. onHost.os = "linux" /\ ~onHost.override =>
             \E r \in {"flatConfig", "nativeConfig", "native"} : <<r, "">> \in dirs'
      BY <1>12, <1>13, <2>8
    <2>14. Paths!Roots' = Paths!Roots /\ Paths!NoShortcut' = Paths!NoShortcut
      BY DEF Paths!Roots, Paths!NoShortcut
    <2> QED BY <1>2, <2>4, <2>6, <2>7, <2>12, <2>13, <2>14 DEF DolphinKnown
  <1>15. (onHost.emu # "retroarch" => \A x \in Paths!ConfRoots : conf[x] # "absent" => <<x, "">> \in dirs)'
    BY <1>2, <1>4, <1>7, <1>10, <1>12, <1>13 DEF PathsInv
  <1>16. (onHost.emu = "retroarch" /\ onHost.os = "darwin" =>
            \A r \in {"documents", "documentsConfig"} : conf[r] = "plain" => <<"documents", "">> \in dirs)'
    <2> SUFFICES ASSUME onHost.emu = "retroarch", onHost.os = "darwin",
                        NEW r \in {"documents", "documentsConfig"}, conf'[r] = "plain"
                 PROVE  <<"documents", "">> \in dirs'
      BY <1>2
    <2>1. r \in Paths!ConfRoots
      BY DEF Paths!ConfRoots, Paths!os, Paths!emu
    <2>2. CASE conf[r] = "plain"
      BY <1>7, <2>2 DEF PathsInv
    <2>3. CASE conf[r] = "absent" /\ r \in fs
      <3>1. Paths!MacRoots("documents", "support")[1] = "documents"
        BY <1>5, <2>3 DEF Paths!WithConf, Paths!HasConf
      <3>2. <<Paths!MacRoots("documents", "support")[1], "system">> \in Paths!Targets
        BY <1>3, TargetsAre
      <3>3. <<"documents", "system">> \in dirs'
        BY <1>1, <1>7, <3>1, <3>2
      <3> QED BY <1>12, <3>3
    <2> QED BY <1>10, <2>1, <2>2, <2>3
  <1> QED BY <1>9, <1>11, <1>14, <1>15, <1>16 DEF PathsInv

\* What is known of where it looks now is known of where it looks next.
LEMMA LooksNext ==
  /\ (HostOK /\ onHost.emu = "pcsx2" => Pcsx2Looks)'
  /\ (HostOK /\ onHost.emu = "azahar" => AzaharLooks)'
  /\ (HostOK /\ onHost.emu = "retroarch" => RetroArchLooks)'
  /\ (HostOK => RetroArchDefaultLooks)'
  /\ (HostOK /\ onHost.emu = "dolphin" =>
        Paths!SaveRoot = IF Paths!DolphinData # "none" /\ <<Paths!DolphinData, "GC">> \in dirs
                         THEN <<Paths!DolphinData, "GC">> ELSE Paths!NoPath)'
  /\ (HostOK /\ onHost.emu = "retroarch" =>
        Paths!MacRoots("documents", "support")[1] =
          IF <<"support", "">> \in dirs /\ <<"documents", "">> \notin dirs THEN "support" ELSE "documents")'
  <1>1. HostOK /\ onHost.emu = "pcsx2" => Pcsx2Looks
    BY Pcsx2SavesAre
  <1>2. HostOK /\ onHost.emu = "azahar" => AzaharLooks
    BY AzaharSavesAre
  <1>3. HostOK /\ onHost.emu = "retroarch" => RetroArchLooks
    BY RetroArchSavesAre
  <1>4. HostOK => RetroArchDefaultLooks
    BY RetroArchDefaultIs
  <1>5. HostOK /\ onHost.emu = "dolphin" =>
        Paths!SaveRoot = IF Paths!DolphinData # "none" /\ <<Paths!DolphinData, "GC">> \in dirs
                         THEN <<Paths!DolphinData, "GC">> ELSE Paths!NoPath
    BY DolphinRootsAre
  <1>6. HostOK /\ onHost.emu = "retroarch" =>
        Paths!MacRoots("documents", "support")[1] =
          IF <<"support", "">> \in dirs /\ <<"documents", "">> \notin dirs THEN "support" ELSE "documents"
    <2>1. PICK a \in Paths!Roots, b \in Paths!Roots : a = "documents" /\ b = "support"
      BY DEF Paths!Roots
    <2>2. Paths!MacRoots(a, b)[1] = IF <<b, "">> \in dirs /\ <<a, "">> \notin dirs THEN b ELSE a
      BY MacRootsAre
    <2> QED BY <2>1, <2>2
  <1> QED BY <1>1, <1>2, <1>3, <1>4, <1>5, <1>6, PTL

\* Dolphin's data are where they are while the roots there are stay the same.
LEMMA DolphinStays ==
  ASSUME HostOK, onHost.emu = "dolphin", UNCHANGED <<onHost, at>>,
         dirs' = dirs \/ (onHost.os = "linux" /\ \A r : <<r, "">> \in dirs' <=> <<r, "">> \in dirs)
  PROVE  Paths!DolphinData' = Paths!DolphinData
  <1>1. Paths!Exe' = Paths!Exe /\ (Paths!IsFlatpak(Paths!Exe)' <=> Paths!IsFlatpak(Paths!Exe))
    BY LaunchStays DEF Paths!IsFlatpak
  <1>2. Paths!Having("")' = Paths!Having("")
    BY DEF Paths!Having, Paths!Roots, Paths!Exists, Paths!In
  <1>3. CASE Paths!IsFlatpak(Paths!Exe)
    <2>1. Paths!DolphinData = Paths!FirstIn(<<"flat">>, Paths!Having(""), "none")
      BY <1>3 DEF Paths!DolphinData
    <2>2. Paths!DolphinData' = Paths!FirstIn(<<"flat">>, Paths!Having("")', "none")
      BY <1>1, <1>3 DEF Paths!DolphinData, Paths!FirstIn
    <2> QED BY <1>2, <2>1, <2>2
  <1>4. CASE ~Paths!IsFlatpak(Paths!Exe) /\ onHost.os = "linux"
    <2>1. Paths!DolphinData = Paths!FirstIn(<<"native", "flat">>, Paths!Having(""), "none")
      BY <1>4 DEF Paths!DolphinData, Paths!os
    <2>2. Paths!DolphinData' = Paths!FirstIn(<<"native", "flat">>, Paths!Having("")', "none")
      BY <1>1, <1>4 DEF Paths!DolphinData, Paths!os, Paths!FirstIn
    <2> QED BY <1>2, <2>1, <2>2
  <1>5. CASE ~Paths!IsFlatpak(Paths!Exe) /\ onHost.os = "darwin"
    <2>1. \A a, b : Paths!MacRoots(a, b)' = Paths!MacRoots(a, b)
      BY <1>5 DEF Paths!MacRoots, Paths!Exists, Paths!In
    <2>2. Paths!DolphinData = IF onHost.override /\ <<"override", "">> \in dirs THEN "override"
                              ELSE Paths!FirstIn(Paths!MacRoots("xdg", "support"), Paths!Having(""), "none")
      BY <1>5 DEF Paths!DolphinData, Paths!os, Paths!Exists, Paths!In
    <2>3. Paths!DolphinData' = IF onHost.override /\ <<"override", "">> \in dirs THEN "override"
                               ELSE Paths!FirstIn(Paths!MacRoots("xdg", "support")', Paths!Having("")', "none")
      BY <1>1, <1>5 DEF Paths!DolphinData, Paths!os, Paths!Exists, Paths!In, Paths!FirstIn
    <2>4. Paths!MacRoots("xdg", "support")' = Paths!MacRoots("xdg", "support")
      BY <2>1
    <2> QED BY <1>2, <2>2, <2>3, <2>4
  <1>6. CASE ~Paths!IsFlatpak(Paths!Exe) /\ onHost.os = "nt"
    <2>1. PICK f : f = Paths!DolphinData
      OBVIOUS
    <2>2. dirs' = dirs
      BY <1>6
    <2>3. Paths!DolphinNtRoots' = Paths!DolphinNtRoots
      BY <1>1 DEF Paths!DolphinNtRoots
    <2>4. /\ Paths!Having("Config")' = Paths!Having("Config")
          /\ Paths!Having("GC")' = Paths!Having("GC") /\ Paths!Having("Wii")' = Paths!Having("Wii")
      BY <2>2 DEF Paths!Having, Paths!Roots, Paths!Exists, Paths!In
    <2>5. Paths!DolphinData =
            Paths!FirstIn(Paths!DolphinNtRoots, Paths!Having("Config") \cup Paths!Having("GC") \cup Paths!Having("Wii"),
              Paths!FirstIn(Paths!DolphinNtRoots, Paths!Having(""), "none"))
      BY <1>6 DEF Paths!DolphinData, Paths!os
    <2>6. Paths!DolphinData' =
            Paths!FirstIn(Paths!DolphinNtRoots', Paths!Having("Config")' \cup Paths!Having("GC")' \cup Paths!Having("Wii")',
              Paths!FirstIn(Paths!DolphinNtRoots', Paths!Having("")', "none"))
      BY <1>1, <1>6 DEF Paths!DolphinData, Paths!os, Paths!FirstIn
    <2> QED BY <1>2, <2>3, <2>4, <2>5, <2>6
  <1> QED BY <1>3, <1>4, <1>5, <1>6 DEF HostOK

\* What GameHub does to the host itself: it adds directories for firmware and
\* configuration, and never moves one.
LEMMA GameHubAdds ==
  ASSUME PathsInv, Paths!GameHubStep, Paths!SaveRoot \in dirs
  PROVE  /\ UNCHANGED <<onHost, byPath, at>> /\ dirs \subseteq dirs'
         /\ \A r \in Paths!ConfRoots : /\ conf'[r] = "custom" <=> conf[r] = "custom"
                                       /\ conf[r] # "absent" => conf'[r] # "absent"
                                       /\ conf'[r] # "absent" => conf[r] # "absent" \/ (Paths!Sync /\ r \in Paths!Configured)
         /\ \A r, sub : sub \notin {"", "Config", "system", "GC"} => (<<r, sub>> \in dirs' <=> <<r, sub>> \in dirs)
         /\ Paths!Download => dirs' = dirs /\ conf' = conf
  <1>1. HostOK /\ PathsTyped
    BY DEF PathsInv, PathsTyped
  <1>2. CASE Paths!Download
    <2>1. dirs' = Paths!WithRoots(dirs \cup {Paths!SaveRoot}) /\ UNCHANGED <<onHost, byPath, at, conf>>
      BY <1>2 DEF Paths!Download
    <2>2. PICK d \in dirs : d = Paths!SaveRoot
      OBVIOUS
    <2>3. dirs' = Paths!WithRoots(dirs)
      <3>1. dirs \cup {d} = dirs
        OBVIOUS
      <3> QED BY <2>1, <2>2, <3>1
    <2>4. dirs' = dirs
      BY <1>1, <2>3 DEF PathsTyped, Paths!WithRoots, Paths!In
    <2>5. ~Paths!Sync \/ Paths!Sync
      OBVIOUS
    <2> QED BY <2>1, <2>4
  <1>3. CASE Paths!Sync
    <2>1. PICK fs, D, S :
            /\ fs = Paths!Configured
            /\ S = Paths!Targets \cup (IF onHost.emu = "retroarch" THEN {} ELSE {<<r, "Config">> : r \in fs})
            /\ D = Paths!WithRoots(dirs \cup S)
      OBVIOUS
    <2>2. /\ dirs' = D
          /\ conf' = [r \in Paths!ConfRoots |-> IF r \in fs /\ conf[r] = "absent" THEN "plain" ELSE conf[r]]
          /\ UNCHANGED <<onHost, byPath, at>>
      <3>1. (dirs \cup Paths!Targets) \cup (IF onHost.emu = "retroarch" THEN {} ELSE {<<r, "Config">> : r \in fs})
              = dirs \cup S
        BY <2>1
      <3> QED BY <1>3, <2>1, <3>1 DEF Paths!Sync, Paths!HasConf, Paths!emu, Paths!In
    <2>3. \A d \in S : d[1] # "none" /\ d[2] \in {"Config", "system", "GC"}
      <3>1. \A d \in Paths!Targets : d[1] # "none"
        BY <1>1, TargetsAre
      <3>2. \A d \in Paths!Targets : d[2] \in {"system", "GC"}
        <4>1. onHost.emu = "retroarch" => \A d \in Paths!Targets : d[2] = "system"
          BY <1>1, TargetsAre
        <4>2. onHost.emu = "dolphin" => Paths!Targets = {<<Paths!DolphinUser, "GC">>}
          BY <1>1, TargetsAre
        <4>3. onHost.emu \in {"pcsx2", "azahar"} => Paths!Targets = {}
          BY <1>1, TargetsAre
        <4>4. <<Paths!DolphinUser, "GC">>[2] = "GC"
          OBVIOUS
        <4> QED BY <1>1, <4>1, <4>2, <4>3, <4>4 DEF HostOK
      <3>3. \A r \in fs : <<r, "Config">>[1] # "none" /\ <<r, "Config">>[2] = "Config"
        BY <1>1, <2>1, ConfiguredIs
      <3> QED BY <2>1, <3>1, <3>2, <3>3
    <2>4. /\ dirs \subseteq D
          /\ \A x, sub : sub # "" /\ <<x, sub>> \in D => <<x, sub>> \in dirs \/ <<x, sub>> \in S
      <3>1. \A d \in dirs : d[1] # "none" /\ <<d[1], "">> \in dirs
        BY <1>1 DEF PathsTyped
      <3>2. D = Paths!WithRoots(dirs \cup S)
        BY <2>1
      <3> QED BY <2>3, <3>1, <3>2, Grown
    <2>5. \A r, sub : sub \notin {"", "Config", "system", "GC"} => (<<r, sub>> \in dirs' <=> <<r, sub>> \in dirs)
      <3> TAKE r, sub
      <3>1. <<r, sub>>[2] = sub
        OBVIOUS
      <3> QED BY <2>2, <2>3, <2>4, <3>1
    <2>6. \A r \in Paths!ConfRoots : /\ conf'[r] = "custom" <=> conf[r] = "custom"
                                     /\ conf[r] # "absent" => conf'[r] # "absent"
                                     /\ conf'[r] # "absent" => conf[r] # "absent" \/ r \in fs
      BY <2>2
    <2>7. Paths!Download => dirs' = dirs /\ conf' = conf
      <3> SUFFICES ASSUME Paths!Download PROVE dirs' = dirs /\ conf' = conf
        OBVIOUS
      <3>1. dirs' = Paths!WithRoots(dirs \cup {Paths!SaveRoot}) /\ conf' = conf
        BY DEF Paths!Download
      <3>2. PICK d \in dirs : d = Paths!SaveRoot
        OBVIOUS
      <3>3. dirs \cup {d} = dirs
        OBVIOUS
      <3>4. dirs' = Paths!WithRoots(dirs)
        BY <3>1, <3>2, <3>3
      <3> QED BY <1>1, <3>1, <3>4 DEF PathsTyped, Paths!WithRoots, Paths!In
    <2> QED BY <1>3, <2>1, <2>2, <2>4, <2>5, <2>6, <2>7
  <1> QED BY <1>2, <1>3 DEF Paths!GameHubStep

LEMMA Pcsx2RootStays ==
  ASSUME PathsInv, Paths!GameHubStep, Paths!SaveRoot \in dirs, onHost.emu = "pcsx2"
  PROVE  Paths!SaveRoot' = Paths!SaveRoot
  <1>1. HostOK
    BY DEF PathsInv, PathsTyped
  <1>2. /\ UNCHANGED <<onHost, byPath, at>>
        /\ \A r \in Paths!ConfRoots : conf'[r] = "custom" <=> conf[r] = "custom"
        /\ \A r, sub : sub \notin {"", "Config", "system", "GC"} => (<<r, sub>> \in dirs' <=> <<r, sub>> \in dirs)
    BY GameHubAdds
  <1>3. HostOK' /\ Paths!Exe' = Paths!Exe /\ Paths!NoPath' = Paths!NoPath
        /\ (Paths!IsFlatpak(Paths!Exe)' <=> Paths!IsFlatpak(Paths!Exe))
    BY <1>1, <1>2, HostStays, LaunchStays DEF Paths!NoPath, Paths!IsFlatpak
  <1>4. Pcsx2Looks /\ Pcsx2Looks'
    BY <1>1, <1>2, <1>3, Pcsx2SavesAre, LooksNext
  <1>5. /\ <<"flat", "memcards">> \in dirs' <=> <<"flat", "memcards">> \in dirs
        /\ <<"native", "memcards">> \in dirs' <=> <<"native", "memcards">> \in dirs
        /\ <<"custom", "memcards">> \in dirs' <=> <<"custom", "memcards">> \in dirs
        /\ <<"appdata", "memcards">> \in dirs' <=> <<"appdata", "memcards">> \in dirs
        /\ <<"documents", "memcards">> \in dirs' <=> <<"documents", "memcards">> \in dirs
        /\ <<"support", "memcards">> \in dirs' <=> <<"support", "memcards">> \in dirs
    BY <1>2
  <1>6. onHost.os = "nt" => {"appdata", "documents"} \subseteq Paths!ConfRoots
    BY DEF Paths!ConfRoots, Paths!os, Paths!emu
  <1>7. onHost.os = "darwin" => {"support", "override"} \subseteq Paths!ConfRoots
    BY DEF Paths!ConfRoots, Paths!os, Paths!emu
  <1>8. CASE onHost.os = "linux"
    <2>1. Paths!SaveRoot = IF Paths!IsFlatpak(Paths!Exe)
                           THEN IF <<"flat", "memcards">> \in dirs THEN <<"flat", "memcards">> ELSE Paths!NoPath
                           ELSE IF <<"native", "memcards">> \in dirs THEN <<"native", "memcards">> ELSE Paths!NoPath
      BY <1>4, <1>8 DEF Pcsx2Looks
    <2>2. Paths!SaveRoot' = (IF Paths!IsFlatpak(Paths!Exe)
                           THEN IF <<"flat", "memcards">> \in dirs THEN <<"flat", "memcards">> ELSE Paths!NoPath
                           ELSE IF <<"native", "memcards">> \in dirs THEN <<"native", "memcards">> ELSE Paths!NoPath)'
      BY <1>2, <1>4, <1>8 DEF Pcsx2Looks
    <2> QED BY <1>3, <1>5, <2>1, <2>2
  <1>9. CASE onHost.os = "nt"
    <2>1. Paths!SaveRoot = IF /\ conf["appdata"] = "custom" \/ conf["documents"] = "custom"
                              /\ <<"custom", "memcards">> \in dirs
                           THEN <<"custom", "memcards">>
                           ELSE IF <<"appdata", "memcards">> \in dirs THEN <<"appdata", "memcards">>
                           ELSE IF <<"documents", "memcards">> \in dirs THEN <<"documents", "memcards">> ELSE Paths!NoPath
      BY <1>4, <1>9 DEF Pcsx2Looks
    <2>2. Paths!SaveRoot' = (IF /\ conf["appdata"] = "custom" \/ conf["documents"] = "custom"
                                /\ <<"custom", "memcards">> \in dirs
                             THEN <<"custom", "memcards">>
                             ELSE IF <<"appdata", "memcards">> \in dirs THEN <<"appdata", "memcards">>
                             ELSE IF <<"documents", "memcards">> \in dirs THEN <<"documents", "memcards">> ELSE Paths!NoPath)'
      BY <1>2, <1>4, <1>9 DEF Pcsx2Looks
    <2> QED BY <1>2, <1>3, <1>5, <1>6, <1>9, <2>1, <2>2
  <1>10. CASE onHost.os = "darwin"
    <2>1. Paths!SaveRoot = IF /\ conf["support"] = "custom" \/ (onHost.override /\ conf["override"] = "custom")
                              /\ <<"custom", "memcards">> \in dirs
                           THEN <<"custom", "memcards">>
                           ELSE IF <<"support", "memcards">> \in dirs THEN <<"support", "memcards">> ELSE Paths!NoPath
      BY <1>4, <1>10 DEF Pcsx2Looks
    <2>2. Paths!SaveRoot' = (IF /\ conf["support"] = "custom" \/ (onHost.override /\ conf["override"] = "custom")
                                /\ <<"custom", "memcards">> \in dirs
                             THEN <<"custom", "memcards">>
                             ELSE IF <<"support", "memcards">> \in dirs THEN <<"support", "memcards">> ELSE Paths!NoPath)'
      BY <1>2, <1>4, <1>10 DEF Pcsx2Looks
    <2> QED BY <1>2, <1>3, <1>5, <1>7, <1>10, <2>1, <2>2
  <1> QED BY <1>1, <1>8, <1>9, <1>10 DEF HostOK

LEMMA AzaharRootStays ==
  ASSUME PathsInv, Paths!GameHubStep, Paths!SaveRoot \in dirs, onHost.emu = "azahar"
  PROVE  Paths!SaveRoot' = Paths!SaveRoot
  <1>1. HostOK /\ \A d \in dirs : <<d[1], "">> \in dirs
    BY DEF PathsInv, PathsTyped
  <1>2. /\ UNCHANGED <<onHost, byPath, at>> /\ dirs \subseteq dirs'
        /\ \A r, sub : sub \notin {"", "Config", "system", "GC"} => (<<r, sub>> \in dirs' <=> <<r, sub>> \in dirs)
    BY GameHubAdds
  <1>3. HostOK' /\ Paths!Exe' = Paths!Exe /\ Paths!NoPath' = Paths!NoPath
        /\ (Paths!IsFlatpak(Paths!Exe)' <=> Paths!IsFlatpak(Paths!Exe))
    BY <1>1, <1>2, HostStays, LaunchStays DEF Paths!NoPath, Paths!IsFlatpak
  <1>4. AzaharLooks /\ AzaharLooks'
    BY <1>1, <1>2, <1>3, AzaharSavesAre, LooksNext
  <1>5. /\ <<"flat", "sdmc">> \in dirs' <=> <<"flat", "sdmc">> \in dirs
        /\ <<"native", "sdmc">> \in dirs' <=> <<"native", "sdmc">> \in dirs
        /\ <<"appdata", "sdmc">> \in dirs' <=> <<"appdata", "sdmc">> \in dirs
        /\ <<"xdg", "sdmc">> \in dirs' <=> <<"xdg", "sdmc">> \in dirs
        /\ <<"support", "sdmc">> \in dirs' <=> <<"support", "sdmc">> \in dirs
        /\ DotSaves' = DotSaves
    BY <1>2, <1>3 DEF DotSaves
  <1>6. /\ <<"xdg", "sdmc">> \in dirs => <<"xdg", "">> \in dirs /\ <<"xdg", "">> \in dirs'
        /\ <<"support", "sdmc">> \in dirs => <<"support", "">> \in dirs /\ <<"support", "">> \in dirs'
    <2>1. <<"xdg", "sdmc">>[1] = "xdg" /\ <<"support", "sdmc">>[1] = "support"
      OBVIOUS
    <2> QED BY <1>1, <1>2, <2>1
  <1>7. Paths!NoPath \notin dirs
    BY DEF PathsInv, PathsTyped, Paths!NoPath
  <1>8. CASE onHost.os = "linux"
    <2>1. Paths!SaveRoot = IF Paths!IsFlatpak(Paths!Exe)
                           THEN IF <<"flat", "sdmc">> \in dirs THEN <<"flat", "sdmc">> ELSE Paths!NoPath
                           ELSE IF <<"native", "sdmc">> \in dirs THEN <<"native", "sdmc">> ELSE Paths!NoPath
      BY <1>4, <1>8 DEF AzaharLooks
    <2>2. Paths!SaveRoot' = (IF Paths!IsFlatpak(Paths!Exe)
                             THEN IF <<"flat", "sdmc">> \in dirs THEN <<"flat", "sdmc">> ELSE Paths!NoPath
                             ELSE IF <<"native", "sdmc">> \in dirs THEN <<"native", "sdmc">> ELSE Paths!NoPath)'
      BY <1>2, <1>4, <1>8 DEF AzaharLooks
    <2> QED BY <1>2, <1>3, <1>5, <1>8, <2>1, <2>2
  <1>10. CASE onHost.os = "nt"
    <2>1. Paths!SaveRoot = IF <<"appdata", "sdmc">> \in dirs THEN <<"appdata", "sdmc">> ELSE Paths!NoPath

      BY <1>4, <1>10 DEF AzaharLooks
    <2>2. Paths!SaveRoot' = (IF <<"appdata", "sdmc">> \in dirs THEN <<"appdata", "sdmc">> ELSE Paths!NoPath
)'
      BY <1>2, <1>4, <1>10 DEF AzaharLooks
    <2> QED BY <1>2, <1>3, <1>5, <1>10, <2>1, <2>2
  <1>9. CASE onHost.os = "darwin"
    <2>1. Paths!SaveRoot = IF <<"support", "">> \in dirs /\ <<"xdg", "">> \notin dirs
                           THEN IF <<"support", "sdmc">> \in dirs THEN <<"support", "sdmc">>
                                ELSE IF <<"xdg", "sdmc">> \in dirs THEN <<"xdg", "sdmc">> ELSE DotSaves
                           ELSE IF <<"xdg", "sdmc">> \in dirs THEN <<"xdg", "sdmc">>
                                ELSE IF <<"support", "sdmc">> \in dirs THEN <<"support", "sdmc">> ELSE DotSaves
      BY <1>4, <1>9 DEF AzaharLooks
    <2>2. Paths!SaveRoot' = (IF <<"support", "">> \in dirs /\ <<"xdg", "">> \notin dirs
                             THEN IF <<"support", "sdmc">> \in dirs THEN <<"support", "sdmc">>
                                  ELSE IF <<"xdg", "sdmc">> \in dirs THEN <<"xdg", "sdmc">> ELSE DotSaves
                             ELSE IF <<"xdg", "sdmc">> \in dirs THEN <<"xdg", "sdmc">>
                                  ELSE IF <<"support", "sdmc">> \in dirs THEN <<"support", "sdmc">> ELSE DotSaves)'
      BY <1>2, <1>4, <1>9 DEF AzaharLooks
    <2> QED BY <1>3, <1>5, <1>6, <2>1, <2>2
  <1> QED BY <1>1, <1>8, <1>9, <1>10 DEF HostOK

LEMMA DolphinRootStays ==
  ASSUME PathsInv, Paths!GameHubStep, Paths!SaveRoot \in dirs, onHost.emu = "dolphin",
         shortcut \in {Paths!NoShortcut, shortcut'}
  PROVE  Paths!SaveRoot' = Paths!SaveRoot
  <1>1. HostOK /\ DolphinKnown /\ Paths!NoPath \notin dirs /\ (\A d \in dirs : <<d[1], "">> \in dirs)
        /\ (\A d \in dirs : d[1] # "none")
    BY DEF PathsInv, PathsTyped, Paths!NoPath
  <1>2. UNCHANGED <<onHost, byPath, at>> /\ dirs \subseteq dirs' /\ (Paths!Download => dirs' = dirs)
    BY GameHubAdds
  <1>3. HostOK'
    BY <1>1, <1>2, HostStays
  <1>4. PICK x \in Paths!Roots : x = Paths!DolphinData /\ <<x, "GC">> \in dirs /\ Paths!SaveRoot = <<x, "GC">>
    <2>1. Paths!DolphinData \in Paths!Roots \cup {"none"}
      BY <1>1, DolphinRootsAre
    <2>2. Paths!SaveRoot = IF Paths!DolphinData # "none" /\ <<Paths!DolphinData, "GC">> \in dirs
                           THEN <<Paths!DolphinData, "GC">> ELSE Paths!NoPath
      BY <1>1, DolphinRootsAre
    <2> QED BY <1>1, <2>1, <2>2
  <1>5. shortcut # Paths!NoShortcut /\ shortcut' = shortcut
    BY <1>1, <1>4 DEF DolphinKnown
  <1>6. dirs' = dirs \/ (onHost.os = "linux" /\ \A r : <<r, "">> \in dirs' <=> <<r, "">> \in dirs)
    <2>1. CASE Paths!Download
      BY <1>2, <2>1
    <2>2. CASE Paths!Sync
      <3>1. PICK u, fs, S : /\ u = Paths!DolphinUser /\ fs = Paths!DolphinConfs
                               /\ S = {<<u, "GC">>} \cup {<<r, "Config">> : r \in fs}
        OBVIOUS
      <3>2. u = shortcut.user
        BY <1>5, <2>2, <3>1 DEF Paths!Sync, Paths!Wanted, Paths!emu
      <3>3. <<u, "GC">> \in dirs /\ <<u, "Config">> \in dirs
        BY <1>1, <1>5, <3>2 DEF DolphinKnown
      <3>4. dirs' = Paths!WithRoots(dirs \cup S)
        <4>1. Paths!Targets = {<<u, "GC">>} /\ Paths!Configured = fs
          BY <1>1, <3>1, TargetsAre DEF Paths!Configured, Paths!emu
        <4>2. (dirs \cup {<<u, "GC">>}) \cup {<<r, "Config">> : r \in fs} = dirs \cup S
          BY <3>1
        <4> QED BY <2>2, <4>1, <4>2 DEF Paths!Sync, Paths!emu, Paths!In
      <3>5. CASE onHost.override \/ onHost.os # "linux"
        <4>1. fs = {u}
          <5>1. CASE onHost.override
            BY <3>1, <5>1 DEF Paths!DolphinConfs, Paths!DolphinUser
          <5>2. CASE ~onHost.override
            BY <3>1, <3>5, <5>2 DEF Paths!DolphinConfs, Paths!os
          <5> QED BY <5>1, <5>2
        <4>2. dirs \cup S = dirs
          BY <3>1, <3>3, <4>1
        <4>3. dirs' = dirs
          BY <1>1, <3>4, <4>2 DEF Paths!WithRoots, Paths!In
        <4> QED BY <4>3
      <3>6. CASE ~onHost.override /\ onHost.os = "linux"
        <4>1. \A r \in fs : <<r, "">> \in dirs
          <5>1. <<u, "">> \in dirs
            <6>1. <<u, "GC">>[1] = u
              OBVIOUS
            <6> QED BY <1>1, <3>3, <6>1
          <5>2. \E r \in {"flatConfig", "nativeConfig", "native"} : <<r, "">> \in dirs
            BY <1>1, <1>5, <3>6 DEF DolphinKnown
          <5>3. PICK td : td = {r \in {"flatConfig", "nativeConfig", "native"} : <<r, "">> \in dirs}
            OBVIOUS
          <5>4. fs = {u} \cup td
            BY <3>1, <3>6, <5>2, <5>3 DEF Paths!DolphinConfs, Paths!os, Paths!Exists, Paths!In
          <5> QED BY <5>1, <5>3, <5>4
        <4>2. \A d \in S : d[1] # "none" /\ <<d[1], "">> \in dirs
          <5>1. u # "none" /\ <<u, "">> \in dirs
            <6>1. <<u, "GC">>[1] = u
              OBVIOUS
            <6> QED BY <1>1, <3>3, <6>1
          <5>2. \A r \in fs : r # "none"
            <6> TAKE r \in fs
            <6>1. <<r, "">>[1] = r /\ <<r, "">> \in dirs
              BY <4>1
            <6> QED BY <1>1, <6>1
          <5>3. \A y, z : <<y, z>>[1] = y
            OBVIOUS
          <5> TAKE d \in S
          <5>4. CASE d = <<u, "GC">>
            BY <5>1, <5>3, <5>4
          <5>5. CASE \E r \in fs : d = <<r, "Config">>
            <6>1. PICK r \in fs : d = <<r, "Config">>
              BY <5>5
            <6>2. d[1] = r
              BY <5>3, <6>1
            <6> QED BY <4>1, <5>2, <6>2
          <5> QED BY <3>1, <5>4, <5>5
        <4>3. \A r : <<r, "">> \in dirs' => <<r, "">> \in dirs
          <5>1. PICK T : T = dirs'
            OBVIOUS
          <5>2. \A r : <<r, "">> \in T => <<r, "">> \in dirs \/ \E e \in S : e[1] = r
            <6>1. T = Paths!WithRoots(dirs \cup S)
              BY <3>4, <5>1
            <6>2. \A d \in dirs : d[1] # "none" /\ <<d[1], "">> \in dirs
              BY <1>1
            <6>3. \A d \in S : d[1] # "none"
              BY <4>2
            <6> QED BY ONLY <6>1, <6>2, <6>3, Grown
          <5> QED BY <4>2, <5>1, <5>2
        <4> QED BY <1>2, <3>6, <4>3
      <3> QED BY <3>5, <3>6
    <2> QED BY <2>1, <2>2 DEF Paths!GameHubStep
  <1>7. Paths!DolphinData' = x
    BY <1>1, <1>2, <1>4, <1>6, DolphinStays
  <1>8. (HostOK /\ onHost.emu = "dolphin" =>
           Paths!SaveRoot = IF Paths!DolphinData # "none" /\ <<Paths!DolphinData, "GC">> \in dirs
                            THEN <<Paths!DolphinData, "GC">> ELSE Paths!NoPath)'
    BY LooksNext
  <1>9. x # "none" /\ <<x, "GC">> \in dirs'
    BY <1>2, <1>4 DEF Paths!Roots
  <1> QED BY <1>2, <1>3, <1>4, <1>7, <1>8, <1>9

\* A sync does not change which of RetroArch's roots on a Mac comes first.
LEMMA MacStays ==
  ASSUME PathsInv, Paths!GameHubStep, Paths!SaveRoot \in dirs, onHost.emu = "retroarch", onHost.os = "darwin"
  PROVE  Paths!MacRoots("documents", "support")[1]' = Paths!MacRoots("documents", "support")[1]
  <1>1. HostOK /\ PathsTyped
    BY DEF PathsInv, PathsTyped
  <1>2. UNCHANGED <<onHost, byPath, at>> /\ dirs \subseteq dirs' /\ (Paths!Download => dirs' = dirs)
    BY GameHubAdds
  <1>3. HostOK'
    BY <1>1, <1>2, HostStays
  <1>4. PICK m : m = Paths!MacRoots("documents", "support")[1]
    OBVIOUS
  <1>5. m = IF <<"support", "">> \in dirs /\ <<"documents", "">> \notin dirs THEN "support" ELSE "documents"
    <2>1. PICK a \in Paths!Roots, b \in Paths!Roots : a = "documents" /\ b = "support"
      BY DEF Paths!Roots
    <2>2. Paths!MacRoots(a, b)[1] = IF <<b, "">> \in dirs /\ <<a, "">> \notin dirs THEN b ELSE a
      BY MacRootsAre
    <2> QED BY <1>4, <2>1, <2>2
  <1>6. Paths!MacRoots("documents", "support")[1]' =
          IF <<"support", "">> \in dirs' /\ <<"documents", "">> \notin dirs' THEN "support" ELSE "documents"
    BY <1>2, <1>3, LooksNext
  <1>7. CASE Paths!Download
    BY <1>2, <1>4, <1>5, <1>6, <1>7
  <1>8. CASE Paths!Sync
    <2>1. PICK S, T : S = Paths!Targets /\ T = Paths!WithRoots(dirs \cup S)
      OBVIOUS
    <2>2. dirs' = T
      <3>1. (dirs \cup S) \cup {} = dirs \cup S
        OBVIOUS
      <3> QED BY <1>8, <2>1, <3>1 DEF Paths!Sync, Paths!emu
    <2>3. (\A d \in S : d[1] # "none") /\ <<m, "system">> \in S
      BY <1>1, <1>4, <2>1, TargetsAre
    <2>4. /\ S \subseteq T /\ \A d \in T : <<d[1], "">> \in T
          /\ \A r : <<r, "">> \in T => <<r, "">> \in dirs \/ \E e \in S : e[1] = r
      <3>1. \A d \in dirs : d[1] # "none" /\ <<d[1], "">> \in dirs
        BY <1>1 DEF PathsTyped
      <3>2. T = Paths!WithRoots(dirs \cup S) /\ \A d \in S : d[1] # "none"
        BY <2>1, <2>3
      <3> QED BY ONLY <3>1, <3>2, Grown
    <2>5. <<m, "">> \in dirs'
      <3>1. <<m, "system">>[1] = m
        OBVIOUS
      <3> QED BY <2>2, <2>3, <2>4, <3>1
    <2>6. CASE m = "documents"
      BY <1>4, <1>6, <2>5, <2>6
    <2>7. CASE m = "support"
      <3>1. <<"documents", "">> \notin dirs
        BY <1>5, <2>7
      <3>2. \A e \in S : e[1] # "documents"
        <4> DEFINE ex == onHost.override /\ onHost.os # "nt"
        <4>1. PICK cs : cs = Paths!RetroArchConfs(ex)
          OBVIOUS
        <4>2. S =
                {<<IF conf[r] = "custom" THEN "custom" ELSE Paths!RootOf(r), "system">> : r \in cs \cap Paths!WithConf}
                \cup (IF onHost.override THEN {<<"override", "system">>} ELSE {})
                \cup {<<m, "system">>}
          BY <1>4, <2>1, <4>1 DEF Paths!Targets, Paths!RetroArchSystems, Paths!RetroArchIn, Paths!emu, Paths!os, Paths!In
        <4>3. \A x, y : <<x, y>>[1] = x
          OBVIOUS
        <4>4. \A r \in cs \cap Paths!WithConf : conf[r] = "custom" \/ Paths!RootOf(r) # "documents"
          <5> TAKE r \in cs \cap Paths!WithConf
          <5>1. CASE r \in {"documents", "documentsConfig"}
            <6>1. r \in Paths!ConfRoots /\ conf[r] # "absent"
              BY DEF Paths!WithConf, Paths!HasConf
            <6>2. conf[r] \in {"absent", "plain", "custom"}
              BY <1>1, <6>1 DEF PathsTyped
            <6>3. conf[r] # "plain"
              BY <3>1, <5>1 DEF PathsInv
            <6> QED BY <6>1, <6>2, <6>3
          <5>2. CASE r \notin {"documents", "documentsConfig"}
            BY <5>2 DEF Paths!RootOf
          <5> QED BY <5>1, <5>2
        <4> TAKE e \in S
        <4>5. CASE \E r \in cs \cap Paths!WithConf :
                     e = <<IF conf[r] = "custom" THEN "custom" ELSE Paths!RootOf(r), "system">>
          <5>1. PICK r \in cs \cap Paths!WithConf :
                     e = <<IF conf[r] = "custom" THEN "custom" ELSE Paths!RootOf(r), "system">>
            BY <4>5
          <5>2. PICK x : x = IF conf[r] = "custom" THEN "custom" ELSE Paths!RootOf(r)
            OBVIOUS
          <5>3. e = <<x, "system">> /\ x # "documents"
            BY <4>4, <5>1, <5>2
          <5> QED BY <4>3, <5>3
        <4>6. CASE e = <<"override", "system">> \/ e = <<m, "system">>
          BY <2>7, <4>3, <4>6
        <4> QED BY <4>2, <4>5, <4>6
      <3>3. <<"documents", "">> \notin dirs'
        BY <2>2, <2>4, <3>1, <3>2
      <3> QED BY <1>4, <1>6, <2>5, <2>7, <3>3
    <2> QED BY <1>5, <2>6, <2>7
  <1> QED BY <1>7, <1>8 DEF Paths!GameHubStep

\* Of the configurations whose directory is there, the first stays the first.
LEMMA FirstConfStays ==
  ASSUME PathsInv, Paths!GameHubStep, Paths!SaveRoot \in dirs, onHost.emu = "retroarch",
         NEW S \in SUBSET Paths!RetroArchConfs(onHost.os = "darwin" /\ onHost.override)
  PROVE  Paths!RetroArchConf(S, "none")' = Paths!RetroArchConf(S, "none")
  <1>1. HostOK /\ PathsTyped
    BY DEF PathsInv, PathsTyped
  <1>2. /\ UNCHANGED <<onHost, byPath, at>> /\ (Paths!Download => conf' = conf)
        /\ \A r \in Paths!ConfRoots :
             /\ conf[r] # "absent" => conf'[r] # "absent"
             /\ conf'[r] # "absent" => conf[r] # "absent" \/ (Paths!Sync /\ r \in Paths!Configured)
    BY GameHubAdds
  <1>3. Paths!IsFlatpak(Paths!Exe)' <=> Paths!IsFlatpak(Paths!Exe)
    BY <1>2, LaunchStays DEF Paths!IsFlatpak
  <1>4. CASE "override" \in S
    BY <1>4 DEF Paths!RetroArchConf
  <1>5. CASE "override" \notin S /\ onHost.os # "darwin"
    BY <1>1, <1>2, <1>3, <1>5 DEF HostOK, Paths!RetroArchConf, Paths!os, Paths!FirstIn
  <1>6. CASE "override" \notin S /\ onHost.os = "darwin"
    <2>1. PICK t : t = (Paths!MacRoots("documents", "support")[1] = "documents")
      OBVIOUS
    <2>2. PICK W, V : W = Paths!WithConf /\ V = Paths!WithConf'
      OBVIOUS
    <2>3. PICK x : x = IF t THEN "documentsConfig" ELSE "supportConfig"
      OBVIOUS
    <2>4. PICK a, b, c, d :
            /\ <<a, b, c, d>> = IF t THEN <<"documentsConfig", "supportConfig", "documents", "support">>
                                ELSE <<"supportConfig", "documentsConfig", "support", "documents">>
            /\ a = x /\ {a, b, c, d} = {"documentsConfig", "supportConfig", "documents", "support"}
      <3>1. CASE t
        BY <2>3, <3>1
      <3>2. CASE ~t
        <4>1. {"supportConfig", "documentsConfig", "support", "documents"} =
                {"documentsConfig", "supportConfig", "documents", "support"}
          OBVIOUS
        <4> QED BY <2>3, <3>2, <4>1
      <3> QED BY <3>1, <3>2
    <2>5. Paths!RetroArchConf(S, "none") =
            Paths!FirstIn(<<a, b, c, d>>, S \cap W, Paths!FirstIn(<<a, b, c, d>>, S, "none"))
      BY <1>6, <2>1, <2>2, <2>4 DEF Paths!RetroArchConf, Paths!os
    <2>6. Paths!RetroArchConf(S, "none")' =
            Paths!FirstIn(<<a, b, c, d>>, S \cap V, Paths!FirstIn(<<a, b, c, d>>, S, "none"))
      <3>1. t = (Paths!MacRoots("documents", "support")[1]' = "documents")
        BY <1>6, <2>1, MacStays
      <3>2. PICK seq : seq = <<a, b, c, d>>
        OBVIOUS
      <3>3. seq = IF Paths!MacRoots("documents", "support")[1]' = "documents"
                    THEN <<"documentsConfig", "supportConfig", "documents", "support">>
                    ELSE <<"supportConfig", "documentsConfig", "support", "documents">>
        BY <2>4, <3>1, <3>2
      <3>4. Paths!RetroArchConf(S, "none")' =
              Paths!FirstIn(seq, S \cap V, Paths!FirstIn(seq, S, "none"))
        BY <1>2, <1>6, <2>2, <3>3 DEF Paths!RetroArchConf, Paths!os, Paths!FirstIn
      <3> QED BY <3>2, <3>4
    <2>7. \A r \in S \ W : r \in V => /\ ~onHost.override /\ r = a
                                      /\ S \cap W = {}
      <3> SUFFICES ASSUME NEW r \in S, r \notin W, r \in V
                   PROVE  ~onHost.override /\ r = a /\ S \cap W = {}
        OBVIOUS
      <3>1. S \subseteq {"documentsConfig", "supportConfig", "documents", "support"}
        BY <1>6 DEF Paths!RetroArchConfs, Paths!os
      <3>2. {"documentsConfig", "supportConfig", "documents", "support"} \subseteq Paths!ConfRoots
        BY <1>6 DEF Paths!ConfRoots, Paths!os, Paths!emu
      <3>3. conf[r] = "absent" /\ r \in Paths!ConfRoots
        BY <2>2, <3>1, <3>2 DEF Paths!WithConf, Paths!HasConf
      <3>4. conf'[r] # "absent"
        BY <2>2 DEF Paths!WithConf, Paths!HasConf
      <3>5. r \in Paths!Configured /\ r # "override"
        BY <1>2, <3>1, <3>3, <3>4
      <3>6. ~onHost.override /\ Paths!RetroArchConfs(FALSE) \cap Paths!WithConf = {} /\ r = x
        BY <1>1, <2>1, <2>2, <2>3, <3>5, ConfiguredIs
      <3>7. S \subseteq Paths!RetroArchConfs(FALSE)
        BY <1>6, <3>1 DEF Paths!RetroArchConfs, Paths!os
      <3> QED BY <2>2, <2>4, <3>6, <3>7
    <2>8. S \cap W \subseteq V
      <3>1. \A r \in W : r \in V
        BY <1>2, <2>2, HostStays DEF Paths!WithConf, Paths!HasConf
      <3> QED BY <3>1
    <2>9. PICK y : y = Paths!FirstIn(<<a, b, c, d>>, S, "none")
      OBVIOUS
    <2>10. y = IF a \in S THEN a ELSE IF b \in S THEN b ELSE IF c \in S THEN c ELSE IF d \in S THEN d ELSE "none"
      BY <2>9, First4
    <2>11. \A T : Paths!FirstIn(<<a, b, c, d>>, T, y) =
                    IF a \in T THEN a ELSE IF b \in T THEN b ELSE IF c \in T THEN c ELSE IF d \in T THEN d ELSE y
      BY First4
    <2>12. CASE S \cap V = S \cap W
      BY <2>5, <2>6, <2>12
    <2>13. CASE S \cap V # S \cap W
      <3>1. S \cap W = {} /\ S \cap V = {a} /\ a \in S
        BY <2>7, <2>8, <2>13
      <3>2. Paths!FirstIn(<<a, b, c, d>>, S \cap V, y) = a
        BY <2>11, <3>1
      <3>3. Paths!FirstIn(<<a, b, c, d>>, S \cap W, y) = y
        BY <2>11, <3>1
      <3> QED BY <2>5, <2>6, <2>9, <2>10, <3>1, <3>2, <3>3
    <2> QED BY <2>12, <2>13
  <1> QED BY <1>4, <1>5, <1>6

LEMMA RetroArchRootStays ==
  ASSUME PathsInv, Paths!GameHubStep, Paths!SaveRoot \in dirs, onHost.emu = "retroarch"
  PROVE  Paths!SaveRoot' = Paths!SaveRoot
  <1>1. HostOK /\ \A d \in dirs : <<d[1], "">> \in dirs
    BY DEF PathsInv, PathsTyped
  <1>2. /\ UNCHANGED <<onHost, byPath, at>> /\ dirs \subseteq dirs'
        /\ \A r \in Paths!ConfRoots : conf'[r] = "custom" <=> conf[r] = "custom"
        /\ \A r, sub : sub \notin {"", "Config", "system", "GC"} => (<<r, sub>> \in dirs' <=> <<r, sub>> \in dirs)
    BY GameHubAdds
  <1>3. HostOK' /\ Paths!Exe' = Paths!Exe /\ (Paths!IsFlatpak(Paths!Exe)' <=> Paths!IsFlatpak(Paths!Exe))
    BY <1>1, <1>2, HostStays, LaunchStays DEF Paths!IsFlatpak
  <1>4. RetroArchLooks /\ RetroArchLooks' /\ RetroArchDefaultLooks /\ RetroArchDefaultLooks'
    BY <1>1, <1>2, <1>3, RetroArchSavesAre, RetroArchDefaultIs, LooksNext
  <1>5. /\ <<"native", "saves">> \in dirs' <=> <<"native", "saves">> \in dirs
        /\ <<"appdata", "saves">> \in dirs' <=> <<"appdata", "saves">> \in dirs
        /\ <<"documents", "saves">> \in dirs' <=> <<"documents", "saves">> \in dirs
        /\ <<"support", "saves">> \in dirs' <=> <<"support", "saves">> \in dirs
    BY <1>2
  <1>6. /\ <<"documents", "saves">> \in dirs => <<"documents", "">> \in dirs /\ <<"documents", "">> \in dirs'
        /\ <<"support", "saves">> \in dirs => <<"support", "">> \in dirs /\ <<"support", "">> \in dirs'
    <2>1. <<"documents", "saves">>[1] = "documents" /\ <<"support", "saves">>[1] = "support"
      OBVIOUS
    <2> QED BY <1>1, <1>2, <2>1
  <1>7. RetroArchDefault' = RetroArchDefault
    <2>1. CASE onHost.os = "linux"
      BY <1>2, <1>4, <1>5, <2>1 DEF RetroArchDefaultLooks
    <2>2. CASE onHost.os = "nt"
      BY <1>2, <1>4, <1>5, <2>2 DEF RetroArchDefaultLooks
    <2>3. CASE onHost.os = "darwin"
      <3>1. RetroArchDefault = MacFirst("documents", "support", <<"documents", "saves">> \in dirs,
                                        <<"support", "saves">> \in dirs, "none")
        BY <1>4, <2>3 DEF RetroArchDefaultLooks
      <3>2. RetroArchDefault' = MacFirst("documents", "support", <<"documents", "saves">> \in dirs,
                                         <<"support", "saves">> \in dirs, "none")'
        BY <1>2, <1>4, <2>3 DEF RetroArchDefaultLooks
      <3> QED BY <1>5, <1>6, <3>1, <3>2 DEF MacFirst
    <2> QED BY <1>1, <2>1, <2>2, <2>3 DEF HostOK
  <1>8. PICK cs : cs = Paths!RetroArchConfs(onHost.os = "darwin" /\ onHost.override)
    OBVIOUS
  <1>9. cs \subseteq Paths!ConfRoots
    BY <1>1, <1>8 DEF HostOK, Paths!RetroArchConfs, Paths!ConfRoots, Paths!os, Paths!emu
  <1>10. \A r \in cs : Paths!RetroArchIn(r, "saves")' = Paths!RetroArchIn(r, "saves")
    BY <1>2, <1>9 DEF Paths!RetroArchIn, Paths!In, Paths!RootOf
  <1>11. RetroArchFound' = RetroArchFound
    <2>1. Paths!RetroArchConfs(onHost.os = "darwin" /\ onHost.override)' = cs
      BY <1>2, <1>3, <1>8 DEF Paths!RetroArchConfs, Paths!os
    <2>2. \A r \in cs : Paths!RetroArchIn(r, "saves") \in dirs' <=> Paths!RetroArchIn(r, "saves") \in dirs
      <3> TAKE r \in cs
      <3>1. PICK x : x = IF conf[r] = "custom" THEN "custom" ELSE Paths!RootOf(r)
        OBVIOUS
      <3>2. Paths!RetroArchIn(r, "saves") = <<x, "saves">>
        BY <3>1 DEF Paths!RetroArchIn, Paths!In
      <3> QED BY <1>2, <3>2
    <2>3. RetroArchFound = {r \in cs : Paths!RetroArchIn(r, "saves") \in dirs}
      BY <1>8 DEF RetroArchFound
    <2>4. RetroArchFound' = {r \in cs : Paths!RetroArchIn(r, "saves")' \in dirs'}
      BY <2>1 DEF RetroArchFound
    <2> QED BY <1>10, <2>2, <2>3, <2>4
  <1>12. CASE Paths!IsFlatpak(Paths!Exe)
    BY <1>3, <1>4, <1>12 DEF RetroArchLooks
  <1>13. CASE ~Paths!IsFlatpak(Paths!Exe) /\ RetroArchFound # {}
    <2>1. PICK F, f : F = RetroArchFound /\ f = Paths!RetroArchConf(F, "none")
      OBVIOUS
    <2>2. F \in SUBSET cs /\ F # {}
      BY <1>8, <1>13, <2>1 DEF RetroArchFound
    <2>3. f \in cs
      <3>1. f \in F
        <4>1. PICK ex \in BOOLEAN : ex = (onHost.os = "darwin" /\ onHost.override)
          OBVIOUS
        <4>2. F \in SUBSET Paths!RetroArchConfs(ex)
          BY <1>8, <2>2, <4>1
        <4> QED BY <1>1, <2>1, <2>2, <4>2, RetroArchConfIs
      <3> QED BY <2>2, <3>1
    <2>4. Paths!RetroArchConf(F, "none")' = f
      BY <1>8, <2>1, <2>2, FirstConfStays
    <2>5. Paths!RetroArchConf(RetroArchFound, "none")' = f
      <3>1. F = RetroArchFound'
        BY <1>11, <2>1
      <3> QED BY <2>4, <3>1
    <2>6. Paths!SaveRoot = Paths!RetroArchIn(f, "saves")
      BY <1>4, <1>13, <2>1 DEF RetroArchLooks
    <2>7. Paths!SaveRoot' = Paths!RetroArchIn(Paths!RetroArchConf(RetroArchFound, "none"), "saves")'
      BY <1>3, <1>4, <1>11, <1>13 DEF RetroArchLooks
    <2>8. Paths!RetroArchIn(Paths!RetroArchConf(RetroArchFound, "none"), "saves")' = Paths!RetroArchIn(f, "saves")'
      BY <2>5
    <2> QED BY <1>10, <2>3, <2>6, <2>7, <2>8
  <1>14. CASE ~Paths!IsFlatpak(Paths!Exe) /\ RetroArchFound = {}
    BY <1>3, <1>4, <1>7, <1>11, <1>14 DEF RetroArchLooks
  <1> QED BY <1>12, <1>13, <1>14

LEMMA GameHubStays ==
  ASSUME PathsInv
  PROVE  Paths!RootStays
  <1> SUFFICES ASSUME Paths!GameHubStep, Paths!SaveRoot \in dirs, shortcut \in {Paths!NoShortcut, shortcut'}
               PROVE  Paths!SaveRoot' = Paths!SaveRoot
    BY DEF Paths!RootStays, Paths!Exists
  <1> QED BY Pcsx2RootStays, AzaharRootStays, DolphinRootStays, RetroArchRootStays
    DEF PathsInv, PathsTyped, HostOK

LEMMA AvailableLaunched ==
  ASSUME PathsInv
  PROVE  Paths!AvailableIsLaunched
  BY ResolveIs DEF PathsInv, PathsTyped, Paths!AvailableIsLaunched, Paths!Exe

LEMMA PathsStep ==
  ASSUME PathsInv, [Paths!Next]_Paths!vars
  PROVE  PathsInv'
  BY SyncInv, DownloadInv, LaunchInv, InstallsInv, ConfiguresInv, StillInv DEF Paths!Next, Paths!GameHubStep

\* Whatever the user, the emulators and GameHub itself do to the host, what is
\* called available is launched, the saves are looked for where the launched
\* emulator wrote them, a sync configures what its shortcut starts, and the
\* root of the saves does not move by GameHub's own steps.
THEOREM EmulatorsAreFound ==
  ASSUME PathHosts
  PROVE  Paths!Spec => []PathsInv /\ []Paths!TypeOK /\ [][Paths!PathsAgree]_Paths!vars
  <1>1. Paths!Init => PathsInv
    BY PathsInit
  <1>2. PathsInv /\ [Paths!Next]_Paths!vars => PathsInv'
    BY PathsStep
  <1>3. PathsInv => Paths!TypeOK
    BY TypedIs DEF PathsInv
  <1>4. PathsInv => Paths!AvailableIsLaunched /\ Paths!SavesAreSeen
    BY AvailableLaunched, SavesSeen
  <1>5. PathsInv => Paths!SyncWritesRead /\ Paths!RootStays
    BY SyncWrites, GameHubStays
  <1>6. ASSUME Paths!AvailableIsLaunched', Paths!SavesAreSeen', Paths!SyncWritesRead, Paths!RootStays
        PROVE  Paths!PathsAgree
    BY <1>6, Zenon DEF Paths!PathsAgree
  <1> QED BY <1>1, <1>2, <1>3, <1>4, <1>5, <1>6, PTL DEF Paths!Spec

-----------------------------------------------------------------------------
(* The client.                                                             *)

\* Whatever part moves, every part is in a behaviour of its own specification.
THEOREM PartsAreTheirOwn ==
  DeviceSpec => /\ Spec /\ Backups!Spec /\ Exact!Spec /\ Learned!Spec /\ Install!Spec
                /\ Paths!Spec
  <1>1. DeviceInit => /\ Init /\ Backups!Init /\ Exact!Init /\ Learned!Init /\ Install!Init
                      /\ Paths!Init
    BY DEF DeviceInit
  <1>2. [DeviceNext]_vars =>
          /\ [UNCHANGED inputs]_inputs /\ [Backups!Next]_Backups!vars
          /\ [Exact!Next]_Exact!vars /\ [Learned!Next]_Learned!vars /\ [Install!Next]_Install!vars
          /\ [Paths!Next]_Paths!vars
    <2>1. UNCHANGED vars =>
            /\ UNCHANGED inputs /\ UNCHANGED Backups!vars
            /\ UNCHANGED Exact!vars /\ UNCHANGED Learned!vars /\ UNCHANGED Install!vars
            /\ UNCHANGED Paths!vars
      BY DEF vars, backupVars, exactVars, learnedVars, installVars, pathVars,
        Backups!vars, Exact!vars, Learned!vars, Install!vars, Paths!vars
    <2>2. DeviceNext =>
            /\ UNCHANGED inputs /\ [Backups!Next]_Backups!vars
            /\ [Exact!Next]_Exact!vars /\ [Learned!Next]_Learned!vars /\ [Install!Next]_Install!vars
            /\ [Paths!Next]_Paths!vars
      BY DEF DeviceNext, backupVars, exactVars, learnedVars, installVars, pathVars,
        Backups!vars, Exact!vars, Learned!vars, Install!vars, Paths!vars
    <2> QED BY <2>1, <2>2
  <1> QED BY <1>1, <1>2, PTL DEF DeviceSpec, Spec, Backups!Spec, Exact!Spec, Learned!Spec,
    Install!Spec, Paths!Spec

\* So are the edits; of a client whose other parts move, the file is not there.
THEOREM EditsAreTheirOwn ==
  ASSUME EmulatorFiles
  PROVE  DeviceSpec => Edits!Spec
  <1>1. DeviceInit => Edits!Init
    <2> SUFFICES ASSUME DeviceInit PROVE Edits!Init
      OBVIOUS
    <2>1. CASE part = "edits"
      BY <2>1 DEF DeviceInit
    <2>2. CASE part # "edits"
      <3>1. /\ emu = CHOOSE e \in Emulators : TRUE
            /\ there = FALSE /\ lines = <<>> /\ kept = Edits!NoBackup /\ edits = 0
        BY <2>2 DEF DeviceInit
      <3>2. emu \in Emulators
        BY <3>1 DEF EmulatorFiles
      <3>3. lines \in Edits!SeqOf(Edits!UserLines, MaxLines)
        <4>1. <<>> \in [1 .. 0 -> Edits!UserLines] /\ 0 \in 0 .. MaxLines
          BY DEF EmulatorFiles
        <4> QED BY <3>1, <4>1 DEF Edits!SeqOf
      <3> QED BY <3>1, <3>2, <3>3 DEF Edits!Init
    <2> QED BY <2>1, <2>2
  <1>2. [DeviceNext]_vars => [Edits!Next]_Edits!vars
    BY DEF DeviceNext, vars, editVars, Edits!vars
  <1> QED BY <1>1, <1>2, PTL DEF DeviceSpec, Edits!Spec

\* Every variable of the part that moves keeps its type.
THEOREM DeviceTypes ==
  ASSUME Limits, Bounded, LearnRules, Libraries, PathHosts, EmulatorFiles
  PROVE  DeviceSpec => []TypeOK
  <1> DEFINE Part == part \in {"decision", "backups", "exact", "learned", "paths", "edits", "install"}
  <1>1. DeviceInit => Part
    BY DEF DeviceInit
  <1>2. Part /\ [DeviceNext]_vars => Part'
    BY DEF DeviceNext, vars
  <1>3. EditsInv => Edits!TypeOK
    BY DEF EditsInv
  <1>4. ASSUME Part, Backups!TypeOK, Exact!TypeOK, Learned!TypeOK, Paths!TypeOK,
               Install!TypeOK, Edits!TypeOK
        PROVE  TypeOK
    <2>1. CASE part = "decision"
      BY <1>4, <2>1 DEF TypeOK
    <2>2. CASE part = "backups"
      BY <1>4, <2>2 DEF TypeOK
    <2>3. CASE part = "exact"
      BY <1>4, <2>3 DEF TypeOK
    <2>4. CASE part = "learned"
      BY <1>4, <2>4 DEF TypeOK
    <2>5. CASE part = "paths"
      BY <1>4, <2>5 DEF TypeOK
    <2>6. CASE part = "edits"
      BY <1>4, <2>6 DEF TypeOK
    <2>7. CASE part = "install"
      BY <1>4, <2>7 DEF TypeOK
    <2> QED BY <1>4, <2>1, <2>2, <2>3, <2>4, <2>5, <2>6, <2>7
  <1> HIDE DEF Part
  <1> QED BY <1>1, <1>2, <1>3, <1>4, PartsAreTheirOwn, EditsAreTheirOwn, BackupTypes, ExactTypesHold,
    LearnedTypes, InstallationTypes, EmulatorsAreFound, EditedFiles, PTL DEF DeviceSpec

\* No decision about a save overwrites one side by a guess (resolve_save_action).
THEOREM NoSaveIsGuessed == DeviceSpec => []NothingIsGuessed
  BY PartsAreTheirOwn, DecisionIsSound, PTL

\* The backups that are kept of a file are the last ones made, but for those that
\* come after the first KeepLimit + 1 of one second, which are pruned as they are
\* made (backup_existing_file, prune_backup_family).
THEOREM NewestAreKept ==
  ASSUME Limits
  PROVE  DeviceSpec => []KeepsNewest
  <1>1. Backups!KeepsNewest => KeepsNewest
    BY DEF KeepsNewest
  <1> QED BY <1>1, PartsAreTheirOwn, LastBackupsAreKept, PTL

\* Discovery and download agree on the file of a save, for any of its names.
THEOREM DiscoveriesAgree ==
  ASSUME Bounded
  PROVE  DeviceSpec => []DiscoveryAgrees
  <1>1. Exact!DiscoveryAgrees => DiscoveryAgrees
    BY DEF DiscoveryAgrees
  <1> QED BY <1>1, PartsAreTheirOwn, SearchesAgree, PTL

\* A learned file comes back to the path it came from; it comes down to where the
\* game plays from, unless the device has a directory of another 3DS profile; and
\* a session uploads the saves of its own title, unless it is on a GameCube card,
\* or one without a save of a title nobody has saves of, or a later one of that
\* title (learn_binding_root, resolve_local_save_destination).
THEOREM LearnedTreesTravel ==
  ASSUME LearnRules
  PROVE  DeviceSpec => TreeTravels
  <1>1. [DeviceNext]_vars /\ [Learned!TreeTravels]_Learned!vars =>
          [part = "learned" => Learned!TreeTravels]_vars
    <2>1. ASSUME DeviceNext, part = "learned", UNCHANGED Learned!vars PROVE UNCHANGED vars
      BY <2>1 DEF DeviceNext, vars, learnedVars, Learned!vars
    <2> QED BY <2>1
  <1> QED BY <1>1, PartsAreTheirOwn, TreesTravel, PTL DEF DeviceSpec, TreeTravels

\* Wherever an installation ends (ensure_emulators): half an emulator is not taken
\* for one, except for Dolphin on Windows; a bundle on a Mac stays, unless it is
\* killed between the two moves or the move back fails; Dolphin's data goes only
\* with an installation that could not be started; and a sync that ends in order
\* has installed the others.
THEOREM InstallsAreSafe ==
  ASSUME Libraries
  PROVE  DeviceSpec => InstallIsSafe
  <1>1. [DeviceNext]_vars /\ [Install!InstallIsSafe]_Install!vars =>
          [part = "install" => Install!InstallIsSafe]_vars
    <2>1. ASSUME DeviceNext, part = "install", UNCHANGED Install!vars PROVE UNCHANGED vars
      BY <2>1 DEF DeviceNext, vars, installVars, Install!vars
    <2> QED BY <2>1
  <1> QED BY <1>1, PartsAreTheirOwn, InstallationsAreSafe, PTL DEF DeviceSpec, InstallIsSafe

\* The searches of an emulator and of its directories agree, whatever is done
\* to the host (resolution.py, save_resolution.py, targets.py), and every edit
\* of a configuration file settles (write_controller_config_lines_atomic).
THEOREM PathsAlwaysAgree ==
  ASSUME PathHosts, EmulatorFiles
  PROVE  DeviceSpec => PathsAgree
  <1>1. [DeviceNext]_vars /\ [Paths!PathsAgree]_Paths!vars /\ [Edits!EditsSettle]_Edits!vars =>
          [(part = "paths" => Paths!PathsAgree) /\ (part = "edits" => Edits!EditsSettle)]_vars
    <2>1. ASSUME DeviceNext, part = "paths", UNCHANGED Paths!vars PROVE UNCHANGED vars
      BY <2>1 DEF DeviceNext, vars, pathVars, Paths!vars
    <2>2. ASSUME DeviceNext, part = "edits", UNCHANGED Edits!vars PROVE UNCHANGED vars
      BY <2>2 DEF DeviceNext, vars, editVars, Edits!vars
    <2> QED BY <2>1, <2>2
  <1> QED BY <1>1, PartsAreTheirOwn, EditsAreTheirOwn, EmulatorsAreFound, EditedFiles, PTL
    DEF DeviceSpec, PathsAgree
=============================================================================
