------------------------- MODULE SteamLibraryProofs --------------------------
(***************************************************************************)
(* What the Steam stage keeps and brings in line, for any titles,          *)
(* executables, launchers and number of runs and edits.                    *)
(***************************************************************************)
EXTENDS SteamLibrary, FiniteSetTheorems, SequenceTheorems, TLAPS

-----------------------------------------------------------------------------
(* Sequences                                                               *)

\* A set as a sequence: its elements, each of them.
LEMMA SetToSeqHasAll ==
  ASSUME NEW S, IsFiniteSet(S)
  PROVE  /\ SetToSeq(S) \in Seq(S)
         /\ \A x \in S : \E i \in DOMAIN SetToSeq(S) : SetToSeq(S)[i] = x
  <1> DEFINE n == Cardinality(S)
             s == SetToSeq(S)
  <1>1. n \in Nat /\ \E f : f \in Bijection(1..n, S)
    BY FS_CardinalityType DEF ExistsBijection
  <1>2. \E f \in [1..n -> S] : IsInjective(f)
    BY <1>1 DEF Bijection, Injection
  <1>3. s \in [1..n -> S] /\ IsInjective(s)
    BY <1>2 DEF SetToSeq
  <1>4. IsFiniteSet(1..n) /\ Cardinality(1..n) = n
    <2>1. 1 \in Int /\ n \in Int /\ (1 > n => n = 0) /\ n - 1 + 1 = n
      BY <1>1
    <2> QED BY <2>1, FS_Interval
  <1> HIDE DEF s
  <1>5. s \in Surjection(1..n, S)
    <2>1. s \in Injection(1..n, S)
      BY <1>3 DEF Injection
    <2> QED BY <1>4, <2>1, FS_Injection
  <1>6. s \in Seq(S) /\ DOMAIN s = 1..n
    BY <1>1, <1>3
  <1>7. \A x \in S : \E i \in 1..n : s[i] = x
    BY <1>5 DEF Surjection
  <1> QED BY <1>6, <1>7 DEF s

\* The places of the entries that are not managed, and the n-th of them.
At(sc) == {i \in DOMAIN sc : ~IsManaged(sc[i])}
Rank(sc, i) == Cardinality({j \in At(sc) : j <= i})
Nth(sc, n) == CHOOSE i \in At(sc) : Rank(sc, i) = n

LEMMA ForeignIs ==
  ASSUME NEW sc
  PROVE  Foreign(sc) = [n \in 1 .. Cardinality(At(sc)) |-> sc[Nth(sc, n)]]
  BY DEF Foreign, At, Rank, Nth

\* There is an n-th one for every n up to their number.
LEMMA NthIsThere ==
  ASSUME NEW E, NEW sc \in Seq(E)
  PROVE  /\ IsFiniteSet(At(sc)) /\ Cardinality(At(sc)) \in Nat
         /\ \A n \in 1 .. Cardinality(At(sc)) : Nth(sc, n) \in At(sc) /\ Rank(sc, Nth(sc, n)) = n
  <1> DEFINE at == At(sc)
             c == Cardinality(at)
             upTo(i) == {j \in at : j <= i}
             f == [i \in at |-> Rank(sc, i)]
  <1>1. IsFiniteSet(at) /\ c \in Nat /\ at \subseteq Nat
    <2>1. IsFiniteSet(1 .. Len(sc)) /\ at \subseteq 1 .. Len(sc)
      BY FS_Interval DEF At
    <2> QED BY <2>1, FS_Subset, FS_CardinalityType
  <1>2. ASSUME NEW i \in at
        PROVE  /\ IsFiniteSet(upTo(i)) /\ Rank(sc, i) = Cardinality(upTo(i))
               /\ Rank(sc, i) \in 1 .. c
    <2>1. IsFiniteSet(upTo(i)) /\ Cardinality(upTo(i)) <= c /\ Cardinality(upTo(i)) \in Nat
      BY <1>1, FS_Subset, FS_CardinalityType
    <2>2. upTo(i) # {}
      BY <1>1
    <2>3. Cardinality(upTo(i)) # 0
      BY <2>1, <2>2, FS_EmptySet
    <2> QED BY <1>1, <2>1, <2>3 DEF Rank
  <1>3. ASSUME NEW i \in at, NEW k \in at, i < k PROVE Rank(sc, i) # Rank(sc, k)
    <2>1. upTo(i) \in SUBSET upTo(k) /\ k \in upTo(k) /\ k \notin upTo(i)
      BY <1>1, <1>3
    <2>2. upTo(i) # upTo(k)
      BY <2>1
    <2> HIDE DEF upTo
    <2> QED BY <1>2, <2>1, <2>2, FS_Subset
  <1> HIDE DEF c
  <1>4. f \in Injection(at, 1 .. c)
    <2>1. f \in [at -> 1 .. c]
      BY <1>2
    <2>2. IsInjective(f)
      BY <1>1, <1>3 DEF IsInjective
    <2> QED BY <2>1, <2>2 DEF Injection
  <1>5. IsFiniteSet(1 .. c) /\ Cardinality(1 .. c) = c
    <2>1. 1 \in Int /\ c \in Int /\ (1 > c => c = 0) /\ c - 1 + 1 = c
      BY <1>1
    <2> QED BY <2>1, FS_Interval
  <1>6. f \in Surjection(at, 1 .. c)
    <2> HIDE DEF f, at
    <2> QED BY <1>4, <1>5, FS_Injection DEF c
  <1>7. \A n \in 1 .. c : \E i \in at : Rank(sc, i) = n
    BY <1>6 DEF Surjection
  <1> QED BY <1>1, <1>7 DEF Nth, c

\* They are entries of the file, and none of them is managed.
LEMMA ForeignType ==
  ASSUME NEW E, NEW sc \in Seq(E)
  PROVE  /\ Foreign(sc) \in Seq(E)
         /\ \A n \in DOMAIN Foreign(sc) : ~IsManaged(Foreign(sc)[n])
  <1>1. \A n \in 1 .. Cardinality(At(sc)) : Nth(sc, n) \in DOMAIN sc /\ ~IsManaged(sc[Nth(sc, n)])
    BY NthIsThere DEF At
  <1>2. Foreign(sc) \in [1 .. Cardinality(At(sc)) -> E]
    BY <1>1, ForeignIs
  <1>3. Cardinality(At(sc)) \in Nat
    BY NthIsThere
  <1> QED BY <1>1, <1>2, <1>3, ForeignIs

\* Managed entries behind them do not matter ...
LEMMA ForeignBefore ==
  ASSUME NEW E, NEW sc \in Seq(E), NEW sd \in Seq(E), \A i \in DOMAIN sd : IsManaged(sd[i])
  PROVE  Foreign(sc \o sd) = Foreign(sc)
  <1>1. /\ DOMAIN (sc \o sd) = 1 .. Len(sc) + Len(sd)
        /\ \A i \in DOMAIN sc : (sc \o sd)[i] = sc[i]
        /\ \A i \in DOMAIN (sc \o sd) : i \notin DOMAIN sc =>
             i - Len(sc) \in DOMAIN sd /\ (sc \o sd)[i] = sd[i - Len(sc)]
    BY ConcatProperties
  <1>2. At(sc \o sd) = At(sc)
    BY <1>1 DEF At
  <1>3. \A n : Nth(sc \o sd, n) = Nth(sc, n)
    BY <1>2 DEF Nth, Rank
  <1>4. \A n \in 1 .. Cardinality(At(sc)) : (sc \o sd)[Nth(sc, n)] = sc[Nth(sc, n)]
    BY <1>1, NthIsThere DEF At
  <1> QED BY <1>2, <1>3, <1>4, ForeignIs

\* ... and a file with nothing else is left as it is.
LEMMA ForeignOnly ==
  ASSUME NEW E, NEW sc \in Seq(E), \A i \in DOMAIN sc : ~IsManaged(sc[i])
  PROVE  Foreign(sc) = sc
  <1>1. At(sc) = 1 .. Len(sc) /\ Len(sc) \in Nat
    BY DEF At
  <1>2. Cardinality(At(sc)) = Len(sc)
    <2>1. 1 \in Int /\ Len(sc) \in Int /\ (1 > Len(sc) => Len(sc) = 0) /\ Len(sc) - 1 + 1 = Len(sc)
      BY <1>1
    <2> QED BY <1>1, <2>1, FS_Interval
  <1>3. ASSUME NEW i \in 1 .. Len(sc) PROVE Rank(sc, i) = i
    <2>1. {j \in At(sc) : j <= i} = 1 .. i
      BY <1>1
    <2>2. i \in Int /\ 1 \in Int /\ ~(1 > i) /\ i - 1 + 1 = i
      OBVIOUS
    <2> QED BY <2>1, <2>2, FS_Interval DEF Rank
  <1>4. \A n \in 1 .. Len(sc) : Nth(sc, n) = n
    BY <1>1, <1>2, <1>3, NthIsThere
  <1>5. Foreign(sc) = [n \in 1 .. Len(sc) |-> sc[n]]
    BY <1>2, <1>4, ForeignIs
  <1> QED BY <1>5

-----------------------------------------------------------------------------
(* Numbers                                                                 *)

\* A set of numbers has a smallest one ...
LEMMA Smallest ==
  ASSUME NEW T \in SUBSET Nat, T # {}
  PROVE  \E n \in T : \A m \in T : n <= m
  <1> DEFINE R == {p \in Nat \X Nat : p[1] < p[2]}
  <1>1. IsWellFoundedOn(R, Nat)
    BY NatLessThanWellFounded DEF OpToRel
  <1>2. T \subseteq Nat
    OBVIOUS
  <1>3. \E x \in T : \A y \in T : ~(<<y, x>> \in R)
    <2> HIDE DEF R
    <2> QED BY ONLY <1>1, <1>2, T # {}, WFMin
  <1>4. \A x, y \in Nat : y < x => <<y, x>> \in R
    OBVIOUS
  <1>5. \A x, y \in Nat : ~(y < x) => x <= y
    OBVIOUS
  <1> HIDE DEF R
  <1> QED BY <1>2, <1>3, <1>4, <1>5

\* ... and, when it is finite, a largest one.
LEMMA Largest ==
  ASSUME NEW S \in SUBSET Nat, IsFiniteSet(S)
  PROVE  \E b \in {0} \cup S : \A x \in S : x <= b
  <1>1. PICK n \in Nat : \E f : f \in Bijection(1..n, S)
    BY FS_NatBijection DEF ExistsBijection
  <1>2. PICK f \in [1..n -> S] : \A x \in S : \E i \in 1..n : f[i] = x
    BY <1>1 DEF Bijection, Injection, Surjection
  <1> DEFINE Good(k) == \E b \in {0} \cup S : \A i \in 1..k : f[i] <= b
             Bad == {k \in 0..n : ~Good(k)}
  <1>3. Bad = {}
    <2> SUFFICES ASSUME Bad # {} PROVE FALSE
      OBVIOUS
    <2>1. Bad \in SUBSET Nat
      OBVIOUS
    <2>2. PICK k \in Bad : \A m \in Bad : k <= m
      <3> HIDE DEF Bad
      <3> QED BY <2>1, Smallest
    <2>3. Good(0)
      OBVIOUS
    <2>4. k \in 1..n /\ k - 1 \in 0..n /\ Good(k - 1)
      <3>1. k \in 0..n /\ k # 0
        BY <2>2, <2>3
      <3>2. k - 1 \in 0..n /\ ~(k <= k - 1) /\ k \in 1..n
        BY <3>1
      <3>3. k - 1 \notin Bad
        <4> HIDE DEF Bad
        <4> QED BY <2>2, <3>2
      <3> HIDE DEF Good
      <3> QED BY <3>2, <3>3
    <2>5. PICK b \in {0} \cup S : \A i \in 1..(k - 1) : f[i] <= b
      BY <2>4
    <2>6. f[k] \in S /\ f[k] \in Nat /\ b \in Nat
      <3>1. k \in 1..n
        BY <2>4
      <3>2. f[k] \in S
        BY <1>2, <3>1
      <3>3. b \in Nat
        OBVIOUS
      <3> QED BY <3>2, <3>3
    <2>7. \A i \in 1..k : i \in 1..(k - 1) \/ i = k
      BY <2>4
    <2>8. \A i \in 1..(k - 1) : f[i] \in Nat
      <3>1. \A i \in 1..(k - 1) : i \in 1..n
        BY <2>4
      <3> QED BY <1>2, <3>1
    <2>9. CASE f[k] <= b
      BY <2>2, <2>5, <2>7, <2>9
    <2>10. CASE b < f[k]
      <3>1. \A i \in 1..k : f[i] <= f[k]
        BY <2>5, <2>6, <2>7, <2>8, <2>10
      <3> QED BY <2>2, <2>6, <3>1
    <2> QED BY <2>6, <2>9, <2>10
  <1>4. Good(n)
    <2> HIDE DEF Good
    <2> QED BY <1>1, <1>3
  <1> QED BY <1>2, <1>4

-----------------------------------------------------------------------------
(* The entries of shortcuts.vdf                                            *)

ManagedEntries == [title : Titles, id : Ids]

\* The managed entries are those that are not the user's.
LEMMA EntryKinds ==
  ASSUME NEW e \in Entries
  PROVE  IsManaged(e) <=> e \in ManagedEntries
  <1>1. ASSUME NEW n PROVE UserEntry(n).title = None
    BY DEF UserEntry
  <1>2. \A m \in ManagedEntries : m.title \in Titles /\ m.title # None
    BY SteamAssumption DEF ManagedEntries
  <1>3. e \in ManagedEntries \/ \E n \in 0 .. MaxEdits : e = UserEntry(n)
    BY DEF Entries, ManagedEntries
  <1> QED BY <1>1, <1>2, <1>3 DEF IsManaged

LEMMA ManagedType ==
  ASSUME NEW sc \in Seq(Entries)
  PROVE  /\ Managed(sc) \subseteq ManagedEntries
         /\ \A e \in Managed(sc) : e.title \in Titles /\ e.id \in Ids /\ SystemOf[e.title] \in Systems
  <1>1. Managed(sc) \subseteq ManagedEntries
    <2>1. \A i \in DOMAIN sc : sc[i] \in Entries
      OBVIOUS
    <2> QED BY <2>1, EntryKinds DEF Managed, Range
  <1>2. \A e \in ManagedEntries : e.title \in Titles /\ e.id \in Ids
    BY DEF ManagedEntries
  <1> QED BY <1>1, <1>2 DEF Systems

\* Their ids, of a system and in all.
LEMMA IdsType ==
  ASSUME NEW sc \in Seq(Entries)
  PROVE  /\ AllIds(sc) \subseteq Ids
         /\ \A s : IdsOfSystem(sc, s) \subseteq AllIds(sc)
         /\ \A x \in AllIds(sc) : \E s \in Systems : x \in IdsOfSystem(sc, s)
         /\ Collections(sc) \in [Systems -> SUBSET Ids]
         /\ \A s \in Systems : Collections(sc)[s] = IdsOfSystem(sc, s)
         /\ TemplateManaged(sc) \subseteq Ids
  <1>1. AllIds(sc) \subseteq Ids
    BY ManagedType DEF AllIds
  <1>2. \A s : IdsOfSystem(sc, s) \subseteq AllIds(sc)
    BY DEF IdsOfSystem, AllIds
  <1>3. \A x \in AllIds(sc) : \E s \in Systems : x \in IdsOfSystem(sc, s)
    BY ManagedType DEF AllIds, IdsOfSystem
  <1>4. \A s : IdsOfSystem(sc, s) \subseteq Ids
    BY <1>1, <1>2
  <1>5. /\ Collections(sc) \in [Systems -> SUBSET Ids]
        /\ \A s \in Systems : Collections(sc)[s] = IdsOfSystem(sc, s)
    BY <1>4 DEF Collections
  <1>6. TemplateManaged(sc) \subseteq Ids
    <2>1. UNION {IdsOfSystem(sc, s) : s \in TemplateSystems \cap Systems} \subseteq Ids
      BY <1>4
    <2> QED BY <1>1, <2>1 DEF TemplateManaged
  <1> QED BY <1>1, <1>2, <1>3, <1>5, <1>6

\* The entry a title gets: the one it has, or a new one.
LEMMA BuildEntryIs ==
  ASSUME index \in [Titles -> Exes \cup {Absent}],
         NEW old \in SUBSET ManagedEntries, NEW t \in Desired
  PROVE  /\ BuildEntry(t, old) \in ManagedEntries
         /\ BuildEntry(t, old).title = t
         /\ (\E e \in old : e.title = t) => BuildEntry(t, old) \in old
  <1>1. t \in Titles /\ index[t] \in Exes
    BY DEF Desired
  <1>2. CASE \E e \in old : e.title = t
    BY <1>2 DEF BuildEntry
  <1>3. CASE ~ \E e \in old : e.title = t
    BY <1>1, <1>3 DEF BuildEntry, ManagedEntries, Ids
  <1> QED BY <1>2, <1>3

\* shortcuts.vdf as a run leaves it: what is not managed is as it was, and
\* the managed entries are those of the titles of the index.
LEMMA UpsertIs ==
  ASSUME index \in [Titles -> Exes \cup {Absent}], NEW sc \in Seq(Entries)
  PROVE  /\ Upsert(sc) \in Seq(Entries)
         /\ Foreign(Upsert(sc)) = Foreign(sc)
         /\ \A e \in Managed(Upsert(sc)) :
              e.title \in Desired /\ e = BuildEntry(e.title, Managed(sc))
         /\ \A t \in Desired : BuildEntry(t, Managed(sc)) \in Managed(Upsert(sc))
  <1> DEFINE old == Managed(sc)
             built == {BuildEntry(t, old) : t \in Desired}
             new == SetToSeq(built)
             fo == Foreign(sc)
  <1>1. old \in SUBSET ManagedEntries
    BY ManagedType
  <1>2. \A t \in Desired : BuildEntry(t, old) \in ManagedEntries /\ BuildEntry(t, old).title = t
    BY <1>1, BuildEntryIs
  <1>3. IsFiniteSet(built)
    <2> DEFINE f == [t \in Desired |-> BuildEntry(t, old)]
    <2>1. IsFiniteSet(Desired)
      BY SteamAssumption, FS_Subset DEF Desired
    <2>2. f \in Surjection(Desired, built)
      BY DEF Surjection
    <2> HIDE DEF f, built
    <2> QED BY <2>1, <2>2, FS_Surjection
  <1>4. new \in Seq(built) /\ \A x \in built : \E i \in DOMAIN new : new[i] = x
    <2> HIDE DEF built
    <2> QED BY <1>3, SetToSeqHasAll
  <1>5. built \subseteq ManagedEntries /\ ManagedEntries \subseteq Entries
    BY <1>2 DEF Entries, ManagedEntries
  <1>6. new \in Seq(Entries) /\ \A i \in DOMAIN new : new[i] \in built /\ IsManaged(new[i])
    <2>1. \A x \in built : x \in Entries /\ IsManaged(x)
      BY <1>5, EntryKinds
    <2> HIDE DEF new, built
    <2> QED BY <1>4, <2>1
  <1>7. fo \in Seq(Entries) /\ \A i \in DOMAIN fo : ~IsManaged(fo[i])
    BY ForeignType
  <1>8. Upsert(sc) = fo \o new
    BY DEF Upsert
  <1> HIDE DEF fo, new
  <1>9. /\ fo \o new \in Seq(Entries)
        /\ \A i \in DOMAIN (fo \o new) : (fo \o new)[i] \in {fo[j] : j \in DOMAIN fo} \cup {new[j] : j \in DOMAIN new}
        /\ \A j \in DOMAIN new : \E i \in DOMAIN (fo \o new) : (fo \o new)[i] = new[j]
    <2>1. fo \o new \in Seq(Entries) /\ Len(fo \o new) = Len(fo) + Len(new)
      BY <1>6, <1>7, ConcatProperties
    <2>2. \A i \in 1 .. Len(fo) + Len(new) :
            (fo \o new)[i] = IF i <= Len(fo) THEN fo[i] ELSE new[i - Len(fo)]
      BY <1>6, <1>7, ConcatProperties
    <2>3. Len(fo) \in Nat /\ Len(new) \in Nat /\ DOMAIN fo = 1 .. Len(fo) /\ DOMAIN new = 1 .. Len(new)
      BY <1>6, <1>7
    <2>4. DOMAIN (fo \o new) = 1 .. Len(fo) + Len(new)
      BY <2>1
    <2>5. ASSUME NEW i \in DOMAIN (fo \o new)
          PROVE  (fo \o new)[i] \in {fo[j] : j \in DOMAIN fo} \cup {new[j] : j \in DOMAIN new}
      <3>1. CASE i <= Len(fo)
        BY <2>2, <2>3, <2>4, <3>1
      <3>2. CASE ~(i <= Len(fo))
        <4>1. i - Len(fo) \in DOMAIN new /\ (fo \o new)[i] = new[i - Len(fo)]
          BY <2>2, <2>3, <2>4, <3>2
        <4> QED BY <4>1
      <3> QED BY <3>1, <3>2
    <2>6. ASSUME NEW j \in DOMAIN new
          PROVE  \E i \in DOMAIN (fo \o new) : (fo \o new)[i] = new[j]
      <3>1. /\ j + Len(fo) \in DOMAIN (fo \o new) /\ ~(j + Len(fo) <= Len(fo))
            /\ j + Len(fo) - Len(fo) = j
        BY <2>3, <2>4
      <3>2. (fo \o new)[j + Len(fo)] = new[j]
        BY <2>2, <2>4, <3>1
      <3> QED BY <3>1, <3>2
    <2> QED BY <2>1, <2>5, <2>6
  <1>10. Foreign(fo \o new) = fo
    <2>1. Foreign(fo \o new) = Foreign(fo)
      BY <1>6, <1>7, ForeignBefore
    <2> QED BY <1>7, <2>1, ForeignOnly
  <1>11. ASSUME NEW e \in Managed(fo \o new) PROVE e \in built
    <2>1. IsManaged(e) /\ e \in {fo[j] : j \in DOMAIN fo} \cup {new[j] : j \in DOMAIN new}
      BY <1>9 DEF Managed, Range
    <2> QED BY <1>6, <1>7, <2>1
  <1>12. ASSUME NEW e \in built PROVE e \in Managed(fo \o new)
    <2>1. PICK j \in DOMAIN new : new[j] = e
      BY <1>4
    <2>2. PICK i \in DOMAIN (fo \o new) : (fo \o new)[i] = new[j]
      BY <1>9
    <2> QED BY <1>6, <2>1, <2>2 DEF Managed, Range
  <1>13. ASSUME NEW e \in built PROVE e.title \in Desired /\ e = BuildEntry(e.title, old)
    BY <1>2
  <1>14. \A t \in Desired : BuildEntry(t, old) \in built
    OBVIOUS
  <1> HIDE DEF built, old
  <1>15. \A e \in Managed(fo \o new) : e.title \in Desired /\ e = BuildEntry(e.title, old)
    BY <1>11, <1>13
  <1>16. \A t \in Desired : BuildEntry(t, old) \in Managed(fo \o new)
    BY <1>12, <1>14
  <1> QED BY <1>8, <1>9, <1>10, <1>15, <1>16 DEF fo, old

\* An id per title; a run keeps it, and the ids themselves.
Unique(sc) == \A e, f \in Managed(sc) : e.title = f.title => e.id = f.id

LEMMA UpsertKeepsIds ==
  ASSUME index \in [Titles -> Exes \cup {Absent}], NEW sc \in Seq(Entries)
  PROVE  /\ Unique(Upsert(sc))
         /\ {e.title : e \in Managed(Upsert(sc))} = Desired
         /\ Unique(sc) => \A e \in Managed(sc), f \in Managed(Upsert(sc)) :
                              e.title = f.title => e.id = f.id
  <1>1. Unique(Upsert(sc))
    <2>1. ASSUME NEW e \in Managed(Upsert(sc)), NEW f \in Managed(Upsert(sc)), e.title = f.title
          PROVE  e = f
      BY <2>1, UpsertIs
    <2> QED BY <2>1 DEF Unique
  <1>2. \A t \in Desired : BuildEntry(t, Managed(sc)).title = t
    BY BuildEntryIs, ManagedType
  <1>3. {e.title : e \in Managed(Upsert(sc))} = Desired
    <2>1. \A e \in Managed(Upsert(sc)) : e.title \in Desired
      BY UpsertIs
    <2>2. \A t \in Desired : \E e \in Managed(Upsert(sc)) : e.title = t
      BY <1>2, UpsertIs
    <2> QED BY <2>1, <2>2
  <1>4. ASSUME Unique(sc), NEW e \in Managed(sc), NEW f \in Managed(Upsert(sc)), e.title = f.title
        PROVE  e.id = f.id
    <2>1. f.title \in Desired /\ f = BuildEntry(f.title, Managed(sc))
      BY UpsertIs
    <2>2. f \in Managed(sc)
      BY <1>4, <2>1, BuildEntryIs, ManagedType
    <2> QED BY <1>4, <2>2 DEF Unique
  <1> QED BY <1>1, <1>3, <1>4

-----------------------------------------------------------------------------
(* localconfig.vdf                                                         *)

LEMMA LoadLocalType ==
  ASSUME NEW l \in LocalFiles
  PROVE  /\ LoadLocal(l) \in LocalFiles /\ LoadLocal(l).ok
         /\ l.ok => LoadLocal(l) = l
         /\ EmptyLocal \in LocalFiles
  <1>1. EmptyLocal \in LocalFiles /\ EmptyLocal.ok
    BY DEF EmptyLocal, LocalFiles
  <1> HIDE DEF EmptyLocal
  <1> QED BY <1>1 DEF LoadLocal

LEMMA UpdateCollectionsIs ==
  ASSUME NEW l \in LocalFiles, NEW sc \in Seq(Entries)
  PROVE  /\ UpdateCollections(l, sc) \in LocalFiles
         /\ UpdateCollections(l, sc).ok
         /\ UpdateCollections(l, sc).coll = Collections(sc)
         /\ l.ok /\ l.user => UpdateCollections(l, sc).user
         /\ l.ok /\ l.coll = Collections(sc) => UpdateCollections(l, sc) = l
  <1> DEFINE k == LoadLocal(l)
             m == [k EXCEPT !.coll = Collections(sc)]
  <1>1. k \in LocalFiles /\ k.ok /\ (l.ok => k = l)
    BY LoadLocalType
  <1>2. Collections(sc) \in [Systems -> SUBSET Ids]
    BY IdsType
  <1> HIDE DEF k
  <1>3. m \in LocalFiles /\ m.ok /\ m.coll = Collections(sc) /\ m.user = k.user
    BY <1>1, <1>2 DEF LocalFiles
  <1> HIDE DEF m
  <1>4. UpdateCollections(l, sc) = IF l.ok /\ l.coll = Collections(sc) THEN l ELSE m
    BY DEF UpdateCollections, m, k
  <1> QED BY <1>1, <1>3, <1>4

LEMMA RepairOverridesIs ==
  ASSUME NEW l \in LocalFiles, NEW ids \in SUBSET Ids
  PROVE  LET r == RepairOverrides(l, ids) IN
         /\ r \in LocalFiles
         /\ r.ok = l.ok /\ r.user = l.user /\ r.apps = l.apps /\ r.coll = l.coll
         /\ l.ok /\ l.apps => ids \subseteq r.over
         /\ (l.apps => ids \subseteq l.over) => r = l
  <1> DEFINE m == [l EXCEPT !.over = @ \cup ids]
  <1>1. /\ m \in LocalFiles /\ m.over = l.over \cup ids
        /\ m.ok = l.ok /\ m.user = l.user /\ m.apps = l.apps /\ m.coll = l.coll
    BY DEF LocalFiles
  <1>2. ids \subseteq l.over => m = l
    <2>1. ids \subseteq l.over => l.over \cup ids = l.over
      OBVIOUS
    <2> QED BY <2>1 DEF LocalFiles
  <1> HIDE DEF m
  <1>3. RepairOverrides(l, ids) = IF l.ok /\ l.apps THEN m ELSE l
    BY DEF RepairOverrides, m
  <1> QED BY <1>1, <1>2, <1>3

-----------------------------------------------------------------------------
(* The cloud storage file                                                  *)

LEMMA SystemsFinite == IsFiniteSet(Systems)
  <1> DEFINE f == [t \in Titles |-> SystemOf[t]]
  <1>1. f \in Surjection(Titles, Systems)
    BY DEF Surjection, Systems
  <1> HIDE DEF f
  <1> QED BY <1>1, SteamAssumption, FS_Surjection

\* No entry on file has a version above the highest.
LEMMA MaxVersionIs ==
  ASSUME NEW entries \in [Systems -> CloudEntries]
  PROVE  /\ MaxVersion(entries) \in Nat
         /\ \A s \in Systems : entries[s].version \in Nat /\ entries[s].version <= MaxVersion(entries)
  <1> DEFINE V == {entries[s].version : s \in Systems}
             f == [s \in Systems |-> entries[s].version]
             High(n) == \A s \in Systems : entries[s].version <= n
  <1>1. \A s \in Systems : entries[s].version \in Nat
    BY DEF CloudEntries
  <1>2. IsFiniteSet(V)
    <2>1. f \in Surjection(Systems, V)
      BY DEF Surjection
    <2> HIDE DEF f, V
    <2> QED BY <2>1, SystemsFinite, FS_Surjection
  <1>3. \E b \in {0} \cup V : \A x \in V : x <= b
    <2>1. V \in SUBSET Nat
      BY <1>1
    <2> HIDE DEF V
    <2> QED BY <1>2, <2>1, Largest
  <1>4. \E n \in {0} \cup V : High(n)
    BY <1>3
  <1>5. MaxVersion(entries) = CHOOSE n \in {0} \cup V : High(n)
    BY DEF MaxVersion
  <1>6. MaxVersion(entries) \in {0} \cup V /\ High(MaxVersion(entries))
    <2> HIDE DEF V, High
    <2> QED BY <1>4, <1>5
  <1> QED BY <1>1, <1>6

LEMMA LoadCloudIs ==
  ASSUME NEW c \in CloudFiles
  PROVE  /\ LoadCloud(c) \in CloudFiles /\ LoadCloud(c).ok
         /\ LoadCloud(c) = IF c.ok THEN c ELSE LoadCloud(c)
         /\ ~c.ok => \A s \in Systems : LoadCloud(c).entries[s].kind = None
  <1> DEFINE n == [ok |-> TRUE, user |-> FALSE, entries |-> NoEntries]
  <1>1. NoEntries \in [Systems -> CloudEntries] /\ \A s \in Systems : NoEntries[s].kind = None
    BY DEF NoEntries, CloudEntries
  <1>2. n \in CloudFiles /\ n.ok /\ n.entries = NoEntries
    BY <1>1 DEF CloudFiles
  <1>3. LoadCloud(c) = IF c.ok THEN c ELSE n
    BY DEF LoadCloud
  <1> HIDE DEF n
  <1> QED BY <1>1, <1>2, <1>3

\* The parts of update_cloud_collections: the systems whose entry differs,
\* the order they are numbered in, and the entries as they are left.
Stale(c, sc) == {s \in Systems : IsStale(LoadCloud(c).entries[s], IdsOfSystem(sc, s))}
Order(c, sc) ==
  SetToSeq({s \in Stale(c, sc) : IdsOfSystem(sc, s) # {}})
    \o SetToSeq({s \in Stale(c, sc) : IdsOfSystem(sc, s) = {}})
Number(c, sc, s) ==
  MaxVersion(LoadCloud(c).entries) + CHOOSE i \in DOMAIN Order(c, sc) : Order(c, sc)[i] = s
Fresh(c, sc, s) ==
  [kind |-> IF IdsOfSystem(sc, s) # {} THEN "live" ELSE "deleted",
   ids |-> IdsOfSystem(sc, s), version |-> Number(c, sc, s)]
NewEntries(c, sc) ==
  [s \in Systems |-> IF s \in Stale(c, sc) THEN Fresh(c, sc, s) ELSE LoadCloud(c).entries[s]]

LEMMA UpdateCloudForm ==
  ASSUME NEW c, NEW sc
  PROVE  UpdateCloud(c, sc) =
           IF Stale(c, sc) = {} THEN c ELSE [LoadCloud(c) EXCEPT !.entries = NewEntries(c, sc)]
  BY DEF UpdateCloud, Stale, Order, Number, Fresh, NewEntries

\* Every entry that differs has a place of its own in the order.
LEMMA NumberIs ==
  ASSUME NEW c \in CloudFiles, NEW sc
  PROVE  /\ \A s \in Stale(c, sc) : Number(c, sc, s) \in Nat
                                     /\ Number(c, sc, s) > MaxVersion(LoadCloud(c).entries)
         /\ \A s, r \in Stale(c, sc) : s # r => Number(c, sc, s) # Number(c, sc, r)
  <1> DEFINE A == {s \in Stale(c, sc) : IdsOfSystem(sc, s) # {}}
             B == {s \in Stale(c, sc) : IdsOfSystem(sc, s) = {}}
             o == Order(c, sc)
             place(s) == CHOOSE i \in DOMAIN o : o[i] = s
             max == MaxVersion(LoadCloud(c).entries)
  <1>1. Stale(c, sc) \subseteq Systems /\ Stale(c, sc) = A \cup B
    BY DEF Stale
  <1>2. IsFiniteSet(A) /\ IsFiniteSet(B)
    <2>1. A \subseteq Systems /\ B \subseteq Systems
      BY <1>1
    <2> QED BY <2>1, SystemsFinite, FS_Subset
  <1>3. /\ o = SetToSeq(A) \o SetToSeq(B)
        /\ SetToSeq(A) \in Seq(Systems) /\ SetToSeq(B) \in Seq(Systems)
        /\ \A s \in A : \E i \in DOMAIN SetToSeq(A) : SetToSeq(A)[i] = s
        /\ \A s \in B : \E i \in DOMAIN SetToSeq(B) : SetToSeq(B)[i] = s
    <2>1. A \subseteq Systems /\ B \subseteq Systems
      BY <1>1
    <2>2. o = SetToSeq(A) \o SetToSeq(B)
      BY DEF Order
    <2> HIDE DEF A, B, o
    <2>3. SetToSeq(A) \in Seq(A) /\ SetToSeq(B) \in Seq(B)
      BY <1>2, SetToSeqHasAll
    <2>4. SetToSeq(A) \in Seq(Systems) /\ SetToSeq(B) \in Seq(Systems)
      BY <2>1, <2>3
    <2> QED BY <1>2, <2>2, <2>4, SetToSeqHasAll
  <1> HIDE DEF A, B, o
  <1>4. ASSUME NEW s \in Stale(c, sc) PROVE \E i \in DOMAIN o : o[i] = s
    <2> DEFINE a == SetToSeq(A)
               b == SetToSeq(B)
    <2>1. /\ a \in Seq(Systems) /\ b \in Seq(Systems) /\ o = a \o b
          /\ Len(a) \in Nat /\ Len(b) \in Nat /\ DOMAIN a = 1 .. Len(a) /\ DOMAIN b = 1 .. Len(b)
      BY <1>3
    <2>2. (s \in A => \E i \in DOMAIN a : a[i] = s) /\ (s \in B => \E i \in DOMAIN b : b[i] = s)
      BY <1>3
    <2> HIDE DEF a, b
    <2>3. DOMAIN o = 1 .. Len(a) + Len(b)
      BY <2>1, ConcatProperties
    <2>4. \A i \in 1 .. Len(a) + Len(b) : o[i] = IF i <= Len(a) THEN a[i] ELSE b[i - Len(a)]
      BY <2>1, ConcatProperties
    <2>5. CASE s \in A
      <3>1. PICK i \in DOMAIN a : a[i] = s
        BY <2>2, <2>5
      <3>2. i \in 1 .. Len(a) + Len(b) /\ i <= Len(a)
        BY <2>1
      <3> QED BY <2>3, <2>4, <3>1, <3>2
    <2>6. CASE s \in B
      <3>1. PICK i \in DOMAIN b : b[i] = s
        BY <2>2, <2>6
      <3>2. /\ i + Len(a) \in 1 .. Len(a) + Len(b) /\ ~(i + Len(a) <= Len(a))
            /\ i + Len(a) - Len(a) = i
        BY <2>1
      <3>3. o[i + Len(a)] = s
        BY <2>4, <3>1, <3>2
      <3> QED BY <2>3, <3>2, <3>3
    <2> QED BY <1>1, <2>5, <2>6
  <1>5. DOMAIN o \subseteq Nat \ {0}
    <2>1. o \in Seq(Systems)
      BY <1>3, ConcatProperties
    <2> QED BY <2>1
  <1>6. \A s \in Stale(c, sc) : place(s) \in Nat \ {0} /\ o[place(s)] = s
    BY <1>4, <1>5
  <1>7. \A s : Number(c, sc, s) = max + place(s)
    BY DEF Number, o
  <1>8. max \in Nat
    <2>1. LoadCloud(c).entries \in [Systems -> CloudEntries]
      BY LoadCloudIs DEF CloudFiles
    <2> QED BY <2>1, MaxVersionIs
  <1> HIDE DEF place, max
  <1>9. \A s \in Stale(c, sc) : Number(c, sc, s) \in Nat /\ Number(c, sc, s) > max
    BY <1>6, <1>7, <1>8
  <1>10. ASSUME NEW s \in Stale(c, sc), NEW r \in Stale(c, sc), s # r
         PROVE  Number(c, sc, s) # Number(c, sc, r)
    <2>1. place(s) # place(r)
      BY <1>6, <1>10
    <2> QED BY <1>6, <1>7, <1>8, <2>1
  <1> QED BY <1>9, <1>10 DEF max

\* Entries on file are live only where there is a shortcut, in a file that
\* can be read.
Alive(c) == \A s \in Systems : c.entries[s].kind = "live" => c.ok /\ c.entries[s].ids # {}

LEMMA UpdateCloudIs ==
  ASSUME NEW c \in CloudFiles, NEW sc \in Seq(Entries), Alive(c)
  PROVE  LET d == UpdateCloud(c, sc) IN
         /\ d \in CloudFiles /\ Alive(d)
         /\ c.ok => d.ok
         /\ c.ok /\ c.user => d.user
         /\ d.ok \/ AllIds(sc) = {}
         /\ LiveIds(d.entries) = Collections(sc)
         /\ (c.ok \/ AllIds(sc) = {}) /\ LiveIds(c.entries) = Collections(sc) => d = c
  <1> DEFINE k == LoadCloud(c)
             m == [k EXCEPT !.entries = NewEntries(c, sc)]
             d == UpdateCloud(c, sc)
             ids(s) == IdsOfSystem(sc, s)
             stale == Stale(c, sc)
  <1>1. /\ k \in CloudFiles /\ k.ok /\ (c.ok => k = c)
        /\ ~c.ok => \A s \in Systems : k.entries[s].kind = None
    BY LoadCloudIs
  <1>2. \A s \in Systems : ids(s) \subseteq Ids
    BY IdsType
  <1>3. AllIds(sc) = {} <=> \A s \in Systems : ids(s) = {}
    BY IdsType
  <1>4. stale \subseteq Systems /\ \A s \in Systems : s \in stale <=> IsStale(k.entries[s], ids(s))
    BY DEF Stale
  <1>5. NewEntries(c, sc) \in [Systems -> CloudEntries]
    <2>1. \A s \in stale : Fresh(c, sc, s) \in CloudEntries
      BY <1>2, <1>4, NumberIs DEF Fresh, CloudEntries
    <2>2. \A s \in Systems : k.entries[s] \in CloudEntries
      BY <1>1 DEF CloudFiles
    <2> HIDE DEF k, stale
    <2> QED BY <2>1, <2>2 DEF NewEntries, k, stale
  <1>6. \A s \in stale : /\ NewEntries(c, sc)[s].kind = IF ids(s) # {} THEN "live" ELSE "deleted"
                         /\ NewEntries(c, sc)[s].ids = ids(s)
    BY <1>4 DEF NewEntries, Fresh
  <1>7. \A s \in Systems : s \notin stale => NewEntries(c, sc)[s] = k.entries[s]
    BY DEF NewEntries
  <1>8. d = IF stale = {} THEN c ELSE m
    BY UpdateCloudForm
  <1> HIDE DEF k, d, ids, stale
  <1>9. m \in CloudFiles /\ m.ok /\ m.user = k.user /\ m.entries = NewEntries(c, sc)
    BY <1>1, <1>5 DEF CloudFiles
  <1> HIDE DEF m
  <1>10. \A s \in Systems : s \notin stale =>
            IF ids(s) # {} THEN k.entries[s].kind = "live" /\ k.entries[s].ids = ids(s)
            ELSE k.entries[s].kind # "live"
    BY <1>4 DEF IsStale
  <1>11. \A s \in Systems : s \notin stale =>
            IF d.entries[s].kind = "live" THEN ids(s) # {} /\ d.entries[s].ids = ids(s) ELSE ids(s) = {}
    <2>1. CASE stale # {}
      <3>1. \A s \in Systems : s \notin stale => d.entries[s] = k.entries[s]
        BY <1>7, <1>8, <1>9, <2>1
      <3> QED BY <1>10, <3>1
    <2>2. CASE stale = {} /\ c.ok
      <3>1. d = k
        BY <1>1, <1>8, <2>2
      <3> QED BY <1>10, <3>1
    <2>3. CASE stale = {} /\ ~c.ok
      <3>1. d = c /\ \A s \in Systems : c.entries[s].kind # "live"
        BY <1>8, <2>3 DEF Alive
      <3>2. \A s \in Systems : s \notin stale => ids(s) = {}
        BY <1>1, <1>10, <2>3 DEF None
      <3> QED BY <3>1, <3>2
    <2> QED BY <2>1, <2>2, <2>3
  <1>12. \A s \in Systems :
            IF d.entries[s].kind = "live" THEN ids(s) # {} /\ d.entries[s].ids = ids(s) ELSE ids(s) = {}
    BY <1>6, <1>8, <1>9, <1>11
  <1>13. d \in CloudFiles /\ (c.ok => d.ok) /\ (c.ok /\ c.user => d.user)
    BY <1>1, <1>8, <1>9
  <1>14. d.ok \/ AllIds(sc) = {}
    <2>1. CASE c.ok
      BY <1>13, <2>1
    <2>2. CASE ~c.ok /\ stale = {}
      BY <1>1, <1>3, <1>4, <2>2 DEF IsStale, None
    <2>3. CASE stale # {}
      BY <1>8, <1>9, <2>3
    <2> QED BY <2>1, <2>2, <2>3
  <1>15. Alive(d)
    <2>1. d.ok \/ \A s \in Systems : ids(s) = {}
      BY <1>3, <1>14
    <2> QED BY <1>12, <2>1 DEF Alive
  <1>16. LiveIds(d.entries) = Collections(sc)
    <2>1. \A s \in Systems : (IF d.entries[s].kind = "live" THEN d.entries[s].ids ELSE {}) = ids(s)
      BY <1>12
    <2> QED BY <2>1 DEF LiveIds, Collections, ids
  <1>17. ASSUME c.ok \/ AllIds(sc) = {}, LiveIds(c.entries) = Collections(sc) PROVE d = c
    <2>1. \A s \in Systems : (IF c.entries[s].kind = "live" THEN c.entries[s].ids ELSE {}) = ids(s)
      <3>1. \A s \in Systems : LiveIds(c.entries)[s] = Collections(sc)[s]
        BY <1>17
      <3> QED BY <3>1 DEF LiveIds, Collections, ids
    <2>2. \A s \in Systems : ~IsStale(k.entries[s], ids(s))
      <3>1. CASE c.ok
        BY <1>1, <2>1, <3>1 DEF IsStale, Alive
      <3>2. CASE ~c.ok
        BY <1>1, <1>3, <1>17, <3>2 DEF IsStale, None
      <3> QED BY <3>1, <3>2
    <2> QED BY <1>4, <1>8, <2>2
  <1> QED BY <1>13, <1>14, <1>15, <1>16, <1>17 DEF d

\* The entries that are rewritten get versions above all those on file, and
\* no two the same.
LEMMA UpdateCloudGrows ==
  ASSUME NEW c \in CloudFiles, NEW sc \in Seq(Entries), c.ok,
         NEW new, new = {s \in Systems : UpdateCloud(c, sc).entries[s] # c.entries[s]}
  PROVE  /\ \A s \in new, r \in Systems :
              UpdateCloud(c, sc).entries[s].version > c.entries[r].version
         /\ \A s, r \in new : s # r =>
              UpdateCloud(c, sc).entries[s].version # UpdateCloud(c, sc).entries[r].version
  <1> DEFINE d == UpdateCloud(c, sc)
  <1>1. LoadCloud(c) = c /\ c.entries \in [Systems -> CloudEntries]
    BY LoadCloudIs DEF CloudFiles
  <1>2. /\ \A s \in new : s \in Stale(c, sc)
        /\ \A s \in new : d.entries[s].version = Number(c, sc, s)
    <2>1. CASE Stale(c, sc) = {}
      <3>1. d = c
        BY <2>1, UpdateCloudForm
      <3> QED BY <3>1
    <2>2. CASE Stale(c, sc) # {}
      <3> DEFINE m == [LoadCloud(c) EXCEPT !.entries = NewEntries(c, sc)]
      <3>1. m.entries = NewEntries(c, sc)
        BY <1>1 DEF CloudFiles
      <3>2. d.entries = NewEntries(c, sc)
        BY <2>2, <3>1, UpdateCloudForm
      <3> HIDE DEF m, d
      <3>3. \A s \in new : s \in Stale(c, sc)
        BY <1>1, <3>2 DEF NewEntries, d
      <3>4. \A s \in new : d.entries[s] = Fresh(c, sc, s)
        BY <3>2, <3>3 DEF NewEntries
      <3>5. \A s : Fresh(c, sc, s).version = Number(c, sc, s)
        BY DEF Fresh
      <3> QED BY <3>3, <3>4, <3>5
    <2> QED BY <2>1, <2>2
  <1> HIDE DEF d
  <1>3. \A s \in Stale(c, sc) : Number(c, sc, s) \in Nat /\ Number(c, sc, s) > MaxVersion(c.entries)
    BY <1>1, NumberIs
  <1>4. /\ MaxVersion(c.entries) \in Nat
        /\ \A r \in Systems : c.entries[r].version \in Nat
                             /\ c.entries[r].version <= MaxVersion(c.entries)
    BY <1>1, MaxVersionIs
  <1>5. \A s \in new, r \in Systems : d.entries[s].version > c.entries[r].version
    BY <1>2, <1>3, <1>4
  <1>6. \A s, r \in new : s # r => d.entries[s].version # d.entries[r].version
    BY <1>2, NumberIs
  <1> QED BY <1>5, <1>6 DEF d

-----------------------------------------------------------------------------
(* Artwork and templates                                                   *)

Forms == {"signed", "unsigned"}
GridAgrees(g, ids) == g \cap (ids \X Forms) = ids \X {"unsigned"}

LEMMA ArtIs ==
  ASSUME NEW g \in SUBSET (Ids \X Forms), NEW ids \in SUBSET Ids
  PROVE  /\ PruneArt(CopyArt(g, ids), ids) \in SUBSET (Ids \X Forms)
         /\ GridAgrees(PruneArt(CopyArt(g, ids), ids), ids)
  <1> DEFINE h == PruneArt(CopyArt(g, ids), ids)
  <1>1. h = (g \cup (ids \X {"unsigned"})) \ (ids \X {"signed"})
    BY DEF PruneArt, CopyArt
  <1>2. h \subseteq Ids \X Forms
    <2>1. ids \X {"unsigned"} \subseteq Ids \X Forms
      BY DEF Forms
    <2> QED BY <1>1, <2>1
  <1>3. \A x \in ids : <<x, "unsigned">> \in h /\ <<x, "signed">> \notin h
    BY <1>1
  <1> HIDE DEF h
  <1>4. ASSUME NEW p \in ids \X Forms PROVE p \in h <=> p \in ids \X {"unsigned"}
    <2>1. PICK x \in ids, f \in Forms : p = <<x, f>>
      OBVIOUS
    <2>2. CASE f = "unsigned"
      <3>1. p \in h /\ p \in ids \X {"unsigned"}
        BY <1>3, <2>1, <2>2
      <3> QED BY <3>1
    <2>3. CASE f = "signed"
      <3>1. p \notin h /\ p \notin ids \X {"unsigned"}
        BY <1>3, <2>1, <2>3
      <3> QED BY <3>1
    <2> QED BY <2>2, <2>3 DEF Forms
  <1>5. ids \X {"unsigned"} \subseteq ids \X Forms
    BY DEF Forms
  <1>6. GridAgrees(h, ids)
    BY <1>4, <1>5 DEF GridAgrees
  <1> QED BY <1>2, <1>6 DEF h

Templates == [Titles -> [file : {None, "seed", "user"}, chosen : BOOLEAN]]
LEMMA SeedTemplatesIs ==
  ASSUME NEW tm \in Templates, NEW reseed \in BOOLEAN
  PROVE  /\ SeedTemplates(tm, reseed) \in Templates
         /\ \A t \in Templated : /\ SeedTemplates(tm, reseed)[t].chosen
                                /\ SeedTemplates(tm, reseed)[t].file # None
  <1> DEFINE kept(t) == IF reseed \/ tm[t].file = None THEN "seed" ELSE tm[t].file
  <1>1. Templated \subseteq Titles
    BY DEF Templated, Desired
  <1>2. \A t \in Titles : kept(t) \in {"seed", "user"}
    BY DEF Templates
  <1>3. SeedTemplates(tm, reseed) =
          [t \in Titles |-> IF t \notin Templated THEN tm[t] ELSE [file |-> kept(t), chosen |-> TRUE]]
    BY DEF SeedTemplates
  <1> HIDE DEF kept
  <1>4. SeedTemplates(tm, reseed) \in Templates
    BY <1>2, <1>3 DEF Templates
  <1>5. \A t \in Templated : SeedTemplates(tm, reseed)[t] = [file |-> kept(t), chosen |-> TRUE]
    BY <1>1, <1>3
  <1>6. ASSUME NEW t \in Templated
        PROVE  SeedTemplates(tm, reseed)[t].chosen /\ SeedTemplates(tm, reseed)[t].file # None
    <2>1. kept(t) # None
      BY <1>1, <1>2 DEF None
    <2>2. PICK r : r = SeedTemplates(tm, reseed)[t]
      OBVIOUS
    <2>3. r = [file |-> kept(t), chosen |-> TRUE]
      BY <1>5, <2>2
    <2>4. r.file = kept(t) /\ r.chosen = TRUE
      BY <2>3
    <2> QED BY <2>1, <2>2, <2>4
  <1> QED BY <1>4, <1>6

-----------------------------------------------------------------------------
(* The control state                                                       *)

Outcomes == {None, "applied", "skipped", "error"}
LEMMA GotoIs ==
  ASSUME run \in Runs, NEW p \in Pcs, Goto(p)
  PROVE  /\ run' \in Runs /\ run'.pc = p
         /\ run'.touched = run.touched /\ run'.outcome = run.outcome /\ run'.launcher = run.launcher
  BY DEF Goto, Runs

LEMMA EndIs ==
  ASSUME run \in Runs, NEW o \in Outcomes, End(o)
  PROVE  /\ run' \in Runs /\ run'.pc = "done"
         /\ run'.touched = run.touched /\ run'.outcome = o /\ run'.launcher = 0
  <1>1. 0 \in 0 .. Launchers + 1
    BY SteamAssumption
  <1>2. "done" \in Pcs
    BY DEF Pcs
  <1>3. run' = [run EXCEPT !.pc = "done", !.outcome = o, !.launcher = 0]
    BY DEF End
  <1> QED BY <1>1, <1>2, <1>3 DEF Runs, Outcomes

LEMMA TouchIs ==
  ASSUME run \in Runs, Touch
  PROVE  /\ run' \in Runs /\ run'.pc = run.pc
         /\ run'.outcome = run.outcome /\ run'.launcher = run.launcher
         /\ Running => run'.touched
         /\ ~Running => run' = run
  BY DEF Touch, Runs

LEMMA IdleIs ==
  /\ Idle \in Runs /\ Idle.pc = "idle" /\ Idle.launcher = 0 /\ ~Idle.touched /\ Idle.outcome = None
  BY SteamAssumption DEF Idle, Runs, Pcs

LEMMA RunFields ==
  ASSUME run \in Runs
  PROVE  /\ run.pc \in Pcs /\ run.launcher \in 0 .. Launchers + 1
         /\ run.touched \in BOOLEAN /\ run.outcome \in Outcomes
  BY DEF Runs, Outcomes

-----------------------------------------------------------------------------
(* Types                                                                   *)

Mems == [shortcuts : Seq(Entries), local : LocalFiles]
Counters == [runs : 0 .. MaxRuns, edits : 0 .. MaxEdits]

LEMMA EditIs ==
  ASSUME used \in Counters, Edit
  PROVE  used' \in Counters /\ used.edits + 1 \in 0 .. MaxEdits
  <1>1. used.edits + 1 \in 0 .. MaxEdits
    BY SteamAssumption DEF Edit, Counters
  <1> QED BY <1>1 DEF Edit, Counters

LEMMA NoMemType == NoMem \in Mems /\ NoMem.shortcuts = <<>>
  <1>1. <<>> \in Seq(Entries)
    OBVIOUS
  <1>2. EmptyLocal \in LocalFiles
    BY DEF EmptyLocal, LocalFiles
  <1> HIDE DEF EmptyLocal
  <1> QED BY <1>1, <1>2 DEF NoMem, Mems

LEMMA InitType == Init => TypeOK
  <1> SUFFICES ASSUME Init PROVE TypeOK
    OBVIOUS
  <1>1. shortcuts \in Seq(Entries)
    <2>1. UserEntry(0) \in Entries
      BY SteamAssumption DEF Entries
    <2>2. shortcuts = <<UserEntry(0)>>
      BY DEF Init
    <2>3. ASSUME NEW e \in Entries PROVE <<e>> \in Seq(Entries)
      OBVIOUS
    <2> QED BY <2>1, <2>2, <2>3
  <1>2. local \in LocalFiles
    BY DEF Init, EmptyLocal, LocalFiles
  <1>3. cloud \in CloudFiles
    <2>1. NoEntries \in [Systems -> CloudEntries] /\ EarlierEntries \in [Systems -> CloudEntries]
      BY DEF NoEntries, EarlierEntries, CloudEntries
    <2>2. ASSUME NEW o \in BOOLEAN, NEW n \in [Systems -> CloudEntries]
          PROVE  [ok |-> o, user |-> TRUE, entries |-> n] \in CloudFiles
      BY DEF CloudFiles
    <2>3. cloud \in {[ok |-> TRUE, user |-> TRUE, entries |-> NoEntries],
                     [ok |-> TRUE, user |-> TRUE, entries |-> EarlierEntries],
                     [ok |-> FALSE, user |-> TRUE, entries |-> NoEntries]}
      BY DEF Init
    <2> HIDE DEF NoEntries, EarlierEntries
    <2> QED BY <2>1, <2>2, <2>3
  <1>4. /\ host \in {"deck", "darwin"} /\ index \in [Titles -> Exes \cup {Absent}]
        /\ grid \subseteq Ids \X Forms /\ registry \subseteq Titles
        /\ steam \in {"off", "starting", "running", "closing"}
    BY DEF Init, Ids, Forms
  <1>5. template \in Templates
    BY DEF Init, Templates
  <1>6. backup \in Seq(Entries) \X LocalFiles \X CloudFiles
    BY <1>1, <1>2, <1>3 DEF Init
  <1>7. mem \in Mems /\ run \in Runs
    BY NoMemType, IdleIs DEF Init
  <1>8. used \in Counters
    <2>1. 0 \in 0 .. MaxRuns /\ 0 \in 0 .. MaxEdits
      BY SteamAssumption
    <2>2. used = [runs |-> 0, edits |-> 0]
      BY DEF Init
    <2> QED BY <2>1, <2>2 DEF Counters
  <1> QED BY <1>1, <1>2, <1>3, <1>4, <1>5, <1>6, <1>7, <1>8
    DEF TypeOK, Forms, Templates, Mems, Counters

\* The types in parts: what the run works on, and the state of both sides.
FilesType ==
  /\ shortcuts \in Seq(Entries) /\ local \in LocalFiles /\ cloud \in CloudFiles
  /\ grid \in SUBSET (Ids \X Forms) /\ registry \in SUBSET Titles /\ template \in Templates
  /\ backup \in Seq(Entries) \X LocalFiles \X CloudFiles
SidesType ==
  /\ host \in {"deck", "darwin"} /\ index \in [Titles -> Exes \cup {Absent}]
  /\ steam \in {"off", "starting", "running", "closing"} /\ mem \in Mems
  /\ run \in Runs /\ used \in Counters

LEMMA TypeParts == TypeOK <=> FilesType /\ SidesType
  BY DEF TypeOK, FilesType, SidesType, Forms, Templates, Mems, Counters

-----------------------------------------------------------------------------
(* The invariant                                                           *)

\* An id per title, in the file and in what Steam holds of it.
UniqueInv == Unique(shortcuts) /\ Unique(mem.shortcuts)

\* A collection that is on file as a live one has a shortcut.
LiveInv == Alive(cloud)

\* Where the run is, and what Steam does while nobody uses it.
AfterArt == {"reopen", "started"}
AfterOverrides == AfterArt \cup {"art"}
AfterCloud == AfterOverrides \cup {"overrides"}
AfterCollections == AfterCloud \cup {"cloud"}
AfterTemplates == AfterCollections \cup {"collections"}
AfterShortcuts == AfterTemplates \cup {"templates"}
AfterRegistry == AfterShortcuts \cup {"shortcuts"}
AfterBackup == AfterRegistry \cup {"registry"}
After == AfterBackup \cup {"backup"}
ControlInv ==
  /\ run.pc \in {"kill", "templates", "overrides"} => host = "deck"
  /\ run.pc # "done" => run.outcome = None
  /\ run.pc = "started" => run.launcher <= Launchers
  /\ ~run.touched /\ run.pc \in After \ AfterArt => steam = "off"
  /\ ~run.touched /\ run.pc \in AfterArt => steam # "closing"

\* What is still to be written is what was backed up.
BackupInv ==
  ~run.touched =>
    /\ run.pc \in AfterBackup \ AfterShortcuts => backup[1] = shortcuts
    /\ run.pc \in AfterBackup \ AfterCollections => backup[2] = local
    /\ run.pc \in AfterBackup \ AfterCloud => backup[3] = cloud

\* What has been written agrees, with the index and in itself.
RegistryInv == run.pc \in AfterRegistry /\ host = "darwin" => Desired = registry
ShortcutsInv == run.pc \in AfterShortcuts => {e.title : e \in Managed(shortcuts)} = Desired
TemplatesInv ==
  run.pc \in AfterTemplates /\ host = "deck" =>
    \A t \in Templated : template[t].chosen /\ template[t].file # None
CollectionsInv == run.pc \in AfterCollections => local.ok /\ local.coll = Collections(shortcuts)
CloudInv ==
  run.pc \in AfterCloud =>
    (cloud.ok \/ AllIds(shortcuts) = {}) /\ LiveIds(cloud.entries) = Collections(shortcuts)
OverridesInv ==
  run.pc \in AfterOverrides /\ host = "deck" /\ local.apps => TemplateManaged(shortcuts) \subseteq local.over
ArtInv == run.pc \in AfterArt => GridAgrees(grid, AllIds(shortcuts))
AgreeInv ==
  ~run.touched =>
    /\ RegistryInv /\ ShortcutsInv /\ TemplatesInv /\ CollectionsInv
    /\ CloudInv /\ OverridesInv /\ ArtInv

IInv == TypeOK /\ UniqueInv /\ LiveInv /\ ControlInv /\ BackupInv /\ AgreeInv

-----------------------------------------------------------------------------
(* Every step keeps the types                                              *)

\* What the run works on stays of its type ...
LEMMA FilesStep == TypeOK /\ LiveInv /\ [Next]_vars => FilesType'
  <1> SUFFICES ASSUME FilesType, SidesType, LiveInv, [Next]_vars PROVE FilesType'
    BY TypeParts
  <1> USE DEF FilesType
  <1>1. CASE UNCHANGED <<files, backup>>
    BY <1>1 DEF files
  <1>2. ASSUME NEW t \in Titles, EditTemplate(t) PROVE FilesType'
    <2>1. template' \in Templates
      BY <1>2 DEF EditTemplate, Templates
    <2> QED BY <1>2, <2>1 DEF EditTemplate, config
  <1>3. CASE AddGame
    <2>1. used.edits + 1 \in 0 .. MaxEdits
      BY <1>3, EditIs DEF AddGame, SidesType
    <2>2. UserEntry(used.edits + 1) \in Entries
      BY <2>1 DEF Entries
    <2>3. mem.shortcuts \in Seq(Entries)
      BY DEF SidesType, Mems
    <2>4. shortcuts' \in Seq(Entries)
      BY <1>3, <2>2, <2>3 DEF AddGame
    <2> QED BY <1>3, <2>4 DEF AddGame
  <1>4. CASE SteamExits
    <2>1. mem.local \in LocalFiles
      BY DEF SidesType, Mems
    <2> QED BY <1>4, <2>1 DEF SteamExits
  <1>5. CASE BackupConfigs
    BY <1>5 DEF BackupConfigs, config, files
  <1>6. CASE SaveRegistry
    BY <1>6 DEF SaveRegistry, config, Desired
  <1>7. CASE WriteShortcuts
    <2>1. shortcuts' \in Seq(Entries)
      BY <1>7, UpsertIs DEF WriteShortcuts, SidesType
    <2> QED BY <1>7, <2>1 DEF WriteShortcuts
  <1>8. CASE ApplyTemplates
    <2>1. template' \in Templates
      BY <1>8, SeedTemplatesIs DEF ApplyTemplates
    <2> QED BY <1>8, <2>1 DEF ApplyTemplates, config
  <1>9. CASE WriteCollections
    <2>1. local' \in LocalFiles
      BY <1>9, UpdateCollectionsIs DEF WriteCollections
    <2> QED BY <1>9, <2>1 DEF WriteCollections
  <1>10. CASE WriteCloud
    <2>1. cloud' \in CloudFiles
      BY <1>10, UpdateCloudIs DEF WriteCloud, LiveInv
    <2> QED BY <1>10, <2>1 DEF WriteCloud
  <1>11. CASE WriteOverrides
    <2>1. local' \in LocalFiles
      BY <1>11, RepairOverridesIs, IdsType DEF WriteOverrides
    <2> QED BY <1>11, <2>1 DEF WriteOverrides
  <1>12. CASE WriteArt
    <2>1. grid' \in SUBSET (Ids \X Forms)
      BY <1>12, ArtIs, IdsType DEF WriteArt
    <2> QED BY <1>12, <2>1 DEF WriteArt, config
  <1> HIDE DEF FilesType
  <1>13. CASE \/ Terminate \/ Kill \/ SeenClosed \/ StillRunning \/ TemplatesFail \/ Launch
              \/ SeenStarted \/ NotStarted \/ Begin \/ Crash \/ SteamIsUp \/ EditLibrary
              \/ StartSteam \/ UseSteam \/ QuitSteam \/ UNCHANGED vars
    <2>1. UNCHANGED <<files, backup>>
      BY <1>13 DEF Terminate, Kill, SeenClosed, StillRunning, TemplatesFail, Launch, SeenStarted,
        NotStarted, Begin, Crash, SteamIsUp, EditLibrary, StartSteam, UseSteam, QuitSteam, vars
    <2> QED BY <1>1, <2>1
  <1> QED BY <1>2, <1>3, <1>4, <1>5, <1>6, <1>7, <1>8, <1>9, <1>10, <1>11, <1>12, <1>13
    DEF Next, RunStep, SteamStep, UserStep

\* ... and so does the state of the two sides.
LEMMA SidesStep == TypeOK /\ LiveInv /\ ControlInv /\ [Next]_vars => SidesType'
  <1> SUFFICES ASSUME FilesType, SidesType, LiveInv, ControlInv, [Next]_vars PROVE SidesType'
    BY TypeParts
  <1>1. /\ host \in {"deck", "darwin"} /\ index \in [Titles -> Exes \cup {Absent}]
        /\ steam \in {"off", "starting", "running", "closing"} /\ mem \in Mems
        /\ run \in Runs /\ used \in Counters
    BY DEF SidesType
  <1>2. ASSUME NEW p, Goto(p), p \in Pcs PROVE run' \in Runs
    BY <1>1, <1>2, GotoIs
  <1>3. ASSUME NEW o, End(o), o \in Outcomes PROVE run' \in Runs
    BY <1>1, <1>3, EndIs
  <1>4. CASE Terminate
    <2>1. run' \in Runs
      BY <1>1, <1>4, <1>2 DEF Terminate, Pcs
    <2> QED BY <1>1, <1>4, <2>1 DEF Terminate, SidesType
  <1>5. CASE Kill
    <2>1. run' \in Runs
      BY <1>1, <1>5, <1>2 DEF Kill, Pcs
    <2>2. mem' \in Mems
      BY <1>1, <1>5, NoMemType DEF Kill
    <2> QED BY <1>1, <1>5, <2>1, <2>2 DEF Kill, SidesType
  <1>6. CASE SeenClosed
    <2>1. run' \in Runs
      BY <1>1, <1>6, <1>2 DEF SeenClosed, Pcs
    <2> QED BY <1>1, <1>6, <2>1 DEF SeenClosed, SidesType
  <1>7. CASE StillRunning
    <2>1. run' \in Runs
      BY <1>1, <1>7, <1>3 DEF StillRunning, Outcomes
    <2> QED BY <1>1, <1>7, <2>1 DEF StillRunning, SidesType
  <1>8. CASE BackupConfigs
    <2>1. run' \in Runs
      BY <1>1, <1>8, <1>2 DEF BackupConfigs, Pcs
    <2> QED BY <1>1, <1>8, <2>1 DEF BackupConfigs, SidesType
  <1>9. CASE SaveRegistry
    <2>1. run' \in Runs
      BY <1>1, <1>9, <1>2 DEF SaveRegistry, Pcs
    <2> QED BY <1>1, <1>9, <2>1 DEF SaveRegistry, SidesType
  <1>10. CASE WriteShortcuts
    <2>1. run' \in Runs
      BY <1>1, <1>10, <1>2 DEF WriteShortcuts, Pcs
    <2> QED BY <1>1, <1>10, <2>1 DEF WriteShortcuts, SidesType
  <1>11. CASE ApplyTemplates
    <2>1. run' \in Runs
      BY <1>1, <1>11, <1>2 DEF ApplyTemplates, Pcs
    <2> QED BY <1>1, <1>11, <2>1 DEF ApplyTemplates, SidesType
  <1>12. CASE TemplatesFail
    <2>1. run' \in Runs
      BY <1>1, <1>12, <1>3 DEF TemplatesFail, Outcomes
    <2> QED BY <1>1, <1>12, <2>1 DEF TemplatesFail, SidesType
  <1>13. CASE WriteCollections
    <2>1. run' \in Runs
      BY <1>1, <1>13, <1>2 DEF WriteCollections, Pcs
    <2> QED BY <1>1, <1>13, <2>1 DEF WriteCollections, SidesType
  <1>14. CASE WriteCloud
    <2>1. run' \in Runs
      BY <1>1, <1>14, <1>2 DEF WriteCloud, Pcs
    <2> QED BY <1>1, <1>14, <2>1 DEF WriteCloud, SidesType
  <1>15. CASE WriteOverrides
    <2>1. run' \in Runs
      BY <1>1, <1>15, <1>2 DEF WriteOverrides, Pcs
    <2> QED BY <1>1, <1>15, <2>1 DEF WriteOverrides, SidesType
  <1>16. CASE WriteArt
    <2>1. CASE run' = [run EXCEPT !.pc = "reopen", !.launcher = 1]
      <3>1. 1 \in 0 .. Launchers + 1
        BY SteamAssumption
      <3>2. run' \in Runs
        BY <1>1, <2>1, <3>1 DEF Runs, Pcs
      <3> QED BY <1>1, <1>16, <3>2 DEF WriteArt, SidesType
    <2>2. CASE End("applied")
      <3>1. run' \in Runs
        BY <1>3, <2>2 DEF Outcomes
      <3> QED BY <1>1, <1>16, <3>1 DEF WriteArt, SidesType
    <2> QED BY <1>16, <2>1, <2>2 DEF WriteArt
  <1>17. CASE Launch
    <2>1. run' \in Runs
      <3>1. CASE NoLauncherLeft
        BY <1>3, <1>17, <3>1 DEF Launch, Outcomes
      <3>2. CASE ~NoLauncherLeft
        <4>1. run.launcher + 1 \in 0 .. Launchers + 1
          BY <1>1, <3>2, RunFields, SteamAssumption DEF NoLauncherLeft
        <4>2. run' = [run EXCEPT !.launcher = @ + 1] \/ run' = [run EXCEPT !.pc = "started"]
          BY <1>17, <3>2 DEF Launch
        <4> QED BY <1>1, <4>1, <4>2 DEF Runs, Pcs
      <3> QED BY <3>1, <3>2
    <2>2. steam' \in {"off", "starting", "running", "closing"}
      BY <1>1, <1>17 DEF Launch, Spawned
    <2> QED BY <1>1, <1>17, <2>1, <2>2 DEF Launch, SidesType
  <1>18. CASE SeenStarted
    <2>1. run' \in Runs
      BY <1>1, <1>18, <1>3 DEF SeenStarted, Outcomes
    <2> QED BY <1>1, <1>18, <2>1 DEF SeenStarted, SidesType
  <1>19. CASE NotStarted
    <2>1. run.launcher + 1 \in 0 .. Launchers + 1
      BY <1>1, <1>19, RunFields, SteamAssumption DEF NotStarted, ControlInv
    <2>2. run' \in Runs
      BY <1>1, <1>19, <2>1 DEF NotStarted, Runs, Pcs
    <2> QED BY <1>1, <1>19, <2>2 DEF NotStarted, SidesType
  <1>20. CASE Begin
    <2>1. run' \in Runs
      BY <1>20, IdleIs DEF Begin, Runs, Pcs
    <2>2. used.runs + 1 \in 0 .. MaxRuns
      BY <1>1, <1>20, SteamAssumption DEF Begin, Counters
    <2>3. used' \in Counters
      BY <1>1, <1>20, <2>2 DEF Begin, Counters
    <2> QED BY <1>1, <1>20, <2>1, <2>3 DEF Begin, SidesType
  <1>21. CASE Crash
    BY <1>1, <1>21, IdleIs DEF Crash, SidesType
  <1>22. CASE SteamIsUp
    <2>1. [LoadLocal(local) EXCEPT !.apps = TRUE] \in LocalFiles
      <3>1. LoadLocal(local) \in LocalFiles
        BY LoadLocalType DEF FilesType
      <3> HIDE DEF LoadLocal
      <3> QED BY <3>1 DEF LocalFiles
    <2>2. mem' \in Mems
      BY <1>22, <2>1 DEF SteamIsUp, FilesType, Mems
    <2> QED BY <1>1, <1>22, <2>2 DEF SteamIsUp, SidesType
  <1>23. CASE SteamExits
    BY <1>1, <1>23, NoMemType DEF SteamExits, SidesType
  <1>24. CASE EditLibrary
    <2>1. used' \in Counters
      BY <1>1, <1>24, EditIs DEF EditLibrary
    <2> QED BY <1>1, <1>24, <2>1 DEF EditLibrary, SidesType
  <1>25. ASSUME NEW t \in Titles, EditTemplate(t) PROVE SidesType'
    <2>1. used' \in Counters
      BY <1>1, <1>25, EditIs DEF EditTemplate
    <2> QED BY <1>1, <1>25, <2>1 DEF EditTemplate, SidesType
  <1>26. CASE StartSteam
    <2>1. used' \in Counters /\ run' \in Runs
      BY <1>1, <1>26, EditIs, TouchIs DEF StartSteam
    <2> QED BY <1>1, <1>26, <2>1 DEF StartSteam, SidesType
  <1>27. CASE UseSteam
    <2>1. used' \in Counters
      BY <1>1, <1>27, EditIs DEF UseSteam
    <2>2. mem' \in Mems
      <3>1. mem.local \in LocalFiles
        BY <1>1 DEF Mems
      <3>2. [mem.local EXCEPT !.user = TRUE] \in LocalFiles
        BY <3>1 DEF LocalFiles
      <3>3. mem' = [mem EXCEPT !.local = [mem.local EXCEPT !.user = TRUE]]
        BY <1>1, <1>27 DEF UseSteam, Mems
      <3> QED BY <1>1, <3>2, <3>3 DEF Mems
    <2> QED BY <1>1, <1>27, <2>1, <2>2 DEF UseSteam, SidesType
  <1>28. CASE AddGame
    <2>1. used' \in Counters /\ run' \in Runs
      BY <1>1, <1>28, EditIs, TouchIs DEF AddGame
    <2>2. shortcuts' \in Seq(Entries)
      BY <1>28, FilesStep, TypeParts DEF Next, UserStep, FilesType
    <2>3. mem' \in Mems
      BY <1>1, <1>28, <2>2 DEF AddGame, Mems
    <2> QED BY <1>1, <1>28, <2>1, <2>3 DEF AddGame, SidesType
  <1>29. CASE QuitSteam
    <2>1. used' \in Counters
      BY <1>1, <1>29, EditIs DEF QuitSteam
    <2> QED BY <1>1, <1>29, <2>1 DEF QuitSteam, SidesType
  <1>30. CASE UNCHANGED vars
    BY <1>1, <1>30 DEF vars, SidesType
  <1> QED BY <1>4, <1>5, <1>6, <1>7, <1>8, <1>9, <1>10, <1>11, <1>12, <1>13, <1>14, <1>15, <1>16, <1>17, <1>18, <1>19, <1>20, <1>21, <1>22, <1>23, <1>24, <1>25, <1>26, <1>27, <1>28, <1>29, <1>30
    DEF Next, RunStep, SteamStep, UserStep

-----------------------------------------------------------------------------
(* Every step keeps the rest of the invariant                              *)

\* An entry of the user's has no title.
LEMMA AppendUserEntry ==
  ASSUME NEW sc \in Seq(Entries), NEW n
  PROVE  Managed(Append(sc, UserEntry(n))) = Managed(sc)
  <1>1. ~IsManaged(UserEntry(n))
    BY DEF IsManaged, UserEntry
  <1>2. /\ DOMAIN Append(sc, UserEntry(n)) = 1 .. Len(sc) + 1 /\ DOMAIN sc = 1 .. Len(sc) /\ Len(sc) \in Nat
        /\ \A i \in 1 .. Len(sc) : Append(sc, UserEntry(n))[i] = sc[i]
        /\ Append(sc, UserEntry(n))[Len(sc) + 1] = UserEntry(n)
    OBVIOUS
  <1> HIDE DEF UserEntry
  <1>3. \A i \in 1 .. Len(sc) + 1 : i \in 1 .. Len(sc) \/ i = Len(sc) + 1
    BY <1>2
  <1>4. \A i \in 1 .. Len(sc) : i \in 1 .. Len(sc) + 1
    BY <1>2
  <1> QED BY <1>1, <1>2, <1>3, <1>4 DEF Managed, Range

LEMMA UniqueStep == TypeOK /\ UniqueInv /\ [Next]_vars => UniqueInv'
  <1> SUFFICES ASSUME FilesType, SidesType, UniqueInv, [Next]_vars PROVE UniqueInv'
    BY TypeParts
  <1>1. ASSUME UNCHANGED shortcuts, mem'.shortcuts \in {mem.shortcuts, shortcuts, <<>>}
        PROVE  UniqueInv'
    <2>1. Unique(<<>>)
      BY DEF Unique, Managed, Range
    <2> QED BY <1>1, <2>1 DEF UniqueInv
  <1>2. CASE AddGame
    <2>1. mem.shortcuts \in Seq(Entries)
      BY DEF SidesType, Mems
    <2>2. shortcuts' = Append(mem.shortcuts, UserEntry(used.edits + 1))
      BY <1>2 DEF AddGame
    <2>3. Unique(shortcuts')
      BY <2>1, <2>2, AppendUserEntry DEF UniqueInv, Unique
    <2>4. mem'.shortcuts = shortcuts'
      BY <1>2 DEF AddGame, SidesType, Mems
    <2> QED BY <2>3, <2>4 DEF UniqueInv
  <1>3. CASE WriteShortcuts
    BY <1>3, UpsertKeepsIds DEF WriteShortcuts, UniqueInv, FilesType, SidesType
  <1>4. CASE SteamIsUp
    BY <1>1, <1>4 DEF SteamIsUp, files, config
  <1>5. CASE UseSteam
    BY <1>1, <1>5 DEF UseSteam, files, config, SidesType, Mems
  <1>6. CASE Kill \/ SteamExits
    BY <1>1, <1>6, NoMemType DEF Kill, SteamExits, files, config
  <1>7. ASSUME NEW t \in Titles, EditTemplate(t) PROVE UniqueInv'
    BY <1>1, <1>7 DEF EditTemplate, config
  <1>8. CASE \/ Terminate \/ SeenClosed \/ StillRunning \/ BackupConfigs \/ SaveRegistry
             \/ ApplyTemplates \/ TemplatesFail \/ WriteCollections \/ WriteCloud \/ WriteOverrides
             \/ WriteArt \/ Launch \/ SeenStarted \/ NotStarted \/ Begin \/ Crash \/ EditLibrary
             \/ StartSteam \/ QuitSteam \/ UNCHANGED vars
    <2>1. UNCHANGED <<shortcuts, mem>>
      BY <1>8 DEF Terminate, SeenClosed, StillRunning, BackupConfigs, SaveRegistry, ApplyTemplates,
        TemplatesFail, WriteCollections, WriteCloud, WriteOverrides, WriteArt, Launch, SeenStarted,
        NotStarted, Begin, Crash, EditLibrary, StartSteam, QuitSteam, vars, files, config
    <2> QED BY <1>1, <2>1
  <1> QED BY <1>2, <1>3, <1>4, <1>5, <1>6, <1>7, <1>8 DEF Next, RunStep, SteamStep, UserStep

\* One step of the run writes the cloud file, and nothing else does.
LEMMA CloudWriter == Next => WriteCloud \/ UNCHANGED cloud
  BY DEF Next, RunStep, SteamStep, UserStep, Terminate, Kill, SeenClosed, StillRunning, BackupConfigs,
    SaveRegistry, WriteShortcuts, ApplyTemplates, TemplatesFail, WriteCollections, WriteOverrides,
    WriteArt, Launch, SeenStarted, NotStarted, Begin, Crash, SteamIsUp, SteamExits, EditLibrary,
    EditTemplate, StartSteam, UseSteam, AddGame, QuitSteam, files, config

LEMMA LiveStep == TypeOK /\ LiveInv /\ [Next]_vars => LiveInv'
  <1> SUFFICES ASSUME FilesType, LiveInv, [Next]_vars PROVE LiveInv'
    BY TypeParts
  <1>1. CASE UNCHANGED cloud
    BY <1>1 DEF LiveInv, Alive
  <1>2. CASE WriteCloud
    BY <1>2, UpdateCloudIs DEF WriteCloud, LiveInv, FilesType
  <1> QED BY <1>1, <1>2, CloudWriter DEF vars, files

LEMMA ControlStep == TypeOK /\ ControlInv /\ [Next]_vars => ControlInv'
  <1> SUFFICES ASSUME SidesType, ControlInv, [Next]_vars PROVE ControlInv'
    BY TypeParts
  <1>1. run \in Runs /\ host \in {"deck", "darwin"}
    BY DEF SidesType
  <1> USE DEF After, AfterArt, AfterOverrides, AfterCloud, AfterCollections, AfterTemplates,
        AfterShortcuts, AfterRegistry, AfterBackup, Pcs, Outcomes, None
  <1>2. CASE Terminate
    BY <1>1, <1>2, GotoIs DEF Terminate, ControlInv
  <1>3. CASE Kill
    BY <1>1, <1>3, GotoIs DEF Kill, ControlInv
  <1>4. CASE SeenClosed
    BY <1>1, <1>4, GotoIs DEF SeenClosed, ControlInv
  <1>5. CASE BackupConfigs
    BY <1>1, <1>5, GotoIs DEF BackupConfigs, ControlInv
  <1>6. CASE SaveRegistry
    BY <1>1, <1>6, GotoIs DEF SaveRegistry, ControlInv
  <1>7. CASE WriteShortcuts
    BY <1>1, <1>7, GotoIs DEF WriteShortcuts, ControlInv
  <1>8. CASE ApplyTemplates
    BY <1>1, <1>8, GotoIs DEF ApplyTemplates, ControlInv
  <1>9. CASE WriteCollections
    BY <1>1, <1>9, GotoIs DEF WriteCollections, ControlInv
  <1>10. CASE WriteCloud
    BY <1>1, <1>10, GotoIs DEF WriteCloud, ControlInv
  <1>11. CASE WriteOverrides
    BY <1>1, <1>11, GotoIs DEF WriteOverrides, ControlInv
  <1>12. CASE StillRunning
    BY <1>1, <1>12, EndIs DEF StillRunning, ControlInv
  <1>13. CASE TemplatesFail
    BY <1>1, <1>13, EndIs DEF TemplatesFail, ControlInv
  <1>14. CASE SeenStarted
    BY <1>1, <1>14, EndIs DEF SeenStarted, ControlInv
  <1>15. CASE WriteArt
    <2>1. CASE run' = [run EXCEPT !.pc = "reopen", !.launcher = 1]
      BY <1>1, <1>15, <2>1 DEF WriteArt, ControlInv, Runs
    <2>2. CASE End("applied")
      BY <1>1, <1>15, <2>2, EndIs DEF WriteArt, ControlInv
    <2> QED BY <1>15, <2>1, <2>2 DEF WriteArt
  <1>16. CASE Launch
    <2>1. CASE End("applied") /\ UNCHANGED <<steam, host>>
      BY <1>1, <1>16, <2>1, EndIs DEF Launch, ControlInv
    <2>2. CASE run' = [run EXCEPT !.launcher = @ + 1] /\ UNCHANGED <<steam, host>>
      BY <1>1, <1>16, <2>2 DEF Launch, ControlInv, Runs
    <2>3. CASE ~NoLauncherLeft /\ run' = [run EXCEPT !.pc = "started"] /\ steam' = Spawned
      <3>1. run.launcher <= Launchers
        BY <1>1, <2>3, RunFields, SteamAssumption DEF NoLauncherLeft
      <3> QED BY <1>1, <1>16, <2>3, <3>1 DEF Launch, ControlInv, Runs, Spawned
    <2> QED BY <1>16, <2>1, <2>2, <2>3 DEF Launch
  <1>17. CASE NotStarted
    BY <1>1, <1>17 DEF NotStarted, ControlInv, Runs
  <1>18. CASE Begin
    <2>1. /\ run'.pc = (IF steam = "off" THEN "backup" ELSE "terminate")
          /\ run'.outcome = None /\ run'.touched = FALSE
      BY <1>18, IdleIs DEF Begin, Runs
    <2> QED BY <1>18, <2>1 DEF Begin, ControlInv
  <1>19. CASE Crash
    BY <1>19, IdleIs DEF Crash, ControlInv
  <1>20. CASE StartSteam
    BY <1>1, <1>20, TouchIs DEF StartSteam, Running, ControlInv
  <1>21. CASE AddGame
    BY <1>1, <1>21, TouchIs DEF AddGame, Running, ControlInv
  <1>22. CASE EditLibrary \/ UseSteam \/ QuitSteam \/ SteamIsUp \/ SteamExits \/ UNCHANGED vars
    BY <1>1, <1>22 DEF EditLibrary, UseSteam, QuitSteam, SteamIsUp, SteamExits, vars, Free, ControlInv
  <1>23. ASSUME NEW t \in Titles, EditTemplate(t) PROVE ControlInv'
    BY <1>1, <1>23 DEF EditTemplate, ControlInv
  <1> QED BY <1>2, <1>3, <1>4, <1>5, <1>6, <1>7, <1>8, <1>9, <1>10, <1>11, <1>12, <1>13, <1>14, <1>15, <1>16, <1>17, <1>18, <1>19, <1>20, <1>21, <1>22, <1>23
    DEF Next, RunStep, SteamStep, UserStep

LEMMA BackupStep == TypeOK /\ ControlInv /\ BackupInv /\ [Next]_vars => BackupInv'
  <1> SUFFICES ASSUME FilesType, SidesType, ControlInv, BackupInv, [Next]_vars, ~run'.touched
               PROVE  BackupInv'
    BY TypeParts DEF BackupInv
  <1>1. run \in Runs
    BY DEF SidesType
  <1> USE DEF After, AfterArt, AfterOverrides, AfterCloud, AfterCollections, AfterTemplates,
        AfterShortcuts, AfterRegistry, AfterBackup, Pcs, Outcomes, None
  <1>2. ASSUME UNCHANGED <<shortcuts, local, cloud, backup>>, ~run.touched,
               \/ run'.pc = run.pc \/ run'.pc \notin AfterBackup
               \/ run'.pc \in AfterCloud
               \/ run.pc \in AfterShortcuts \ AfterCollections /\ run'.pc \in AfterShortcuts \ AfterCollections
               \/ run.pc = "registry" /\ run'.pc = "shortcuts"
        PROVE  BackupInv'
    BY <1>2 DEF BackupInv
  <1>3. CASE BackupConfigs
    <2>1. run'.pc \in {"registry", "shortcuts"}
      BY <1>1, <1>3, GotoIs DEF BackupConfigs
    <2>2. backup' = <<shortcuts, local, cloud>> /\ UNCHANGED <<shortcuts, local, cloud>>
      BY <1>3 DEF BackupConfigs, config, files
    <2> QED BY <2>1, <2>2 DEF BackupInv
  <1>4. CASE WriteShortcuts
    BY <1>1, <1>4, GotoIs DEF WriteShortcuts, BackupInv
  <1>5. CASE WriteCollections
    BY <1>1, <1>5, GotoIs DEF WriteCollections, BackupInv
  <1>6. CASE WriteCloud
    BY <1>1, <1>6, GotoIs DEF WriteCloud, BackupInv
  <1>7. CASE WriteOverrides
    BY <1>1, <1>7, GotoIs DEF WriteOverrides, BackupInv
  <1>8. CASE SteamExits
    BY <1>1, <1>8 DEF SteamExits, ControlInv, BackupInv
  <1>9. CASE AddGame
    BY <1>1, <1>9, TouchIs DEF AddGame, Running, BackupInv
  <1>10. CASE SaveRegistry \/ ApplyTemplates \/ Terminate \/ Kill \/ SeenClosed
    BY <1>1, <1>2, <1>10, GotoIs DEF SaveRegistry, ApplyTemplates, Terminate, Kill, SeenClosed, config, files
  <1>11. CASE StillRunning \/ TemplatesFail \/ SeenStarted
    BY <1>1, <1>2, <1>11, EndIs DEF StillRunning, TemplatesFail, SeenStarted, config, files
  <1>12. CASE WriteArt
    <2>1. run'.pc \in {"reopen", "done"} /\ run'.touched = run.touched
      BY <1>1, <1>12, EndIs DEF WriteArt, Runs
    <2> QED BY <1>2, <1>12, <2>1 DEF WriteArt, config
  <1>13. CASE Launch
    <2>1. run'.pc \in {"reopen", "started", "done"} /\ run'.touched = run.touched
      BY <1>1, <1>13, EndIs DEF Launch, Runs
    <2> QED BY <1>2, <1>13, <2>1 DEF Launch, files, config
  <1>14. CASE NotStarted
    <2>1. run'.pc = "reopen" /\ run'.touched = run.touched
      BY <1>1, <1>14 DEF NotStarted, Runs
    <2> QED BY <1>2, <1>14, <2>1 DEF NotStarted, files, config
  <1>15. CASE Begin \/ Crash
    <2>1. run'.pc \notin AfterBackup
      BY <1>15, IdleIs DEF Begin, Crash, Runs
    <2> QED BY <2>1 DEF BackupInv
  <1>16. CASE StartSteam
    BY <1>1, <1>2, <1>16, TouchIs DEF StartSteam, Running, files, config, BackupInv
  <1>17. CASE EditLibrary \/ UseSteam \/ QuitSteam \/ SteamIsUp \/ UNCHANGED vars
    BY <1>2, <1>17 DEF EditLibrary, UseSteam, QuitSteam, SteamIsUp, vars, files, config
  <1>18. ASSUME NEW t \in Titles, EditTemplate(t) PROVE BackupInv'
    BY <1>2, <1>18 DEF EditTemplate, config
  <1> QED BY <1>3, <1>4, <1>5, <1>6, <1>7, <1>8, <1>9, <1>10, <1>11, <1>12, <1>13, <1>14, <1>15, <1>16, <1>17, <1>18
    DEF Next, RunStep, SteamStep, UserStep

LEMMA AgreeStep == TypeOK /\ LiveInv /\ ControlInv /\ AgreeInv /\ [Next]_vars => AgreeInv'
  <1> SUFFICES ASSUME FilesType, SidesType, LiveInv, ControlInv, AgreeInv, [Next]_vars, ~run'.touched
               PROVE  AgreeInv'
    BY TypeParts DEF AgreeInv
  <1>1. run \in Runs /\ host \in {"deck", "darwin"}
    BY DEF SidesType
  <1>2. index' = index => Desired' = Desired /\ Templated' = Templated
    BY DEF Desired, Templated
  <1> DEFINE Stages == {AfterRegistry, AfterShortcuts, AfterTemplates, AfterCollections, AfterCloud,
                        AfterOverrides, AfterArt}
  <1> USE DEF After, AfterArt, AfterOverrides, AfterCloud, AfterCollections, AfterTemplates,
        AfterShortcuts, AfterRegistry, AfterBackup, Pcs, Outcomes, None
  <1>3. ASSUME UNCHANGED <<host, index, files>>, ~run.touched,
               \A S \in Stages : run'.pc \in S => run.pc \in S
        PROVE  AgreeInv'
    <2>1. /\ run'.pc \in AfterRegistry => run.pc \in AfterRegistry
          /\ run'.pc \in AfterShortcuts => run.pc \in AfterShortcuts
          /\ run'.pc \in AfterTemplates => run.pc \in AfterTemplates
          /\ run'.pc \in AfterCollections => run.pc \in AfterCollections
          /\ run'.pc \in AfterCloud => run.pc \in AfterCloud
          /\ run'.pc \in AfterOverrides => run.pc \in AfterOverrides
          /\ run'.pc \in AfterArt => run.pc \in AfterArt
      BY <1>3
    <2> HIDE DEF After, AfterArt, AfterOverrides, AfterCloud, AfterCollections, AfterTemplates,
        AfterShortcuts, AfterRegistry, AfterBackup
    <2> QED BY <1>2, <1>3, <2>1 DEF AgreeInv, RegistryInv, ShortcutsInv, TemplatesInv,
      CollectionsInv, CloudInv, OverridesInv, ArtInv, files
  <1>4. CASE run'.pc \notin AfterRegistry
    BY <1>4 DEF AgreeInv, RegistryInv, ShortcutsInv, TemplatesInv, CollectionsInv, CloudInv,
      OverridesInv, ArtInv
  <1>5. CASE SaveRegistry
    <2>1. run'.pc = "shortcuts" /\ Desired' = registry'
      BY <1>1, <1>2, <1>5, GotoIs DEF SaveRegistry
    <2> QED BY <2>1 DEF AgreeInv, RegistryInv, ShortcutsInv, TemplatesInv, CollectionsInv, CloudInv,
          OverridesInv, ArtInv
  <1>6. CASE WriteShortcuts
    <2>1. /\ run'.pc = (IF host = "deck" THEN "templates" ELSE "collections") /\ run.pc = "shortcuts"
          /\ UNCHANGED <<host, registry>> /\ ~run.touched /\ Desired' = Desired
      BY <1>1, <1>2, <1>6, GotoIs DEF WriteShortcuts
    <2>2. {e.title : e \in Managed(shortcuts')} = Desired
      BY <1>6, UpsertKeepsIds DEF WriteShortcuts, FilesType, SidesType
    <2>3. RegistryInv' /\ ShortcutsInv'
      BY <2>1, <2>2 DEF AgreeInv, RegistryInv, ShortcutsInv
    <2> QED BY <2>1, <2>3 DEF AgreeInv, TemplatesInv, CollectionsInv, CloudInv, OverridesInv, ArtInv
  <1>7. CASE ApplyTemplates
    <2>1. /\ run'.pc = "collections" /\ run.pc = "templates" /\ ~run.touched
          /\ UNCHANGED <<host, shortcuts, registry>> /\ Desired' = Desired /\ Templated' = Templated
      BY <1>1, <1>2, <1>7, GotoIs DEF ApplyTemplates, config
    <2>2. TemplatesInv'
      <3>1. \A t \in Templated : template'[t].chosen /\ template'[t].file # None
        BY <1>7, SeedTemplatesIs DEF ApplyTemplates, FilesType
      <3> QED BY <2>1, <3>1 DEF TemplatesInv
    <2>3. RegistryInv' /\ ShortcutsInv'
      BY <2>1 DEF AgreeInv, RegistryInv, ShortcutsInv
    <2> QED BY <2>1, <2>2, <2>3 DEF AgreeInv, CollectionsInv, CloudInv, OverridesInv, ArtInv
  <1>8. CASE WriteCollections
    <2>1. /\ run'.pc = "cloud" /\ run.pc = "collections" /\ ~run.touched
          /\ UNCHANGED <<host, shortcuts, registry, template>>
          /\ Desired' = Desired /\ Templated' = Templated
      BY <1>1, <1>2, <1>8, GotoIs DEF WriteCollections
    <2>2. CollectionsInv'
      BY <1>8, <2>1, UpdateCollectionsIs DEF WriteCollections, CollectionsInv, FilesType
    <2>3. RegistryInv' /\ ShortcutsInv' /\ TemplatesInv'
      BY <2>1 DEF AgreeInv, RegistryInv, ShortcutsInv, TemplatesInv
    <2> QED BY <2>1, <2>2, <2>3 DEF AgreeInv, CloudInv, OverridesInv, ArtInv
  <1>9. CASE WriteCloud
    <2>1. /\ run'.pc = (IF host = "deck" THEN "overrides" ELSE "art") /\ run.pc = "cloud" /\ ~run.touched
          /\ UNCHANGED <<host, shortcuts, local, registry, template>>
          /\ Desired' = Desired /\ Templated' = Templated
      BY <1>1, <1>2, <1>9, GotoIs DEF WriteCloud
    <2>2. CloudInv'
      BY <1>9, <2>1, UpdateCloudIs DEF WriteCloud, LiveInv, CloudInv, FilesType
    <2>3. RegistryInv' /\ ShortcutsInv' /\ TemplatesInv' /\ CollectionsInv'
      BY <2>1 DEF AgreeInv, RegistryInv, ShortcutsInv, TemplatesInv, CollectionsInv
    <2> QED BY <2>1, <2>2, <2>3 DEF AgreeInv, OverridesInv, ArtInv
  <1>10. CASE WriteOverrides
    <2>1. /\ run'.pc = "art" /\ run.pc = "overrides" /\ ~run.touched
          /\ UNCHANGED <<host, shortcuts, cloud, registry, template>>
          /\ Desired' = Desired /\ Templated' = Templated
      BY <1>1, <1>2, <1>10, GotoIs DEF WriteOverrides
    <2>2. local.ok /\ local.coll = Collections(shortcuts)
      BY <2>1 DEF AgreeInv, CollectionsInv
    <2>3. /\ local'.ok /\ local'.coll = local.coll /\ local'.apps = local.apps
          /\ local.apps => TemplateManaged(shortcuts) \subseteq local'.over
      BY <1>10, <2>2, RepairOverridesIs, IdsType DEF WriteOverrides, FilesType
    <2>4. OverridesInv' /\ CollectionsInv'
      BY <2>1, <2>2, <2>3 DEF OverridesInv, CollectionsInv
    <2>5. RegistryInv' /\ ShortcutsInv' /\ TemplatesInv' /\ CloudInv'
      BY <2>1 DEF AgreeInv, RegistryInv, ShortcutsInv, TemplatesInv, CloudInv
    <2> QED BY <2>1, <2>4, <2>5 DEF AgreeInv, ArtInv
  <1>11. CASE WriteArt
    <2>1. /\ run'.pc \in {"reopen", "done"} /\ run.pc = "art" /\ ~run.touched
          /\ UNCHANGED <<host, shortcuts, local, cloud, registry, template>>
          /\ Desired' = Desired /\ Templated' = Templated
      BY <1>1, <1>2, <1>11, EndIs DEF WriteArt, config, Runs
    <2>2. GridAgrees(grid', AllIds(shortcuts'))
      BY <1>11, <2>1, ArtIs, IdsType DEF WriteArt, FilesType
    <2>3. RegistryInv' /\ ShortcutsInv' /\ TemplatesInv'
      BY <2>1 DEF AgreeInv, RegistryInv, ShortcutsInv, TemplatesInv
    <2>4. CollectionsInv' /\ CloudInv' /\ OverridesInv'
      BY <2>1 DEF AgreeInv, CollectionsInv, CloudInv, OverridesInv
    <2> QED BY <2>2, <2>3, <2>4 DEF AgreeInv, ArtInv
  <1>12. CASE SteamExits
    <2>1. run'.pc \notin AfterRegistry
      BY <1>1, <1>12 DEF SteamExits, ControlInv
    <2> QED BY <1>4, <2>1
  <1>13. CASE AddGame \/ StartSteam
    <2>1. run'.pc \notin AfterRegistry
      BY <1>1, <1>13, TouchIs DEF AddGame, StartSteam, Running
    <2> QED BY <1>4, <2>1
  <1>14. CASE EditLibrary \/ QuitSteam \/ \E t \in Titles : EditTemplate(t)
    <2>1. run'.pc \notin AfterRegistry
      BY <1>1, <1>14 DEF EditLibrary, QuitSteam, EditTemplate, Free
    <2> QED BY <1>4, <2>1
  <1>15. CASE Terminate \/ Kill \/ SeenClosed
    <2>1. run'.pc \notin AfterRegistry
      BY <1>1, <1>15, GotoIs DEF Terminate, Kill, SeenClosed
    <2> QED BY <1>4, <2>1
  <1>16. CASE StillRunning \/ TemplatesFail \/ SeenStarted
    <2>1. run'.pc \notin AfterRegistry
      BY <1>1, <1>16, EndIs DEF StillRunning, TemplatesFail, SeenStarted
    <2> QED BY <1>4, <2>1
  <1>17. CASE Begin \/ Crash
    <2>1. run'.pc \notin AfterRegistry
      BY <1>17, IdleIs DEF Begin, Crash, Runs
    <2> QED BY <1>4, <2>1
  <1>18. CASE BackupConfigs
    <2>1. /\ run'.pc = (IF host = "darwin" THEN "registry" ELSE "shortcuts") /\ UNCHANGED host
      BY <1>1, <1>18, GotoIs DEF BackupConfigs
    <2> QED BY <2>1 DEF AgreeInv, RegistryInv, ShortcutsInv, TemplatesInv, CollectionsInv, CloudInv,
          OverridesInv, ArtInv
  <1>19. CASE Launch
    <2>1. /\ run'.pc \in {"reopen", "started", "done"} /\ run.pc = "reopen" /\ ~run.touched
          /\ UNCHANGED <<host, index, files>>
      BY <1>1, <1>19, EndIs DEF Launch, Runs
    <2> QED BY <1>3, <2>1
  <1>20. CASE NotStarted
    <2>1. /\ run'.pc = "reopen" /\ run.pc = "started" /\ ~run.touched
          /\ UNCHANGED <<host, index, files>>
      BY <1>1, <1>20 DEF NotStarted, Runs
    <2> QED BY <1>3, <2>1
  <1>21. CASE UseSteam \/ SteamIsUp \/ UNCHANGED vars
    <2>1. UNCHANGED <<host, index, files, run>>
      BY <1>21 DEF UseSteam, SteamIsUp, vars
    <2> QED BY <1>3, <2>1
  <1> QED BY <1>5, <1>6, <1>7, <1>8, <1>9, <1>10, <1>11, <1>12, <1>13, <1>14, <1>15, <1>16, <1>17, <1>18, <1>19, <1>20, <1>21
    DEF Next, RunStep, SteamStep, UserStep

-----------------------------------------------------------------------------
(* The theorems                                                            *)

LEMMA InitInv == Init => IInv
  <1> SUFFICES ASSUME Init PROVE IInv
    OBVIOUS
  <1>1. UniqueInv
    <2>1. Unique(<<>>) /\ Managed(<<>>) = {}
      BY DEF Unique, Managed, Range
    <2>2. Append(<<>>, UserEntry(0)) = <<UserEntry(0)>> /\ <<>> \in Seq(Entries)
      OBVIOUS
    <2>3. Managed(<<UserEntry(0)>>) = {}
      BY <2>1, <2>2, AppendUserEntry
    <2>4. shortcuts = <<UserEntry(0)>> /\ mem.shortcuts = <<>>
      BY NoMemType DEF Init
    <2> QED BY <2>1, <2>3, <2>4 DEF UniqueInv, Unique
  <1>2. LiveInv
    <2>1. /\ \A s \in Systems : NoEntries[s].kind # "live"
          /\ \A s \in Systems : EarlierEntries[s].kind # "live"
      BY DEF NoEntries, EarlierEntries, None
    <2> HIDE DEF NoEntries, EarlierEntries
    <2>2. cloud.entries \in {NoEntries, EarlierEntries}
      <3>1. cloud \in {[ok |-> TRUE, user |-> TRUE, entries |-> NoEntries],
                       [ok |-> TRUE, user |-> TRUE, entries |-> EarlierEntries],
                       [ok |-> FALSE, user |-> TRUE, entries |-> NoEntries]}
        BY DEF Init
      <3> QED BY <3>1
    <2> QED BY <2>1, <2>2 DEF LiveInv, Alive
  <1>3. run.pc = "idle" /\ run.outcome = None
    BY IdleIs DEF Init
  <1>4. ControlInv /\ BackupInv /\ AgreeInv
    BY <1>3 DEF ControlInv, BackupInv, AgreeInv, RegistryInv, ShortcutsInv, TemplatesInv, CollectionsInv,
      CloudInv, OverridesInv, ArtInv, After, AfterArt, AfterOverrides, AfterCloud, AfterCollections,
      AfterTemplates, AfterShortcuts, AfterRegistry, AfterBackup
  <1> QED BY <1>1, <1>2, <1>4, InitType DEF IInv

\* The types, an id per title, live collections that are not empty, where
\* Steam is while the stage works, the backups of what is still to be
\* written, and the agreement of what has been written hold together in
\* every state.
THEOREM InductiveInvariant == Spec => []IInv
  <1>1. IInv /\ [Next]_vars => IInv'
    <2> SUFFICES ASSUME IInv, [Next]_vars PROVE IInv'
      OBVIOUS
    <2>1. TypeOK'
      <3>1. FilesType' /\ SidesType'
        BY FilesStep, SidesStep DEF IInv
      <3> QED BY <3>1, TypeParts, PTL
    <2>2. UniqueInv' /\ LiveInv' /\ ControlInv' /\ BackupInv' /\ AgreeInv'
      BY UniqueStep, LiveStep, ControlStep, BackupStep, AgreeStep DEF IInv
    <2> QED BY <2>1, <2>2 DEF IInv
  <1> QED BY InitInv, <1>1, PTL DEF Spec

\* All variables of the Steam stage keep their types: versions are numbers,
\* ids belong to titles, and no launcher beyond the last is counted.
THEOREM TypeCorrect == Spec => []TypeOK
  <1>1. IInv => TypeOK
    BY DEF IInv
  <1> QED BY InductiveInvariant, <1>1, PTL

\* The steps of the run that write one of the three files.
LEMMA Writers ==
  ASSUME run \in Runs, Next
  PROVE  \/ WriteShortcuts \/ WriteCollections \/ WriteCloud \/ WriteOverrides
         \/ UNCHANGED <<shortcuts, local, cloud>> \/ run'.pc = run.pc
  <1>1. AddGame => run'.pc = run.pc
    BY TouchIs DEF AddGame
  <1>2. SteamExits => run'.pc = run.pc
    BY DEF SteamExits
  <1> QED BY <1>1, <1>2 DEF Next, RunStep, SteamStep, UserStep, Terminate, Kill, SeenClosed,
    StillRunning, BackupConfigs, SaveRegistry, ApplyTemplates, TemplatesFail, WriteArt, Launch,
    SeenStarted, NotStarted, Begin, Crash, SteamIsUp, EditLibrary, EditTemplate, StartSteam, UseSteam,
    QuitSteam, files, config

\* A step of the run that writes leaves the user's parts of every file and
\* the ids of the shortcuts that stay, ...
LEMMA KeepsParts ==
  ASSUME IInv, Next, RunWrites
  PROVE  KeepsUserParts
  <1>1. FilesType /\ SidesType /\ Unique(shortcuts) /\ Alive(cloud)
    BY TypeParts DEF IInv, UniqueInv, LiveInv
  <1>2. CASE UNCHANGED <<shortcuts, local, cloud>>
    BY <1>1, <1>2 DEF KeepsUserParts, Unique
  <1>3. CASE WriteShortcuts
    <2>1. shortcuts' = Upsert(shortcuts) /\ UNCHANGED <<local, cloud>>
      BY <1>3 DEF WriteShortcuts
    <2>2. shortcuts \in Seq(Entries) /\ index \in [Titles -> Exes \cup {Absent}]
      BY <1>1 DEF FilesType, SidesType
    <2> QED BY <1>1, <2>1, <2>2, UpsertIs, UpsertKeepsIds DEF KeepsUserParts
  <1>4. CASE WriteCollections
    <2>1. local' = UpdateCollections(local, shortcuts) /\ UNCHANGED <<shortcuts, cloud>>
      BY <1>4 DEF WriteCollections
    <2>2. local.ok /\ local.user => local'.user
      BY <1>1, <2>1, UpdateCollectionsIs DEF FilesType
    <2> QED BY <1>1, <2>1, <2>2 DEF KeepsUserParts, Unique
  <1>5. CASE WriteCloud
    <2>1. cloud' = UpdateCloud(cloud, shortcuts) /\ UNCHANGED <<shortcuts, local>>
      BY <1>5 DEF WriteCloud
    <2>2. cloud.ok /\ cloud.user => cloud'.user
      BY <1>1, <2>1, UpdateCloudIs DEF FilesType
    <2> QED BY <1>1, <2>1, <2>2 DEF KeepsUserParts, Unique
  <1>6. CASE WriteOverrides
    <2>1. local' = RepairOverrides(local, TemplateManaged(shortcuts)) /\ UNCHANGED <<shortcuts, cloud>>
      BY <1>6 DEF WriteOverrides
    <2>2. local.ok /\ local.user => local'.user
      BY <1>1, <2>1, RepairOverridesIs, IdsType DEF FilesType
    <2> QED BY <1>1, <2>1, <2>2 DEF KeepsUserParts, Unique
  <1> QED BY <1>1, <1>2, <1>3, <1>4, <1>5, <1>6, Writers DEF RunWrites, SidesType

\* ... and writes what it backed up, unless somebody used Steam meanwhile.
LEMMA BackupsAreFirst ==
  ASSUME IInv, Next, RunWrites, ~run.touched
  PROVE  BacksUpFirst
  <1>1. run \in Runs
    BY TypeParts DEF IInv, SidesType
  <1>2. BackupInv
    BY DEF IInv
  <1> USE DEF AfterArt, AfterOverrides, AfterCloud, AfterCollections, AfterTemplates,
        AfterShortcuts, AfterRegistry, AfterBackup
  <1>3. CASE UNCHANGED <<shortcuts, local, cloud>>
    BY <1>3 DEF BacksUpFirst
  <1>4. CASE WriteShortcuts
    BY <1>2, <1>4 DEF WriteShortcuts, BackupInv, BacksUpFirst
  <1>5. CASE WriteCollections
    BY <1>2, <1>5 DEF WriteCollections, BackupInv, BacksUpFirst
  <1>6. CASE WriteCloud
    BY <1>2, <1>6 DEF WriteCloud, BackupInv, BacksUpFirst
  <1>7. CASE WriteOverrides
    BY <1>7 DEF WriteOverrides, BacksUpFirst
  <1> QED BY <1>1, <1>3, <1>4, <1>5, <1>6, <1>7, Writers DEF RunWrites

\* Whatever the user did, and wherever an earlier run was killed, a run keeps
\* what is the user's in the three files, keeps the ids of shortcuts that
\* stay, and replaces only what it has backed up; on macOS, what Steam held in
\* memory is on file once it is gone.
THEOREM UserPartsAreKept == Spec => UserKept
  <1>1. ASSUME IInv, Next
        PROVE  /\ RunWrites => KeepsUserParts /\ (run.touched \/ BacksUpFirst)
               /\ host = "darwin" /\ steam # "off" /\ steam' = "off" => local' = mem.local
    <2>1. RunWrites => KeepsUserParts /\ (run.touched \/ BacksUpFirst)
      BY <1>1, KeepsParts, BackupsAreFirst
    <2>2. host = "darwin" => ~Kill
      BY <1>1 DEF IInv, ControlInv, Kill
    <2>3. steam # "off" /\ steam' = "off" => Kill \/ SteamExits
      BY <1>1 DEF Next, RunStep, SteamStep, UserStep, Terminate, SeenClosed, StillRunning,
        BackupConfigs, SaveRegistry, WriteShortcuts, ApplyTemplates, TemplatesFail, WriteCollections,
        WriteCloud, WriteOverrides, WriteArt, Launch, Spawned, SeenStarted, NotStarted, Begin, Crash,
        SteamIsUp, EditLibrary, EditTemplate, StartSteam, UseSteam, AddGame, QuitSteam
    <2> QED BY <2>1, <2>2, <2>3 DEF SteamExits
  <1>2. IInv /\ [Next]_vars =>
          [/\ RunWrites => KeepsUserParts /\ (run.touched \/ BacksUpFirst)
           /\ host = "darwin" /\ steam # "off" /\ steam' = "off" => local' = mem.local]_vars
    BY <1>1
  <1> QED BY InductiveInvariant, <1>2, PTL DEF Spec, UserKept

\* A run that ends as applied has written everything but, perhaps, the
\* artwork before its last step, and the artwork then.
LEMMA AppliedAgrees ==
  ASSUME IInv, Next, run.pc # "done", run'.outcome = "applied", ~run'.touched
  PROVE  Agrees'
  <1>1. run \in Runs /\ host \in {"deck", "darwin"} /\ FilesType
    BY TypeParts DEF IInv, SidesType
  <1>2. run.outcome # "applied"
    BY DEF IInv, ControlInv, None
  <1> USE DEF AfterArt, AfterOverrides, AfterCloud, AfterCollections, AfterTemplates,
        AfterShortcuts, AfterRegistry, AfterBackup
  <1>3. WriteArt \/ Launch \/ SeenStarted
    <2>1. \A o \in Outcomes : End(o) => run'.outcome = o
      BY <1>1, EndIs
    <2>2. \A p : Goto(p) => run'.outcome = run.outcome
      BY <1>1 DEF Goto, Runs
    <2>3. AddGame \/ StartSteam => run'.outcome = run.outcome
      BY <1>1, TouchIs DEF AddGame, StartSteam
    <2>4. Begin \/ Crash => run'.outcome = None
      BY IdleIs DEF Begin, Crash, Runs
    <2>5. NotStarted => run'.outcome = run.outcome
      BY <1>1 DEF NotStarted, Runs
    <2>6. StillRunning \/ TemplatesFail => run'.outcome # "applied"
      BY <2>1 DEF StillRunning, TemplatesFail, Outcomes
    <2>7. Terminate \/ Kill \/ SeenClosed \/ BackupConfigs \/ SaveRegistry \/ WriteShortcuts
            \/ ApplyTemplates \/ WriteCollections \/ WriteCloud \/ WriteOverrides => run'.outcome = run.outcome
      BY <2>2 DEF Terminate, Kill, SeenClosed, BackupConfigs, SaveRegistry, WriteShortcuts,
        ApplyTemplates, WriteCollections, WriteCloud, WriteOverrides
    <2>8. SteamStep \/ EditLibrary \/ UseSteam \/ QuitSteam \/ (\E t \in Titles : EditTemplate(t))
            => run'.outcome = run.outcome
      BY DEF SteamStep, SteamIsUp, SteamExits, EditLibrary, UseSteam, QuitSteam, EditTemplate
    <2> QED BY <1>2, <2>3, <2>4, <2>5, <2>6, <2>7, <2>8 DEF Next, RunStep, UserStep, None
  <1>4. /\ run.pc \in AfterOverrides /\ ~run.touched
        /\ UNCHANGED <<host, index, shortcuts, local, cloud, registry, template>>
    <2>1. run'.touched = run.touched
      BY <1>1, <1>3, EndIs DEF WriteArt, Launch, SeenStarted, Runs, Outcomes
    <2> QED BY <1>3, <2>1 DEF WriteArt, Launch, SeenStarted, config, files
  <1>5. GridAgrees(grid', AllIds(shortcuts))
    <2>1. CASE WriteArt
      BY <1>1, <2>1, ArtIs, IdsType DEF WriteArt, FilesType
    <2>2. CASE Launch \/ SeenStarted
      BY <1>4, <2>2 DEF Launch, SeenStarted, files, IInv, AgreeInv, ArtInv
    <2> QED BY <1>3, <2>1, <2>2
  <1>6. Desired' = Desired /\ Templated' = Templated
    BY <1>4 DEF Desired, Templated
  <1>7. /\ host = "darwin" => Desired = registry
        /\ {e.title : e \in Managed(shortcuts)} = Desired
        /\ host = "deck" => \A t \in Templated : template[t].chosen /\ template[t].file # None
        /\ local.ok /\ local.coll = Collections(shortcuts)
        /\ (cloud.ok \/ AllIds(shortcuts) = {}) /\ LiveIds(cloud.entries) = Collections(shortcuts)
        /\ host = "deck" /\ local.apps => TemplateManaged(shortcuts) \subseteq local.over
    BY <1>4 DEF IInv, AgreeInv, RegistryInv, ShortcutsInv, TemplatesInv, CollectionsInv, CloudInv, OverridesInv
  <1> QED BY <1>4, <1>5, <1>6, <1>7 DEF Agrees, GridAgrees, Forms

\* On parts that agree a run writes nothing new.
LEMMA AgreedIsKept ==
  ASSUME IInv, Next, RunWrites, Agrees
  PROVE  UNCHANGED <<local, cloud>>
  <1>1. run \in Runs /\ FilesType /\ Alive(cloud)
    BY TypeParts DEF IInv, SidesType, LiveInv
  <1>2. /\ local.ok /\ local.coll = Collections(shortcuts)
        /\ (cloud.ok \/ AllIds(shortcuts) = {}) /\ LiveIds(cloud.entries) = Collections(shortcuts)
        /\ host = "deck" /\ local.apps => TemplateManaged(shortcuts) \subseteq local.over
    BY DEF Agrees
  <1>3. CASE WriteShortcuts
    BY <1>3 DEF WriteShortcuts
  <1>4. CASE WriteCollections
    BY <1>1, <1>2, <1>4, UpdateCollectionsIs DEF WriteCollections, FilesType
  <1>5. CASE WriteCloud
    BY <1>1, <1>2, <1>5, UpdateCloudIs DEF WriteCloud, FilesType
  <1>6. CASE WriteOverrides
    <2>1. host = "deck"
      BY <1>6 DEF WriteOverrides, IInv, ControlInv
    <2> QED BY <1>1, <1>2, <1>6, <2>1, RepairOverridesIs, IdsType DEF WriteOverrides, FilesType
  <1> QED BY <1>1, <1>3, <1>4, <1>5, <1>6, Writers DEF RunWrites

\* An applied run during which nobody used Steam leaves index, shortcuts,
\* collections, overrides, templates, payloads and artwork in agreement,
\* whatever runs were killed before it; a run on parts that agree writes
\* nothing new; and what is rewritten in the cloud file prevails over all
\* that was on it.
THEOREM RunsAgree == Spec => AppliedRunAgrees
  <1>1. ASSUME IInv, Next
        PROVE  /\ run.pc # "done" /\ run'.outcome = "applied" /\ ~run'.touched => Agrees'
               /\ RunWrites /\ Agrees => UNCHANGED <<local, cloud>>
               /\ cloud.ok /\ cloud' # cloud => VersionsGrow
    <2>1. ASSUME cloud.ok, cloud' # cloud PROVE VersionsGrow
      <3>1. cloud' = UpdateCloud(cloud, shortcuts) /\ cloud \in CloudFiles /\ shortcuts \in Seq(Entries)
        BY <1>1, <2>1, CloudWriter, TypeParts DEF WriteCloud, IInv, FilesType
      <3>2. PICK new : new = {s \in Systems : cloud'.entries[s] # cloud.entries[s]}
        OBVIOUS
      <3>3. /\ \A s \in new, r \in Systems : cloud'.entries[s].version > cloud.entries[r].version
            /\ \A s, r \in new : s # r => cloud'.entries[s].version # cloud'.entries[r].version
        BY <2>1, <3>1, <3>2, UpdateCloudGrows
      <3> QED BY <3>2, <3>3 DEF VersionsGrow
    <2> QED BY <1>1, <2>1, AppliedAgrees, AgreedIsKept
  <1>2. IInv /\ [Next]_vars =>
          [/\ run.pc # "done" /\ run'.outcome = "applied" /\ ~run'.touched => Agrees'
           /\ RunWrites /\ Agrees => UNCHANGED <<local, cloud>>
           /\ cloud.ok /\ cloud' # cloud => VersionsGrow]_vars
    BY <1>1
  <1> QED BY InductiveInvariant, <1>2, PTL DEF Spec, AppliedRunAgrees
=============================================================================
