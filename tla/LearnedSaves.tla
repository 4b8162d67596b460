---------------------------- MODULE LearnedSaves ----------------------------
(***************************************************************************)
(* The saves of a learned_tree binding: GameCube GCI folders, Wii title    *)
(* trees and 3DS title data.  Nothing says in advance which files are a    *)
(* title's; when a session ends, shortcuts/save_session.py learns the tree *)
(* from what the session changed, records it in the state file, and        *)
(* uploads the new files below it.  Another device puts them where its own *)
(* emulator has that tree (emulators/save_resolution.py).                  *)
(*                                                                         *)
(* A path is the sequence of its segments.  On a 3DS its first three name  *)
(* the profile of the device, and the server's suffix is without them.     *)
(***************************************************************************)
EXTENDS Naturals, FiniteSets, Sequences, SequencesExt

CONSTANTS
    Devices, Titles,
    Rules,      \* learn_rule of the bindings: "gc", "wii", "n3ds"
    Profiles,   \* the user profiles an emulated 3DS may have
    MaxEvents   \* bound: sessions, and profiles made

VARIABLES
    rule,      \* the learn_rule
    tree,      \* files on each device, with the title whose game wrote them
    profile,   \* the profile each device's emulator uses
    profiles,  \* the profiles each device has a directory of
    roots,     \* save_binding_roots of each device's state file
    server,    \* files on the server: the title of each and the game that wrote it
    events     \* the bounded counter

vars == <<rule, tree, profile, profiles, roots, server, events>>

NoPath == <<>>

\* The segments a path of the tree has to begin with.
Pattern ==
    CASE rule = "gc" -> <<{"USA", "EUR", "JAP"}, {"Card A", "Card B"}>>
      [] rule = "wii" -> <<{"title"}, {"00010000"}, Titles>>
      [] rule = "n3ds" -> <<{"Nintendo 3DS"}, Profiles, Profiles, {"title"}, {"00040000"}, Titles, {"data"}>>
Local == IF rule = "n3ds" THEN 3 ELSE 0

\* _matches_learned_tree_path
Matches(p) == Len(p) > Len(Pattern) /\ \A i \in DOMAIN Pattern : p[i] \in Pattern[i]
Root(p) == SubSeq(p, 1, Len(Pattern))
WithoutProfile(p) == SubSeq(p, Local + 1, Len(p))

\* _canonical_root_for_learned_path
Canonical(p) == IF Matches(p) THEN WithoutProfile(Root(p)) ELSE NoPath

\* A mutant: of several roots, one.
LearnedFirst(paths) ==
    IF \E p \in paths : Matches(p) THEN Root(CHOOSE p \in paths : Matches(p)) ELSE NoPath

\* learn_binding_root: the one root of all these paths.
Learned(paths) ==
    IF paths = {} \/ \E p \in paths : ~Matches(p) \/ \E q \in paths : Root(q) # Root(p)
    THEN NoPath ELSE Root(CHOOSE p \in paths : TRUE)

\* A mutant: the suffix keeps the profile of the device.
SuffixWithProfile(p, root) == IF root # NoPath /\ IsStrictPrefix(root, p) THEN p ELSE NoPath

\* canonical_suffix_for_learned_path
Suffix(p, root) ==
    IF root # NoPath /\ IsStrictPrefix(root, p) THEN WithoutProfile(p) ELSE NoPath

Files(d) == DOMAIN tree[d]

\* _single_n3ds_profile_prefix: the one profile directory, with saves in it or not.
SingleProfile(d) ==
    IF \E x \in profiles[d] : profiles[d] = {x}
    THEN LET x == CHOOSE x \in profiles[d] : TRUE IN <<"Nintendo 3DS", x, x>>
    ELSE NoPath

\* Mutants: the suffix as it is, and with its last segment of the root again.
DestinationVerbatim(d, t, suffix) ==
    IF rule # "n3ds" \/ SingleProfile(d) = NoPath THEN suffix ELSE SingleProfile(d) \o suffix
DestinationOffByOne(d, t, suffix) ==
    IF rule # "n3ds" THEN suffix
    ELSE LET root == IF roots[d][t] # NoPath THEN roots[d][t]
                     ELSE SingleProfile(d) \o SubSeq(suffix, 1, 4)
         IN  IF SingleProfile(d) = NoPath THEN NoPath ELSE root \o SubSeq(suffix, 4, Len(suffix))

\* resolve_local_save_destination of a learned save, _resolve_n3ds_materialized_root
Destination(d, t, suffix) ==
    IF rule # "n3ds" THEN suffix
    ELSE LET canonical == SubSeq(suffix, 1, 4)
             root == IF roots[d][t] # NoPath
                     THEN IF WithoutProfile(roots[d][t]) = canonical THEN roots[d][t] ELSE NoPath
                     ELSE IF SingleProfile(d) # NoPath THEN SingleProfile(d) \o canonical ELSE NoPath
         IN  IF root = NoPath THEN NoPath ELSE root \o SubSeq(suffix, 5, Len(suffix))

\* Where the game of a title keeps its save on a device (external).
PlaysFrom(d, t) ==
    CASE rule = "gc" -> <<"USA", "Card A", t>>
      [] rule = "wii" -> <<"title", "00010000", t, "data.bin">>
      [] rule = "n3ds" ->
             <<"Nintendo 3DS", profile[d], profile[d], "title", "00040000", t, "data", "save">>

-----------------------------------------------------------------------------
\* An emulator may have made the directory of its profile, and nothing in it.
Init ==
    /\ rule \in Rules /\ profile \in [Devices -> Profiles]
    /\ \E fresh \in IF rule = "n3ds" THEN SUBSET Devices ELSE {{}} :
           profiles = [d \in Devices |-> IF d \in fresh THEN {profile[d]} ELSE {}]
    /\ tree = [d \in Devices |-> <<>>] /\ roots = [d \in Devices |-> [t \in Titles |-> NoPath]]
    /\ server = <<>> /\ events = 0

Of(t) == {e \in DOMAIN server : e[1] = t}

\* The tree the session of a title looks at: snapshot_binding_tree.  Once the
\* server has saves of the title it is only what lies below their roots.
Snapshot(t, paths) ==
    LET known == {SubSeq(e[2], 1, Len(Pattern) - Local) : e \in Of(t)}
    IN  {p \in paths : Matches(p) /\ (known # {} => Canonical(p) \in known)}

\* A session of a title, from the snapshot at the launch to the upload at the
\* end; the game may have saved, and the server may not answer.
Session(d, t, saves) ==
    \E online \in BOOLEAN :
        LET file == PlaysFrom(d, t)
            now == IF saves THEN [p \in Files(d) \cup {file} |-> IF p = file THEN t ELSE tree[d][p]]
                   ELSE tree[d]
            after == Snapshot(t, DOMAIN now)
            changed == IF saves THEN Snapshot(t, {file}) ELSE {}
            root == Learned(IF changed # {} THEN changed ELSE after)
            new == {p \in after : Suffix(p, root) # NoPath /\ <<t, Suffix(p, root)>> \notin DOMAIN server}
        IN  /\ events < MaxEvents /\ events' = events + 1
            /\ tree' = [tree EXCEPT ![d] = now]
            /\ profiles' = [profiles EXCEPT ![d] =
                   IF saves /\ rule = "n3ds" THEN @ \cup {profile[d]} ELSE @]
            /\ IF online /\ after # {}
               THEN /\ roots' = [roots EXCEPT ![d] = [@ EXCEPT ![t] = root]]
                    /\ server' = [e \in DOMAIN server \cup {<<t, Suffix(p, root)>> : p \in new} |->
                                     IF e \in DOMAIN server THEN server[e]
                                     ELSE now[CHOOSE p \in new : e = <<t, Suffix(p, root)>>]]
               ELSE UNCHANGED <<roots, server>>
            /\ UNCHANGED <<rule, profile>>

\* A save the device does not have comes down.
Download(d, e) ==
    LET file == Destination(d, e[1], e[2])
    IN  /\ file # NoPath /\ file \notin Files(d)
        /\ tree' = [tree EXCEPT ![d] = [p \in Files(d) \cup {file} |-> IF p = file THEN server[e] ELSE @[p]]]
        /\ UNCHANGED <<rule, profile, profiles, roots, server, events>>

\* The emulator gets a profile, as after its system data was erased, and makes
\* its directory now or with the first save (external).
NewProfile(d) ==
    /\ rule = "n3ds" /\ events < MaxEvents /\ events' = events + 1
    /\ \E x \in Profiles, has \in BOOLEAN :
           /\ profile' = [profile EXCEPT ![d] = x]
           /\ profiles' = [profiles EXCEPT ![d] = IF has THEN @ \cup {x} ELSE @]
    /\ UNCHANGED <<rule, tree, roots, server>>

Next ==
    \E d \in Devices :
        \/ \E t \in Titles, saves \in BOOLEAN : Session(d, t, saves)
        \/ \E e \in DOMAIN server : Download(d, e)
        \/ NewProfile(d)
Spec == Init /\ [][Next]_vars

-----------------------------------------------------------------------------
(* Properties.                                                             *)

TypeOK ==
    /\ profiles \in [Devices -> SUBSET Profiles]
    /\ \A d \in Devices : \A p \in Files(d) : Matches(p) /\ tree[d][p] \in Titles
    /\ \A e \in DOMAIN server : e[1] \in Titles /\ server[e] \in Titles

\* A device that has learned the tree of a title gets the file it uploaded
\* back at the path it came from: suffix and destination undo one another.
ComesBackToItsPlace ==
    \A d \in Devices, t \in Titles : \A p \in Files(d) :
        Suffix(p, roots[d][t]) # NoPath => Destination(d, t, Suffix(p, roots[d][t])) = p

\* What comes down is where the game plays from, on any device: the suffix has
\* nothing in it of the device it came from.  A 3DS that has the directory of
\* another profile than the one it uses is excepted.
PlayedDownload ==
    \A d \in Devices, e \in DOMAIN server :
        Download(d, e) /\ server[e] = e[1] =>
            \/ PlaysFrom(d, e[1]) \in DOMAIN tree'[d]
            \/ rule = "n3ds" /\ \E x \in profiles[d] : x # profile[d]

\* The server has a save of another title among those of this one.
Mixed(t) == \E e \in Of(t) : server[e] # t

\* The end of a session uploads the saves of the title that was played, whatever
\* else lies in the trees of that device.  Excepted are a GameCube card, which
\* titles share; the session in which the game did not save, of a title of which
\* neither that device nor the server has a save: it takes the one tree there is
\* for its own; and all sessions of the title once that has happened.
ScopedSession ==
    \A d \in Devices, t \in Titles, saves \in BOOLEAN : Session(d, t, saves) =>
        \A e \in DOMAIN server' \ DOMAIN server :
            \/ e[1] = t /\ server'[e] = t
            \/ rule = "gc" \/ Mixed(t)
            \/ ~saves /\ Of(t) = {} /\ t \notin {tree[d][p] : p \in Files(d)}

\* The tree of a title stays one tree, wherever a device keeps it.
TreeTravels == ComesBackToItsPlace' /\ PlayedDownload /\ ScopedSession
=============================================================================
