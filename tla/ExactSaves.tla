----------------------------- MODULE ExactSaves -----------------------------
(***************************************************************************)
(* The file an exact_files save binding stands for on this device          *)
(* (emulators/save_resolution.py): RetroArch may keep the battery saves of *)
(* a system in a directory of its core, PSX memory cards also in its       *)
(* system directory, and one save may have any of several file names.      *)
(* GameHub searches for it when it uploads (discovery) and again, by other *)
(* rules, when it downloads (resolution).                                  *)
(*                                                                         *)
(* A file is a pair <<directory, name>>; "core" is the directory of the    *)
(* system's core below the root, "other" that of another core, "deep" any  *)
(* directory no rule names.  "system" and "systemCore" are below           *)
(* RetroArch's system directory.                                           *)
(***************************************************************************)
EXTENDS Naturals, FiniteSets, Sequences, SequencesExt

CONSTANTS
    Names,     \* candidate_filenames of the binding
    Layouts,   \* what a retroarch.cfg says of sorting: see SortsByCore
    MaxFiles   \* bound: files there are

VARIABLES
    family,   \* local_root of the binding
    confs,    \* the retroarch.cfg files, first candidate first
    files,    \* the content of each file there is
    coreDir,  \* whether there is a directory of any core
    last      \* history: the file the last download wrote, and for which name

vars == <<family, confs, files, coreDir, last>>

Folders == {"root", "core", "other", "deep"} \cup
               (IF family = "retroarch_saves_psx" THEN {"system", "systemCore"} ELSE {})
Paths == Folders \X Names
NoPath == <<"none", "none">>
Here == DOMAIN files

\* _retroarch_prefers_core_subdirs: the first file that turns sorting on decides;
\* "notByCore" sorts by content, or not by core.
SortsByCore ==
    LET i == SelectInSeq(confs, LAMBDA c : c # "plain") IN i # 0 /\ confs[i] = "byCore"

\* _prefer_sorted_retroarch_core_paths: or the directory of any core is there.
PrefersCore ==
    /\ family = "retroarch_saves"
    /\ SortsByCore \/ coreDir

\* _preferred_exact_path: its directory below each of the roots searched
\* (_exact_search_roots), the first root of which is the binding's own.
Preferred ==
    IF family = "retroarch_saves_psx"
    THEN IF SortsByCore THEN <<"core", "systemCore">> ELSE <<"root", "system">>
    ELSE IF PrefersCore THEN <<"core">> ELSE <<"root">>
Default(name) == <<Head(Preferred), name>>
ExistingPreferred(name) ==
    LET i == SelectInSeq(Preferred, LAMBDA d : <<d, name>> \in Here)
    IN  IF i = 0 THEN NoPath ELSE <<Preferred[i], name>>

\* Mutant: the only file of this name comes before the preferred ones.
ExistingIfUnique(name) ==
    LET found == {p \in Here : p[2] = name}
    IN  IF Cardinality(found) = 1 THEN CHOOSE p \in found : TRUE ELSE NoPath

\* _existing_exact_path
Existing(name) ==
    LET found == {p \in Here : p[2] = name}
    IN  IF ExistingPreferred(name) # NoPath THEN ExistingPreferred(name)
        ELSE IF ~PrefersCore /\ Cardinality(found) = 1 THEN CHOOSE p \in found : TRUE
        ELSE NoPath

\* discover_local_exact_save_candidates: the name each file is uploaded as.
Discovered == [name \in {n \in Names : Existing(n) # NoPath} |-> Existing(name)]

\* Mutants: an unsorted destination, no default, any file of the save.
DestinationInRoot(name) == <<"root", name>>
DestinationOfExisting(name) == IF PrefersCore THEN Default(name) ELSE Existing(name)
DestinationOfAny(name) ==
    LET there == {Existing(n) : n \in Names} \ {NoPath}
    IN  IF there # {} THEN CHOOSE p \in there : TRUE ELSE Default(name)

\* _resolve_exact_binding_destination, resolve_exact_local_save_destination
Destination(name) ==
    LET others == {Existing(n) : n \in Names} \ {NoPath}
    IN  IF PrefersCore THEN Default(name)
        ELSE IF Existing(name) # NoPath THEN Existing(name)
        ELSE IF Cardinality(others) = 1 THEN CHOOSE p \in others : TRUE
        ELSE Default(name)

-----------------------------------------------------------------------------
Init ==
    /\ family \in {"retroarch_saves", "retroarch_saves_psx", "pcsx2_memcards"}
    /\ confs \in [1 .. 2 -> Layouts]
    /\ files = <<>> /\ coreDir = FALSE /\ last = NoPath

InCoreDir(p) == p[1] \in {"core", "other"}

\* The emulator, or the user, puts a file anywhere or takes it away (external).
EmulatorSaves(p) ==
    /\ p \in Here \/ Cardinality(Here) < MaxFiles
    /\ files' = [q \in Here \cup {p} |-> IF q = p THEN "local" ELSE files[q]]
    /\ coreDir' = (coreDir \/ InCoreDir(p))
    /\ last' = NoPath /\ UNCHANGED <<family, confs>>
UserRemoves(p) ==
    /\ files' = [q \in Here \ {p} |-> files[q]] /\ last' = NoPath
    /\ coreDir' \in {coreDir, \E q \in Here \ {p} : InCoreDir(q)}
    /\ UNCHANGED <<family, confs>>
UserSorts ==
    \E c \in Layouts, i \in DOMAIN confs :
        /\ confs' = [confs EXCEPT ![i] = c] /\ last' = NoPath
        /\ UNCHANGED <<family, files, coreDir>>

\* The save of this name comes down from the server.
Download(name) ==
    LET p == Destination(name)
    IN  /\ p \in Here \/ Cardinality(Here) < MaxFiles
        /\ files' = [q \in Here \cup {p} |-> IF q = p THEN name ELSE files[q]]
        /\ coreDir' = (coreDir \/ InCoreDir(p))
        /\ last' = <<name, p>> /\ UNCHANGED <<family, confs>>

Next ==
    \/ \E p \in Paths : EmulatorSaves(p)
    \/ \E p \in Here : UserRemoves(p)
    \/ UserSorts
    \/ \E name \in Names : Download(name)
Spec == Init /\ [][Next]_vars

-----------------------------------------------------------------------------
(* Properties.                                                             *)

TypeOK ==
    /\ Here \subseteq Paths /\ Cardinality(Here) <= MaxFiles
    /\ (\E p \in Here : InCoreDir(p)) => coreDir
    /\ \A name \in Names : Destination(name) \in Paths /\ Existing(name) \in Here \cup {NoPath}

\* What was downloaded is found again, by the discovery and by the next
\* download, as the save it was downloaded as; a file that had the only other
\* name of the save keeps that name, and is found as what it is called.
DownloadIsFound ==
    last # NoPath => LET name == last[1]
                       path == last[2]
                   IN  Destination(name) = path /\ path[2] \in DOMAIN Discovered
                       /\ Discovered[path[2]] = path

\* A download writes over nothing the discovery did not see: a file that is
\* not offered for upload is never lost to the one that comes down.
SeenBeforeOverwritten ==
    \A name \in Names : Destination(name) \in Here =>
        \E n \in DOMAIN Discovered : Discovered[n] = Destination(name)

\* Two saves come down to one file only when it is the one file there is.
OneFileEach ==
    \A a, b \in Names : a # b /\ Destination(a) = Destination(b) =>
        Cardinality({Existing(n) : n \in Names} \ {NoPath}) = 1

\* The only file with a name of the save is found wherever it lies, unless the
\* core directories are preferred, where only the system's own counts.
OnlyFileIsFound ==
    \A p \in Here : (\A q \in Here : q[2] = p[2] => q = p) =>
        \/ p[2] \in DOMAIN Discovered
        \/ PrefersCore /\ p[1] # "core"

\* Discovery and download, two searches of the same directories, agree.
DiscoveryAgrees ==
    DownloadIsFound /\ SeenBeforeOverwritten /\ OneFileEach /\ OnlyFileIsFound
=============================================================================
