------------------------------- MODULE Device -------------------------------
(***************************************************************************)
(* The parts of a client that share no state with each other, explored     *)
(* one at a time: the save decision, the backups of a file, exact and      *)
(* learned saves, the paths of an emulator, the edits of its               *)
(* configuration and the installation of emulators. The behaviours of one  *)
(* part are those of its own specification, and the other parts stay in    *)
(* one of their initial states meanwhile.                                  *)
(***************************************************************************)
EXTENDS SaveDecisionCheck

CONSTANTS
    KeepLimit, Burst, MaxSeconds, MaxBackups,         \* of the backups
    Names, Layouts, MaxFiles,                         \* of exact saves
    Devices, Titles, Rules, Profiles, MaxEvents,      \* of learned saves
    Combinations, MaxChanges,                         \* of the paths: systems with emulators
    Hosts, Needs, MaxUser,                            \* of the installation
    Emulators, MaxLines, MaxEdits                     \* of the edits

VARIABLES
    part,
    second, backups, made, recent,
    family, confs, files, coreDir, last,
    rule, learnedTree, profile, profiles, roots, server, events,
    onHost, byPath, at, dirs, conf, shortcut, synced, wrote, changes,
    host, required, tree, system, own, pc, left, staged, backup, failed, before, user,
    emu, there, lines, kept, edits

backupVars == <<second, backups, made, recent>>
exactVars == <<family, confs, files, coreDir, last>>
learnedVars == <<rule, learnedTree, profile, profiles, roots, server, events>>
pathVars == <<onHost, byPath, at, dirs, conf, shortcut, synced, wrote, changes>>
editVars == <<emu, there, lines, kept, edits>>
installVars == <<host, required, tree, system, own, pc, left, staged, backup, failed, before, user>>

Backups == INSTANCE BackupRetention WITH family <- backups
Exact == INSTANCE ExactSaves
Learned == INSTANCE LearnedSaves WITH tree <- learnedTree
Paths == INSTANCE EmulatorPaths WITH Hosts <- Combinations, host <- onHost
Install == INSTANCE EmulatorInstall
Edits == INSTANCE ConfigEdits

\* A part that does not move starts in a state that its constants allow.
Rest(p, pinned) == part # p => pinned
DeviceInit ==
    /\ part \in {"decision", "backups", "exact", "learned", "paths", "edits", "install"}
    /\ Init /\ Rest("decision", /\ remote = CHOOSE c \in Contents : TRUE
                                /\ local = remote /\ lineLocal = None /\ lineRemote = None
                                /\ mode = "bidirectional" /\ policy = "manual" /\ unresolved = None
                                /\ order = "local")
    /\ Backups!Init
    /\ Exact!Init /\ Rest("exact", /\ family = "pcsx2_memcards"
                                   /\ confs[1] = confs[2] /\ confs[1] = CHOOSE l \in Layouts : TRUE)
    /\ Learned!Init /\ Rest("learned", /\ rule = CHOOSE r \in Rules : TRUE
                                       /\ profile = [d \in Devices |-> CHOOSE x \in Profiles : TRUE]
                                       /\ profiles = [d \in Devices |-> {}])
    /\ Paths!Init /\ Rest("paths", /\ <<onHost.os, onHost.emu>> = CHOOSE c \in Combinations : TRUE
                                   /\ onHost.mac \in {"none", "intel"} /\ ~onHost.override /\ ~byPath
                                   /\ dirs = {})
    /\ Install!Init /\ Rest("install", /\ host.os = CHOOSE o \in Hosts : TRUE
                                       /\ host.backend = "auto" /\ host.tools = {} /\ ~host.immutable
                                       /\ host.shared = {}
                                       /\ required = CHOOSE n \in Needs : TRUE)
    /\ IF part = "edits" THEN Edits!Init
       ELSE /\ emu = CHOOSE e \in Emulators : TRUE
            /\ there = FALSE /\ lines = <<>> /\ kept = Edits!NoBackup /\ edits = 0

DeviceNext ==
    /\ UNCHANGED <<part, inputs>>
    /\ IF part = "backups" THEN Backups!Next ELSE UNCHANGED backupVars
    /\ IF part = "exact" THEN Exact!Next ELSE UNCHANGED exactVars
    /\ IF part = "learned" THEN Learned!Next ELSE UNCHANGED learnedVars
    /\ IF part = "paths" THEN Paths!Next ELSE UNCHANGED pathVars
    /\ IF part = "install" THEN Install!Next ELSE UNCHANGED installVars
    /\ IF part = "edits" THEN Edits!Next ELSE UNCHANGED editVars

vars == <<part, inputs, backupVars, exactVars, learnedVars, pathVars, installVars, editVars>>
DeviceSpec == DeviceInit /\ [][DeviceNext]_vars

-----------------------------------------------------------------------------
(* The properties of the parts, by the names and comments they have there. *)

\* Every variable of every part keeps its type.
TypeOK ==
    CASE part = "decision" -> TRUE
      [] part = "backups" -> Backups!TypeOK
      [] part = "exact" -> Exact!TypeOK
      [] part = "learned" -> Learned!TypeOK
      [] part = "paths" -> Paths!TypeOK
      [] part = "install" -> Install!TypeOK
      [] part = "edits" -> Edits!TypeOK

\* The backups that are kept are the last ones made, but for those that come
\* after the first KeepLimit + 1 of one second: these are lost as they are made.
KeepsNewest == part = "backups" => Backups!KeepsNewest

\* An exact save that came down is found again as the save it came down as;
\* a download writes over nothing the discovery did not see, and two saves come
\* down to one file, or a save is overlooked, only in the cases excepted.
DiscoveryAgrees == part = "exact" => Exact!DiscoveryAgrees

\* A learned file a device uploaded comes back to where it came from, and on
\* every device to where the game plays from; a session uploads the saves of its
\* own title, but for the cases excepted.
TreeTravels == [][part = "learned" => Learned!TreeTravels]_vars

\* What is called available is what can be launched; GameHub looks for saves
\* where the emulator it launches puts them, and goes on looking there; a sync
\* writes the configuration that emulator reads, and what one part of GameHub
\* writes there settles and leaves the settings of all others as they are.
PathsAgree ==
    [][(part = "paths" => Paths!PathsAgree) /\ (part = "edits" => Edits!EditsSettle)]_vars

\* However an installation ends: half of one is not taken for an emulator, but
\* of Dolphin on Windows; Dolphin's own user data only goes with one that is
\* broken; on a Mac a bundle stays where one was; one emulator that cannot be
\* installed does not stop the others, and Flatpaks are where they have to be.
InstallIsSafe == [][part = "install" => Install!InstallIsSafe]_vars
=============================================================================
