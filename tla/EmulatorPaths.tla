---------------------------- MODULE EmulatorPaths ----------------------------
(***************************************************************************)
(* Which installation of an emulator GameHub launches, and in which        *)
(* directories it looks for the saves, puts the firmware and writes the    *)
(* configuration of it: emulators/resolution.py, firmware/targets.py,      *)
(* firmware/runtime_*.py, emulators/save_resolution.py and                 *)
(* common/platform_paths.py.  Each of them decides alone, from the         *)
(* installations and the directories it finds on the host, and the host    *)
(* changes: the user installs, removes and configures emulators, emulators *)
(* create their directories, and so does GameHub.                          *)
(*                                                                         *)
(* A directory is a pair <<root, part>>, such as <<"flatData", "GC">> for  *)
(* the GC directory of Dolphin's Flatpak data; the part "" is the root     *)
(* itself.  A configuration file is named by the root that holds it.       *)
(***************************************************************************)
EXTENDS Naturals, Sequences

CONSTANTS
    Hosts,       \* the operating systems and emulators to look at
    MaxChanges   \* bound: what the user does to the host

VARIABLES
    host,      \* operating system, emulator, kind of Mac, whether the config overrides its paths
    byPath,    \* the library names the emulator by the path of an executable
    at,        \* the build installed at each place
    dirs,      \* directories there are
    conf,      \* the configuration file in each root
    shortcut,  \* the executable and user directory of the shortcut in Steam
    synced,    \* roots GameHub configured in its last sync
    wrote,     \* history: where this shortcut's emulator last put its saves
    changes    \* the bounded counter

vars == <<host, byPath, at, dirs, conf, shortcut, synced, wrote, changes>>

os == host.os
emu == host.emu
NoPath == <<"none", "">>

\* Every search goes through places in an order: the first of them in S counts.
FirstIn(order, S, otherwise) ==
    IF \E i \in DOMAIN order : order[i] \in S
    THEN order[CHOOSE i \in DOMAIN order : order[i] \in S /\ \A j \in 1 .. i - 1 : order[j] \notin S]
    ELSE otherwise

-----------------------------------------------------------------------------
(* The installations.                                                      *)

Places ==
    {"own", "onPath"} \cup
        CASE os = "linux" -> {"bin", "exportUser", "exportSystem"}
          [] os = "nt" -> {"local", "files", "alias"}
          [] os = "darwin" -> {"userApp", "systemApp"}
\* Builds between which the code makes no difference on a host are one of them.
Builds ==
    CASE host.mac \in {"none", "intel"} -> {"any"}
      [] host.mac = "silicon" -> {"arm64", "unknown"}
      [] host.mac = "rosetta" -> {"arm64", "intel", "unknown"}
IsThere(p) == p \in Places /\ at[p] # "absent"

\* The executables of a Mac that may run, and which of them are preferred.
Preference(build) ==
    IF host.mac = "intel" \/ build \in {"arm64", "any"} THEN 0
    ELSE IF emu = "pcsx2" /\ build = "intel" /\ host.mac = "rosetta" THEN 1 ELSE 99
MayRun(p) == IsThere(p) /\ Preference(at[p]) < 99
BestOf(bundles, otherwise) ==
    FirstIn(bundles, {p \in Places : MayRun(p) /\ Preference(at[p]) = 0},
        FirstIn(bundles, {p \in Places : MayRun(p) /\ Preference(at[p]) = 1}, otherwise))

Installed == {p \in Places : IsThere(p)}
Known(otherwise) ==
    CASE os = "linux" /\ emu \in {"retroarch", "pcsx2"} ->
             FirstIn(<<"bin", "exportUser">>, Installed, otherwise)
      [] os = "linux" /\ emu \in {"dolphin", "azahar"} ->
             FirstIn(<<"exportUser", "exportSystem", "bin">>, Installed, otherwise)
      [] os = "nt" -> FirstIn(<<"local", "files">>, Installed, otherwise)
      [] os = "darwin" -> BestOf(<<"userApp", "systemApp">>, otherwise)

\* resolve_emulator_executable, of a name or of the path of an executable.
Resolve(path) ==
    LET onPath == FirstIn(<<"onPath", "alias">>, {p \in Places : MayRun(p)}, "missing")
        known == IF path /\ IsThere("own") THEN "own" ELSE Known(onPath)
    IN  IF os = "darwin" /\ emu = "azahar" THEN BestOf(<<"userApp">>, known) ELSE known

\* Mutant: an executable given by its path is available when it exists.
AvailableByExistence(path) ==
    IF path THEN IsThere("own") ELSE MayRun("onPath") \/ MayRun("alias") \/ Known("missing") # "missing"

\* _is_emulator_available, which the installation of missing emulators asks.
Available(path) ==
    IF path THEN MayRun("own") ELSE MayRun("onPath") \/ MayRun("alias") \/ Known("missing") # "missing"

Exe == Resolve(FALSE)
IsFlatpak(exe) == exe \in {"exportUser", "exportSystem"}

-----------------------------------------------------------------------------
(* The directories.                                                        *)

Exists(d) == d \in dirs
In(r, part) == <<r, part>>
Roots == {"override", "native", "flat", "exeDir", "appdata", "documents", "support", "xdg", "dotConfig"}
Having(part) == {r \in Roots : Exists(In(r, part))}
FirstExisting(roots, part) ==
    LET root == FirstIn(roots, Having(part), "none")
    IN  IF root = "none" THEN NoPath ELSE In(root, part)

\* Roots that may hold a configuration file of the emulator.
ConfRoots ==
    {"override"} \cup
        CASE emu = "retroarch" /\ os = "linux" -> {"native", "flat"}
          [] emu = "retroarch" /\ os = "nt" -> {"exeDir", "appdata"}
          [] emu = "retroarch" /\ os = "darwin" ->
                 {"documents", "documentsConfig", "support", "supportConfig"}
          [] emu = "pcsx2" /\ os = "linux" -> {"documents", "native", "flat"}
          [] emu = "pcsx2" /\ os = "nt" -> {"documents", "appdata", "native"}
          [] emu = "pcsx2" /\ os = "darwin" -> {"support"}
          [] emu = "azahar" /\ os = "darwin" -> {"support", "xdgConfig"}
          [] OTHER -> {"native", "flat"}

\* The root of the RetroArch directories a configuration file belongs to.
RootOf(r) == CASE r = "documentsConfig" -> "documents"
               [] r = "supportConfig" -> "support"
               [] OTHER -> r
HasConf(r) == conf[r] # "absent"
WithConf == {r \in ConfRoots : HasConf(r)}

\* Of two roots the one that exists comes first.
MacRoots(first, second) ==
    IF Exists(In(second, "")) /\ ~Exists(In(first, "")) THEN <<second, first>> ELSE <<first, second>>

\* retroarch_cfg_candidates; with its override, or without: the files, and the
\* first of those in S.
RetroArchConfs(explicit) ==
    (IF explicit THEN {"override"} ELSE {}) \cup
        CASE os = "nt" -> (IF Exe # "missing" THEN {"exeDir"} ELSE {}) \cup {"appdata"}
          [] os = "linux" -> {"native", "flat"}
          [] os = "darwin" -> {"documentsConfig", "supportConfig", "documents", "support"}
RetroArchConf(S, otherwise) ==
    IF "override" \in S THEN "override"
    ELSE CASE os = "nt" -> FirstIn(<<"exeDir", "appdata">>, S, otherwise)
           [] os = "linux" ->
                  FirstIn(IF IsFlatpak(Exe) THEN <<"flat", "native">> ELSE <<"native", "flat">>,
                          S, otherwise)
           [] os = "darwin" ->
                  LET order == IF MacRoots("documents", "support")[1] = "documents"
                               THEN <<"documentsConfig", "supportConfig", "documents", "support">>
                               ELSE <<"supportConfig", "documentsConfig", "support", "documents">>
                  IN  FirstIn(order, S \cap WithConf, FirstIn(order, S, otherwise))

\* The directory of RetroArch that a configuration file names.
RetroArchIn(r, part) == In(IF conf[r] = "custom" THEN "custom" ELSE RootOf(r), part)

\* pcsx2_ini_candidates of the firmware.
Pcsx2Inis ==
    CASE os = "nt" -> <<"documents", "appdata", "native">>
      [] os = "darwin" -> <<"support">>
      [] os = "linux" -> <<"documents", "native", "flat">>

-----------------------------------------------------------------------------
(* Where GameHub looks for saves.                                          *)

RetroArchDefaults ==
    CASE os = "linux" -> <<"native">>
      [] os = "nt" -> <<"appdata">>
      [] os = "darwin" -> MacRoots("documents", "support")

\* Mutant: a configuration decides, whether or not its directory is there.
RetroArchSavesOfConf ==
    LET root == RetroArchConf(RetroArchConfs(os = "darwin" /\ host.override) \cap WithConf, "none")
    IN  IF IsFlatpak(Exe) THEN In("flat", "saves")
        ELSE IF root # "none" THEN RetroArchIn(root, "saves")
        ELSE In(RetroArchDefaults[1], "saves")

RetroArchSaves ==
    LET confs == RetroArchConfs(os = "darwin" /\ host.override)
        found == RetroArchConf({r \in confs : Exists(RetroArchIn(r, "saves"))}, "none")
        default == FirstIn(RetroArchDefaults, Having("saves"), "none")
        written == RetroArchConf(confs \cap WithConf, "none")
    IN  IF IsFlatpak(Exe) THEN In("flat", "saves")
        ELSE IF found # "none" THEN RetroArchIn(found, "saves")
        ELSE IF default # "none" THEN In(default, "saves")
        ELSE IF written # "none" THEN RetroArchIn(written, "saves")
        ELSE In(RetroArchDefaults[1], "saves")

Pcsx2Saves ==
    IF IsFlatpak(Exe) THEN FirstExisting(<<"flat">>, "memcards")
    ELSE IF os = "linux" THEN FirstExisting(<<"native">>, "memcards")
    ELSE LET inis == IF os = "nt" THEN {"appdata", "documents"}
                     ELSE {"support"} \cup (IF host.override THEN {"override"} ELSE {})
             moved == \E r \in inis : conf[r] = "custom"
         IN  IF moved /\ Exists(In("custom", "memcards")) THEN In("custom", "memcards")
             ELSE FirstExisting(IF os = "nt" THEN <<"appdata", "documents">> ELSE <<"support">>,
                                "memcards")

\* The root with Dolphin's data.
DolphinNtRoots ==
    IF Exe # "missing" THEN <<"exeDir", "documents", "appdata">> ELSE <<"documents", "appdata">>
DolphinData ==
    IF IsFlatpak(Exe) THEN FirstIn(<<"flat">>, Having(""), "none")
    ELSE CASE os = "nt" ->
                  FirstIn(DolphinNtRoots, Having("Config") \cup Having("GC") \cup Having("Wii"),
                      FirstIn(DolphinNtRoots, Having(""), "none"))
           [] os = "darwin" ->
                  IF host.override /\ Exists(In("override", "")) THEN "override"
                  ELSE FirstIn(MacRoots("xdg", "support"), Having(""), "none")
           [] os = "linux" -> FirstIn(<<"native", "flat">>, Having(""), "none")

\* Mutant: the directories of a Flatpak are forgotten.
AzaharSavesNative ==
    CASE os = "nt" -> FirstExisting(<<"appdata">>, "sdmc")
      [] os = "darwin" -> FirstExisting(MacRoots("xdg", "support") \o <<"dotConfig">>, "sdmc")
      [] os = "linux" -> FirstExisting(<<"native">>, "sdmc")

\* On a Mac the files of the configuration are tried last, each for an sdmc two
\* levels up: of the one in ~/.config/azahar-emu that is ~/.config itself.
AzaharSaves ==
    IF IsFlatpak(Exe) THEN FirstExisting(<<"flat">>, "sdmc")
    ELSE CASE os = "nt" -> FirstExisting(<<"appdata">>, "sdmc")
           [] os = "darwin" -> FirstExisting(MacRoots("xdg", "support") \o <<"dotConfig">>, "sdmc")
           [] os = "linux" -> FirstExisting(<<"native">>, "sdmc")

SavePart == CASE emu = "retroarch" -> "saves" [] emu = "pcsx2" -> "memcards"
              [] emu = "dolphin" -> "GC" [] emu = "azahar" -> "sdmc"

\* resolve_system_save_root; for Dolphin that of the GameCube.
SaveRoot ==
    CASE emu = "retroarch" -> RetroArchSaves
      [] emu = "pcsx2" -> Pcsx2Saves
      [] emu = "dolphin" -> FirstExisting(<<DolphinData>>, "GC")
      [] emu = "azahar" -> AzaharSaves

-----------------------------------------------------------------------------
(* Where GameHub puts firmware and configuration.                          *)

\* resolve_dolphin_runtime_user_dir, which the shortcut passes with -u.
DolphinUser ==
    IF host.override THEN "override"
    ELSE CASE os = "nt" ->
                  IF Exe = "local" THEN "exeDir"
                  ELSE FirstIn(DolphinNtRoots, Having("Config"),
                           FirstIn(DolphinNtRoots, Having(""), DolphinNtRoots[1]))
           [] os = "darwin" -> FirstIn(MacRoots("xdg", "support"), Having(""), "support")
           [] os = "linux" ->
                  IF \/ Exists(In("flat", "")) \/ Exists(In("flatConfig", ""))
                     \/ IsThere("exportUser") \/ IsThere("exportSystem")
                  THEN "flat" ELSE "native"

\* Mutant: the configuration belongs to the data directory, found or not.
DolphinConfsOfData == {DolphinData}

\* resolve_dolphin_config_dirs
DolphinConfs ==
    IF host.override THEN {"override"}
    ELSE {DolphinUser} \cup
        IF os # "linux" THEN {}
        ELSE LET there == {r \in {"flatConfig", "nativeConfig", "native"} : Exists(In(r, ""))}
             IN  IF there # {} THEN there
                 ELSE IF IsFlatpak(Exe) THEN {"flatConfig"} ELSE {"nativeConfig", "native"}

\* Mutant: the installation that is launched does not count.
Pcsx2IniFirst ==
    IF host.override THEN "override"
    ELSE FirstIn(Pcsx2Inis, WithConf, IF os = "linux" THEN "native" ELSE Pcsx2Inis[1])

\* default_pcsx2_ini_path
Pcsx2Ini ==
    IF host.override THEN "override"
    ELSE IF os = "linux" /\ IsFlatpak(Exe) THEN "flat"
    ELSE FirstIn(Pcsx2Inis, WithConf, IF os = "linux" THEN "native" ELSE Pcsx2Inis[1])

\* default_azahar_qt_config_path
AzaharConf ==
    CASE os = "nt" -> "native"
      [] os = "darwin" ->
             FirstIn(<<"xdgConfig", "support">>, WithConf,
                 IF Exists(In("xdgConfig", "")) \/ Exists(In("xdg", "")) THEN "xdgConfig" ELSE "support")
      [] os = "linux" ->
             IF \/ IsFlatpak(Exe) \/ HasConf("flat") \/ Exists(In("flat", ""))
                \/ IsThere("exportUser")
             THEN "flat" ELSE "native"

\* The configuration files a sync writes; RetroArch has to have one.
Configured ==
    CASE emu = "retroarch" ->
             LET confs == RetroArchConfs(host.override /\ os # "nt")
                 created == IF os = "darwin" THEN RetroArchConf(confs, "none")
                            ELSE IF "override" \in confs THEN "override" ELSE "none"
             IN  IF os = "darwin" /\ host.override THEN {"override"}
                 ELSE {RetroArchConf(confs \cap WithConf, created)} \ {"none"}
      [] emu = "pcsx2" -> {Pcsx2Ini}
      [] emu = "dolphin" -> DolphinConfs
      [] emu = "azahar" -> {AzaharConf}

\* resolve_retroarch_system_dirs
RetroArchSystems ==
    LET confs == RetroArchConfs(host.override /\ os # "nt")
    IN  {RetroArchIn(r, "system") : r \in confs \cap WithConf}
        \cup (IF host.override THEN {In("override", "system")} ELSE {})
        \cup CASE os = "nt" -> {In(r, "system") : r \in RetroArchConfs(FALSE)}
               [] os = "darwin" -> {In(MacRoots("documents", "support")[1], "system")}
               [] os = "linux" -> {In("native", "system"), In("flat", "system")}

\* The directories a sync puts firmware in: target_dirs_for_system, and for
\* PCSX2 the directory that goes into its configuration file.
Targets ==
    CASE emu = "retroarch" -> RetroArchSystems
      [] emu = "dolphin" -> {In(DolphinUser, "GC")}
      [] OTHER -> {}

-----------------------------------------------------------------------------
(* What the emulator GameHub launches reads and writes (external).         *)

OwnRoot(exe) == IF IsFlatpak(exe) THEN "flat" ELSE "native"
Moved(exe) == conf[OwnRoot(exe)] = "custom"
WritesSaves(exe, user) ==
    CASE emu = "dolphin" -> In(user, "GC")
      [] emu = "azahar" -> In(OwnRoot(exe), SavePart)
      [] OTHER -> In(IF Moved(exe) THEN "custom" ELSE OwnRoot(exe), SavePart)
ReadsConf(exe, user) == IF emu = "dolphin" THEN user ELSE OwnRoot(exe)

-----------------------------------------------------------------------------
WithRoots(S) == S \cup {In(d[1], "") : d \in S}
NoShortcut == [exe |-> "missing", user |-> "none"]
Wanted == [exe |-> Resolve(byPath), user |-> IF emu = "dolphin" THEN DolphinUser ELSE "none"]

\* Azahar on a Mac may have been there before, and have left its saves.
EarlierSaves ==
    IF os = "darwin" /\ emu = "azahar" THEN {"xdg", "support", "dotConfig"} \X {"sdmc"} ELSE {}

Init ==
    /\ host \in [os : {h[1] : h \in Hosts}, emu : {h[2] : h \in Hosts},
                 mac : {"none", "intel", "silicon", "rosetta"}, override : BOOLEAN]
    /\ <<os, emu>> \in Hosts /\ (os = "darwin") = (host.mac # "none")
    /\ host.mac = "rosetta" => emu = "pcsx2"   \* for the others it is "silicon"
    /\ byPath \in BOOLEAN
    /\ at = [p \in Places |-> "absent"] /\ conf = [r \in ConfRoots |-> "absent"]
    /\ dirs \in {{}} \cup {WithRoots({d}) : d \in EarlierSaves}
    /\ shortcut = NoShortcut /\ synced = {} /\ wrote = NoPath /\ changes = 0

\* gamehub sync: an emulator that is not there and could not be installed is
\* configured all the same.
Sync ==
    /\ LET files == Configured
       IN  /\ dirs' = WithRoots(dirs \cup Targets
                          \cup (IF emu = "retroarch" THEN {} ELSE {In(r, "Config") : r \in files}))
           /\ conf' = [r \in ConfRoots |->
                          IF r \in files /\ ~HasConf(r) THEN "plain" ELSE conf[r]]
           /\ synced' = files
    /\ shortcut' = Wanted
    /\ wrote' = IF shortcut' = shortcut THEN wrote ELSE NoPath
    /\ UNCHANGED <<host, byPath, at, changes>>

\* A save from the server goes where GameHub looks for saves.
Download ==
    /\ SaveRoot # NoPath /\ dirs' = WithRoots(dirs \cup {SaveRoot})
    /\ UNCHANGED <<host, byPath, at, conf, shortcut, synced, wrote, changes>>

\* Steam starts the shortcut, and the emulator saves.
Launch ==
    /\ IsThere(shortcut.exe) /\ MayRun(shortcut.exe) /\ (os = "linux" \/ emu = "dolphin")
    /\ LET root == ReadsConf(shortcut.exe, shortcut.user)
           there == WritesSaves(shortcut.exe, shortcut.user)
       IN  /\ wrote' = there
           /\ dirs' = WithRoots(dirs \cup {there, In(root, "Config")})
           /\ conf' = [r \in ConfRoots |->
                          IF r = root /\ ~HasConf(r) THEN "plain" ELSE conf[r]]
    /\ UNCHANGED <<host, byPath, at, shortcut, synced, changes>>

Changes(more) ==
    /\ changes < MaxChanges /\ changes' = changes + 1
    /\ synced' = {} /\ wrote' = NoPath /\ UNCHANGED <<host, byPath, shortcut>> /\ more

UserInstalls ==
    \E p \in Places, b \in Builds :
        Changes(at[p] = "absent" /\ at' = [at EXCEPT ![p] = b] /\ UNCHANGED <<dirs, conf>>)
UserUninstalls ==
    \E p \in Places :
        Changes(at[p] # "absent" /\ at' = [at EXCEPT ![p] = "absent"] /\ UNCHANGED <<dirs, conf>>)
UserConfigures ==
    \E r \in ConfRoots :
        Changes(/\ conf[r] # "custom" /\ conf' = [conf EXCEPT ![r] = "custom"]
                /\ dirs' = WithRoots(dirs \cup {In(r, ""), In("custom", SavePart)}) /\ UNCHANGED at)

GameHubStep == Sync \/ Download
Next == GameHubStep \/ Launch \/ UserInstalls \/ UserUninstalls \/ UserConfigures
Spec == Init /\ [][Next]_vars

-----------------------------------------------------------------------------
(* Properties.                                                             *)

TypeOK ==
    /\ Exe \in Places \cup {"missing"} /\ at \in [Places -> Builds \cup {"absent"}]
    /\ conf \in [ConfRoots -> {"absent", "plain", "custom"}]
    /\ dirs = WithRoots(dirs) /\ NoPath \notin dirs
    /\ synced \subseteq ConfRoots \cup {"nativeConfig", "flatConfig", "exeDir", "documents",
                                        "appdata", "xdg", "support"}

\* What the check for missing emulators calls available can be launched, and
\* is an executable the policy lets run; and of a name, what can be launched
\* is available (_is_emulator_available and resolve_emulator_executable are
\* two searches of the same host).
AvailableIsLaunched ==
    /\ \A path \in BOOLEAN : Available(path) => MayRun(Resolve(path))
    /\ Resolve(FALSE) # "missing" => Available(FALSE)

\* The directories of another installation than the one that is launched.
Leftover == os = "linux" /\ ~IsFlatpak(Exe) /\ (Exists(In("flat", "")) \/ Exists(In("flatConfig", "")))

\* GameHub looks for the saves where the emulator it launches just put them,
\* for as long as the user changes nothing; but not when the emulator is
\* launched by a path of its own, when the config overrides its directories
\* on Linux or Windows, when a Flatpak that is gone has left its own, or when
\* the user moved the saves of PCSX2 or of a Flatpak RetroArch.
SavesAreSeen ==
    wrote # NoPath /\ shortcut = Wanted =>
        \/ SaveRoot = wrote
        \/ byPath \/ (host.override /\ os # "darwin") \/ Leftover
        \/ emu \in {"pcsx2", "retroarch"} /\ Moved(Exe) /\ (IsFlatpak(Exe) \/ emu = "pcsx2")

\* A sync writes the configuration its shortcut's emulator reads, once that
\* has one; but not when a Flatpak that is gone has left Azahar's directories,
\* or when PCSX2 has a configuration in the Documents as well.
SyncWritesRead ==
    Sync /\ os = "linux" /\ ~host.override /\ shortcut'.exe # "own" =>
        LET read == ReadsConf(shortcut'.exe, shortcut'.user)
        IN  \/ read \in synced'
            \/ emu # "dolphin" /\ ~HasConf(read)
            \/ emu = "azahar" /\ Leftover
            \/ emu = "pcsx2" /\ HasConf("documents")

\* Once the directory of the saves is there, nothing GameHub does itself makes
\* it look elsewhere, neither the directories nor the files it creates, unless
\* the sync also makes the shortcut start another emulator or user directory.
RootStays ==
    GameHubStep /\ Exists(SaveRoot) /\ shortcut \in {NoShortcut, shortcut'} => SaveRoot' = SaveRoot

\* GameHub and the emulator it launches agree on the directories.
PathsAgree == AvailableIsLaunched' /\ SavesAreSeen' /\ SyncWritesRead /\ RootStays
=============================================================================
