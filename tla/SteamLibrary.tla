---------------------------- MODULE SteamLibrary ----------------------------
(***************************************************************************)
(* The Steam stage of gamehub sync (sync/steam_stage.py and steam/): Steam *)
(* is closed, its configuration files are backed up, the shortcuts, the    *)
(* controller templates, the two collection stores, the per-application    *)
(* overrides and the grid artwork are brought in line with the index, and  *)
(* Steam is started again.  Steam itself is external: it loads the files   *)
(* when it starts and writes one back from memory when it exits.  The user *)
(* edits the library, starts Steam and uses it at any time, and a run may  *)
(* be killed between any two of its steps.                                 *)
(*                                                                         *)
(* An application id is <<exe, title>>: the checksum of the executable and *)
(* the name, taken when the shortcut was first built.                      *)
(***************************************************************************)
EXTENDS Naturals, FiniteSets, Sequences, SequencesExt

CONSTANTS
    Titles,          \* the titles the library may hold
    SystemOf,        \* the system of each title
    TemplateSystems, \* the systems with a controller template seed
    Exes,            \* executables a title may be launched with, over time
    Launchers,       \* how many ways to start Steam are tried
    MaxRuns,         \* bound: runs of the stage
    MaxEdits         \* bound: changes of the library, and uses of Steam

Systems == {SystemOf[t] : t \in Titles}
Absent == "absent"
None == "none"

ASSUME SteamAssumption ==
    /\ IsFiniteSet(Titles) /\ None \notin Titles /\ Absent \notin Exes
    /\ Launchers \in Nat /\ MaxRuns \in Nat /\ MaxEdits \in Nat

VARIABLES
    host,        \* "deck" or "darwin": the two platforms that differ most
    index,       \* the library: the executable of each title, or "absent"
    shortcuts,   \* shortcuts.vdf: a sequence of entries
    local,       \* localconfig.vdf
    cloud,       \* the cloud storage namespace file
    grid,        \* artwork in the grid directory: <<id, form of the name>>
    registry,    \* titles with a token in the payload registry (macOS)
    template,    \* controller template of each title, and whether it is selected
    backup,      \* the configuration files as last backed up
    steam,       \* "off", "starting", "running" or "closing"
    mem,         \* what a running Steam holds of the two files it rewrites
    run,         \* the control state of the stage
    used         \* runs and edits so far, the two bounded counters

config == <<shortcuts, local, cloud>>
files == <<shortcuts, local, cloud, grid, registry, template>>
vars == <<host, index, files, backup, steam, mem, run, used>>

(* A shortcut without GAMEHUB tags is the user's, here the n-th one.       *)
UserEntry(n) == [title |-> None, id |-> <<None, n>>]
IsManaged(e) == e.title # None
Managed(sc) == {e \in Range(sc) : IsManaged(e)}
Desired == {t \in Titles : index[t] # Absent}

-----------------------------------------------------------------------------
(* The files, as the run rewrites them.                                    *)

BuildEntryNewId(t, old) == [title |-> t, id |-> <<index[t], t>>]
(* _build_shortcut_entry: the id Steam knows an entry by is kept.          *)
BuildEntry(t, old) ==
    IF \E e \in old : e.title = t
    THEN CHOOSE e \in old : e.title = t
    ELSE [title |-> t, id |-> <<index[t], t>>]

(* The entries that are not managed, in their order.                       *)
Foreign(sc) ==
    LET at == {i \in DOMAIN sc : ~IsManaged(sc[i])}
    IN  [n \in 1 .. Cardinality(at) |->
            sc[CHOOSE i \in at : Cardinality({j \in at : j <= i}) = n]]

(* upsert_shortcuts: the managed entries follow.                           *)
Upsert(sc) == Foreign(sc) \o SetToSeq({BuildEntry(t, Managed(sc)) : t \in Desired})

IdsOfSystem(sc, s) == {e.id : e \in {m \in Managed(sc) : SystemOf[m.title] = s}}
AllIds(sc) == {e.id : e \in Managed(sc)}

(* update_collections: the managed entries become those of the systems in  *)
(* use, the user's stay; a file that does not parse is taken for empty.    *)
EmptyLocal == [ok |-> TRUE, user |-> FALSE, apps |-> FALSE, over |-> {},
               coll |-> [s \in Systems |-> {}]]
LoadLocal(l) == IF l.ok THEN l ELSE EmptyLocal
Collections(sc) == [s \in Systems |-> IdsOfSystem(sc, s)]
UpdateCollections(l, sc) ==
    IF l.ok /\ l.coll = Collections(sc)
    THEN l
    ELSE [LoadLocal(l) EXCEPT !.coll = Collections(sc)]

(* repair_managed_steam_input_overrides; it needs a parsed apps section.   *)
RepairOverrides(l, ids) == IF l.ok /\ l.apps THEN [l EXCEPT !.over = @ \cup ids] ELSE l

(* update_cloud_collections: an entry that differs is rewritten under a    *)
(* version above every version on file, one that is no longer wanted       *)
(* becomes a tombstone, and nothing is written when nothing differs.       *)
NoEntries == [s \in Systems |-> [kind |-> None, ids |-> {}, version |-> 0]]
LoadCloud(c) == IF c.ok THEN c ELSE [ok |-> TRUE, user |-> FALSE, entries |-> NoEntries]
MaxVersionLive(entries) ==
    CHOOSE n \in {0} \cup {entries[s].version : s \in Systems} :
        \A s \in Systems : entries[s].kind = "live" => entries[s].version <= n
MaxVersion(entries) ==
    CHOOSE n \in {0} \cup {entries[s].version : s \in Systems} :
        \A s \in Systems : entries[s].version <= n
IsStaleNeverDeleted(e, ids) == ids # {} /\ (e.kind # "live" \/ e.ids # ids)
IsStaleTombstone(e, ids) ==
    IF ids # {} THEN e.kind # "live" \/ e.ids # ids ELSE e.kind # None
IsStale(e, ids) ==
    IF ids # {} THEN e.kind # "live" \/ e.ids # ids ELSE e.kind = "live"
UpdateCloud(c, sc) ==
    LET old    == LoadCloud(c).entries
        stale  == {s \in Systems : IsStale(old[s], IdsOfSystem(sc, s))}
        order  == SetToSeq({s \in stale : IdsOfSystem(sc, s) # {}})
                    \o SetToSeq({s \in stale : IdsOfSystem(sc, s) = {}})
        number(s) == MaxVersion(old) + CHOOSE i \in DOMAIN order : order[i] = s
        fresh(s) == [kind |-> IF IdsOfSystem(sc, s) # {} THEN "live" ELSE "deleted",
                     ids |-> IdsOfSystem(sc, s), version |-> number(s)]
    IN  IF stale = {} THEN c
        ELSE [LoadCloud(c) EXCEPT
                !.entries = [s \in Systems |-> IF s \in stale THEN fresh(s) ELSE old[s]]]

(* copy_grid_art and prune_grid_noncanonical_variants: artwork goes under  *)
(* the unsigned id, what lies under a signed alias is removed.             *)
CopyArt(g, ids) == g \cup (ids \X {"unsigned"})
PruneArt(g, ids) == g \ (ids \X {"signed"})

(* apply_deck_steam_input_templates: a template that is there is left to   *)
(* the user unless profiles are reseeded; the configset selects it in any  *)
(* case.                                                                   *)
Templated == {t \in Desired : SystemOf[t] \in TemplateSystems}
SeedTemplates(tm, reseed) ==
    [t \in Titles |->
        IF t \notin Templated THEN tm[t]
        ELSE [file |-> IF reseed \/ tm[t].file = None THEN "seed" ELSE tm[t].file,
              chosen |-> TRUE]]

(* The applications whose overrides are repaired.                          *)
TemplateManaged(sc) ==
    LET ids == UNION {IdsOfSystem(sc, s) : s \in TemplateSystems \cap Systems}
    IN  IF ids = {} THEN AllIds(sc) ELSE ids

-----------------------------------------------------------------------------
NoMem == [shortcuts |-> <<>>, local |-> EmptyLocal]
Idle == [pc |-> "idle", launcher |-> 0, touched |-> FALSE, outcome |-> None]
Running == run.pc \notin {"idle", "done"}
Free == run.pc = "idle" \/ run.pc = "done"

(* A first run, or one on an emptied library: some artwork may lie under a *)
(* signed name, deleted collections may be on file, and either text file   *)
(* may be damaged.                                                         *)
EarlierEntries == [s \in Systems |-> [kind |-> "deleted", ids |-> {}, version |-> 2]]
Init ==
    /\ host \in {"deck", "darwin"}
    /\ \E e \in Exes : index \in [Titles -> {e, Absent}]
    /\ shortcuts = <<UserEntry(0)>>
    /\ local \in {[EmptyLocal EXCEPT !.ok = o, !.user = TRUE, !.apps = TRUE] : o \in BOOLEAN}
    /\ cloud \in {[ok |-> TRUE, user |-> TRUE, entries |-> NoEntries],
                 [ok |-> TRUE, user |-> TRUE, entries |-> EarlierEntries],
                 [ok |-> FALSE, user |-> TRUE, entries |-> NoEntries]}
    /\ grid = (Exes \X Titles) \X {"signed"}
    /\ registry = {}
    /\ template = [t \in Titles |-> [file |-> None, chosen |-> FALSE]]
    /\ backup = <<shortcuts, local, cloud>>
    /\ steam \in {"off", "starting"}
    /\ mem = NoMem
    /\ run = Idle
    /\ used = [runs |-> 0, edits |-> 0]

-----------------------------------------------------------------------------
(* Steam and its user.                                                     *)
Edit == used.edits < MaxEdits /\ used' = [used EXCEPT !.edits = @ + 1]
Touch == run' = IF Running THEN [run EXCEPT !.touched = TRUE] ELSE run

EditLibrary ==
    /\ Free /\ Edit
    /\ index' \in [Titles -> Exes \cup {Absent}] /\ index' # index
    /\ UNCHANGED <<host, files, backup, steam, mem, run>>

EditTemplate(t) ==
    /\ Free /\ Edit
    /\ template[t].file = "seed"
    /\ \E c \in BOOLEAN : template' = [template EXCEPT ![t] = [file |-> "user", chosen |-> c]]
    /\ UNCHANGED <<host, index, config, grid, registry, backup, steam, mem, run>>

StartSteam ==
    /\ steam = "off" /\ Edit /\ Touch
    /\ steam' = "starting"
    /\ UNCHANGED <<host, index, files, backup, mem>>

SteamIsUp ==
    /\ steam = "starting"
    /\ steam' = "running"
    /\ mem' = [shortcuts |-> shortcuts, local |-> [LoadLocal(local) EXCEPT !.apps = TRUE]]
    /\ UNCHANGED <<host, index, files, backup, run, used>>

(* The user makes a collection, which stays in memory for now ...          *)
UseSteam ==
    /\ steam = "running" /\ ~mem.local.user /\ Edit
    /\ mem' = [mem EXCEPT !.local.user = TRUE]
    /\ UNCHANGED <<host, index, files, backup, steam, run>>

(* ... or adds a game, for which Steam rewrites shortcuts.vdf.             *)
AddGame ==
    /\ steam = "running" /\ Edit /\ Touch
    /\ shortcuts' = Append(mem.shortcuts, UserEntry(used.edits + 1))
    /\ mem' = [mem EXCEPT !.shortcuts = shortcuts']
    /\ UNCHANGED <<host, index, local, cloud, grid, registry, template, backup, steam>>

QuitSteam ==
    /\ steam = "running" /\ Free /\ Edit
    /\ steam' = "closing"
    /\ UNCHANGED <<host, index, files, backup, mem, run>>

SteamExits ==
    /\ steam = "closing"
    /\ steam' = "off"
    /\ local' = mem.local
    /\ mem' = NoMem
    /\ UNCHANGED <<host, index, shortcuts, cloud, grid, registry, template, backup, run, used>>

-----------------------------------------------------------------------------
(* apply_steam_updates, one action per file it replaces.  The options of   *)
(* the run are chosen where they are used: require_steam_closed in         *)
(* StillRunning, reseed_profiles in ApplyTemplates, and                    *)
(* reopen_steam_after_update in WriteArt.                                  *)
Goto(pc) == run' = [run EXCEPT !.pc = pc]
End(outcome) == run' = [run EXCEPT !.pc = "done", !.outcome = outcome, !.launcher = 0]

Begin ==
    /\ Free /\ used.runs < MaxRuns
    /\ used' = [used EXCEPT !.runs = @ + 1]
    /\ run' = [Idle EXCEPT !.pc = IF steam = "off" THEN "backup" ELSE "terminate"]
    /\ UNCHANGED <<host, index, files, backup, steam, mem>>

TerminateByForce ==
    /\ run.pc = "terminate" /\ Goto("kill")
    /\ UNCHANGED <<host, index, files, backup, steam, mem, used>>

(* close_steam_best_effort: Steam is asked to quit ...                     *)
Terminate ==
    /\ run.pc = "terminate"
    /\ steam' \in {steam, IF steam = "running" THEN "closing" ELSE steam}
    /\ Goto(IF host = "darwin" THEN "wait" ELSE "kill")
    /\ UNCHANGED <<host, index, files, backup, mem, used>>

(* ... and, but on macOS, killed at once, without a wait in between.       *)
Kill ==
    /\ run.pc = "kill"
    /\ \/ steam' = "off" /\ mem' = NoMem
       \/ UNCHANGED <<steam, mem>>
    /\ Goto("wait")
    /\ UNCHANGED <<host, index, files, backup, used>>

SeenClosedNoBackup ==
    /\ run.pc = "wait" /\ steam = "off"
    /\ Goto(IF host = "darwin" THEN "registry" ELSE "shortcuts")
    /\ UNCHANGED <<host, index, files, backup, steam, mem, used>>
(* wait_for_steam_exit: it left in time, or it did not.                    *)
SeenClosed ==
    /\ run.pc = "wait" /\ steam = "off"
    /\ Goto("backup")
    /\ UNCHANGED <<host, index, files, backup, steam, mem, used>>

StillRunningWaits ==
    /\ run.pc = "wait" /\ steam = "closing"
    /\ End("skipped")
    /\ UNCHANGED <<host, index, files, backup, steam, mem, used>>
StillRunning ==
    /\ run.pc = "wait" /\ steam # "off"
    /\ \E require \in BOOLEAN : End(IF require THEN "error" ELSE "skipped")
    /\ UNCHANGED <<host, index, files, backup, steam, mem, used>>

BackupConfigs ==
    /\ run.pc = "backup"
    /\ backup' = config
    /\ Goto(IF host = "darwin" THEN "registry" ELSE "shortcuts")
    /\ UNCHANGED <<host, index, files, steam, mem, used>>

SaveRegistry ==
    /\ run.pc = "registry"
    /\ registry' = Desired
    /\ Goto("shortcuts")
    /\ UNCHANGED <<host, index, config, grid, template, backup, steam, mem, used>>

WriteShortcuts ==
    /\ run.pc = "shortcuts"
    /\ shortcuts' = Upsert(shortcuts)
    /\ Goto(IF host = "deck" THEN "templates" ELSE "collections")
    /\ UNCHANGED <<host, index, local, cloud, grid, registry, template, backup, steam, mem, used>>

(* The templates may fail for want of a writable root or a readable        *)
(* configset; the error ends the run with Steam closed.                    *)
ApplyTemplates ==
    /\ run.pc = "templates"
    /\ \E reseed \in BOOLEAN : template' = SeedTemplates(template, reseed)
    /\ Goto("collections")
    /\ UNCHANGED <<host, index, config, grid, registry, backup, steam, mem, used>>

TemplatesFail ==
    /\ run.pc = "templates" /\ Templated # {}
    /\ End("error")
    /\ UNCHANGED <<host, index, files, backup, steam, mem, used>>

WriteCollections ==
    /\ run.pc = "collections"
    /\ local' = UpdateCollections(local, shortcuts)
    /\ Goto("cloud")
    /\ UNCHANGED <<host, index, shortcuts, cloud, grid, registry, template, backup, steam, mem, used>>

WriteCloud ==
    /\ run.pc = "cloud"
    /\ cloud' = UpdateCloud(cloud, shortcuts)
    /\ Goto(IF host = "deck" THEN "overrides" ELSE "art")
    /\ UNCHANGED <<host, index, shortcuts, local, grid, registry, template, backup, steam, mem, used>>

WriteOverrides ==
    /\ run.pc = "overrides"
    /\ local' = RepairOverrides(local, TemplateManaged(shortcuts))
    /\ Goto("art")
    /\ UNCHANGED <<host, index, shortcuts, cloud, grid, registry, template, backup, steam, mem, used>>

WriteArt ==
    /\ run.pc = "art"
    /\ grid' = PruneArt(CopyArt(grid, AllIds(shortcuts)), AllIds(shortcuts))
    /\ \/ run' = [run EXCEPT !.pc = "reopen", !.launcher = 1]
       \/ End("applied")
    /\ UNCHANGED <<host, index, config, registry, template, backup, steam, mem, used>>

NoLauncherLeftLate == run.launcher > Launchers + 1
NoLauncherLeft == run.launcher > Launchers
SpawnedIgnored == steam
Spawned == IF steam = "off" THEN "starting" ELSE steam

(* reopen_steam: each launcher is started and given some seconds.          *)
Launch ==
    /\ run.pc = "reopen"
    /\ IF NoLauncherLeft
       THEN End("applied") /\ UNCHANGED steam
       ELSE \/ run' = [run EXCEPT !.launcher = @ + 1] /\ UNCHANGED steam
            \/ /\ run' = [run EXCEPT !.pc = "started"]
               /\ steam' = Spawned
    /\ UNCHANGED <<host, index, files, backup, mem, used>>

SeenStarted ==
    /\ run.pc = "started" /\ steam \in {"starting", "running"}
    /\ End("applied")
    /\ UNCHANGED <<host, index, files, backup, steam, mem, used>>

NotStarted ==
    /\ run.pc = "started" /\ steam # "running"
    /\ run' = [run EXCEPT !.pc = "reopen", !.launcher = @ + 1]
    /\ UNCHANGED <<host, index, files, backup, steam, mem, used>>

Crash ==
    /\ Running
    /\ run' = Idle
    /\ UNCHANGED <<host, index, files, backup, steam, mem, used>>

RunStep ==
    \/ Terminate \/ Kill \/ SeenClosed \/ StillRunning \/ BackupConfigs \/ SaveRegistry
    \/ WriteShortcuts \/ ApplyTemplates \/ TemplatesFail \/ WriteCollections \/ WriteCloud
    \/ WriteOverrides \/ WriteArt \/ Launch \/ SeenStarted \/ NotStarted
SteamStep == SteamIsUp \/ SteamExits
UserStep == EditLibrary \/ (\E t \in Titles : EditTemplate(t)) \/ StartSteam \/ UseSteam
              \/ AddGame \/ QuitSteam
Next == Begin \/ RunStep \/ SteamStep \/ UserStep \/ Crash

(* The stage is one thread that waits with timeouts; Steam, once started   *)
(* or told to quit, gets there.                                            *)
Fairness == WF_vars(RunStep) /\ WF_vars(SteamStep)
Spec == Init /\ [][Next]_vars /\ Fairness

-----------------------------------------------------------------------------
(* All variables are of their types.                                       *)
Ids == Exes \X Titles
Entries == {UserEntry(n) : n \in 0 .. MaxEdits} \cup [title : Titles, id : Ids]
LocalFiles == [ok : BOOLEAN, user : BOOLEAN, apps : BOOLEAN, over : SUBSET Ids,
               coll : [Systems -> SUBSET Ids]]
CloudEntries == [kind : {None, "live", "deleted"}, ids : SUBSET Ids, version : Nat]
CloudFiles == [ok : BOOLEAN, user : BOOLEAN, entries : [Systems -> CloudEntries]]
Pcs == {"idle", "terminate", "kill", "wait", "backup", "registry", "shortcuts", "templates",
        "collections", "cloud", "overrides", "art", "reopen", "started", "done"}
Runs == [pc : Pcs, launcher : 0 .. Launchers + 1, touched : BOOLEAN,
         outcome : {None, "applied", "skipped", "error"}]
TypeOK ==
    /\ host \in {"deck", "darwin"}
    /\ index \in [Titles -> Exes \cup {Absent}]
    /\ shortcuts \in Seq(Entries) /\ local \in LocalFiles /\ cloud \in CloudFiles
    /\ grid \subseteq Ids \X {"signed", "unsigned"}
    /\ registry \subseteq Titles
    /\ template \in [Titles -> [file : {None, "seed", "user"}, chosen : BOOLEAN]]
    /\ backup \in Seq(Entries) \X LocalFiles \X CloudFiles
    /\ steam \in {"off", "starting", "running", "closing"}
    /\ mem \in [shortcuts : Seq(Entries), local : LocalFiles]
    /\ run \in Runs
    /\ used \in [runs : 0 .. MaxRuns, edits : 0 .. MaxEdits]

(* The parts agree: the managed shortcuts are the titles of the index, and *)
(* collections, overrides, payloads and artwork are theirs.                *)
LiveIds(entries) == [s \in Systems |-> IF entries[s].kind = "live" THEN entries[s].ids ELSE {}]
Agrees ==
    LET ids == AllIds(shortcuts) IN
    /\ {e.title : e \in Managed(shortcuts)} = Desired
    /\ local.ok /\ local.coll = Collections(shortcuts)
    /\ cloud.ok \/ ids = {}
    /\ LiveIds(cloud.entries) = Collections(shortcuts)
    /\ host = "deck" /\ local.apps => TemplateManaged(shortcuts) \subseteq local.over
    /\ host = "deck" => \A t \in Templated : template[t].chosen /\ template[t].file # None
    /\ host = "darwin" => Desired = registry
    /\ grid \cap (ids \X {"signed", "unsigned"}) = ids \X {"unsigned"}

(* A run that was applied, and during which nobody used Steam, leaves the  *)
(* parts in agreement, whatever runs were killed before it; and a run on   *)
(* parts that agree writes nothing new.  What it writes prevails: entries  *)
(* rewritten in a readable cloud file get distinct versions above all      *)
(* those on file, so that Steam's merge prefers them.                      *)
RunWrites == run.pc \in {"shortcuts", "collections", "cloud", "overrides"} /\ run'.pc # run.pc
                /\ Running'
VersionsGrow ==
    LET new == {s \in Systems : cloud'.entries[s] # cloud.entries[s]} IN
    /\ \A s \in new, r \in Systems : cloud'.entries[s].version > cloud.entries[r].version
    /\ \A s, r \in new : s # r => cloud'.entries[s].version # cloud'.entries[r].version
AppliedRunAgrees ==
    [][/\ run.pc # "done" /\ run'.outcome = "applied" /\ ~run'.touched => Agrees'
       /\ RunWrites /\ Agrees => UNCHANGED <<local, cloud>>
       /\ cloud.ok /\ cloud' # cloud => VersionsGrow]_vars

(* What the run replaces was the user's only where it could not be read,   *)
(* and is what it backed up first; the id of a shortcut that stays does    *)
(* not change.  On macOS, where Steam is never killed, what it held in     *)
(* memory is on file once it is gone.                                      *)
KeepsUserParts ==
    /\ Foreign(shortcuts') = Foreign(shortcuts)
    /\ local.ok /\ local.user => local'.user
    /\ cloud.ok /\ cloud.user => cloud'.user
    /\ \A e \in Managed(shortcuts), f \in Managed(shortcuts') : e.title = f.title => e.id = f.id
BacksUpFirst ==
    /\ shortcuts' # shortcuts => backup[1] = shortcuts
    /\ run.pc = "collections" /\ local' # local => backup[2] = local
    /\ cloud' # cloud => backup[3] = cloud
UserKept ==
    [][/\ RunWrites => KeepsUserParts /\ (run.touched \/ BacksUpFirst)
       /\ host = "darwin" /\ steam # "off" /\ steam' = "off" => local' = mem.local]_vars

(* Every run ends, however slow Steam is to leave or to start, and a Steam *)
(* that a launcher started comes up, unless another run ends it.           *)
SteamReopens ==
    /\ Running ~> ~Running
    /\ run.pc = "started" ~> steam = "running" \/ run.pc = "terminate"
=============================================================================
