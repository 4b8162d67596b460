--------------------------- MODULE EmulatorInstall ---------------------------
(***************************************************************************)
(* The installation of missing emulators at the start of a sync:           *)
(* ensure_emulators in emulators/installer.py, and install_windows.py,     *)
(* install_linux.py, install_flatpak.py and install_macos.py.  A sync may  *)
(* be killed between any two steps, and any step may fail.                 *)
(*                                                                         *)
(* The library names an emulator by its name or, for a Dolphin of the      *)
(* user's own, by the path of its executable ("path").                     *)
(***************************************************************************)
EXTENDS Naturals, Sequences, SequencesExt

CONSTANTS
    Hosts,     \* the operating systems to look at: "nt", "linux", "darwin"
    Needs,     \* the emulators a library may require, each a sorted sequence
    MaxUser    \* bound: what the user does between syncs

VARIABLES
    host,      \* operating system, configured backend, immutable system, tools there are,
               \* Flatpaks for all users
    required,  \* the emulators of the library
    tree,      \* what is where GameHub installs each emulator: its executable, or one
               \* the policy of this Mac refuses ("intel"), the rest, data of the user
    system,    \* emulators installed elsewhere that may run
    own,       \* whether the executable the library names by its path is there and may run
    pc,        \* the step of the sync
    left,      \* the missing emulators it has yet to install, in the order of required
    staged, backup,  \* bundles in the temporary directory of an installation on a Mac
    failed,    \* history: emulators this sync could not install
    before,    \* history: emulators with something in their tree before this sync
    user       \* the bounded counter

vars == <<host, required, tree, system, own, pc, left, staged, backup, failed, before, user>>
disk == <<tree, system, own>>
temp == <<staged, backup>>

Kinds == {"azahar", "dolphin", "retroarch"}
Whole == {"exe", "rest"}
os == host.os

\* The place of the first of these elements in a sequence, or 0.
FirstIn(s, those) == SelectInSeq(s, LAMBDA e : e \in those)

\* _canonical_emulator_key, _canonical_emulator_name
KindOf(e) == IF e = "path" THEN "dolphin" ELSE e
Forced(e) ==
    /\ os = "linux" /\ KindOf(e) \in {"dolphin", "azahar"}
    /\ host.backend = "flatpak" \/ (host.backend = "auto" /\ host.immutable)

\* _is_emulator_available; a Flatpak of the user is GameHub's tree on Linux, and
\* of the Flatpaks for all users only some are looked for.
Available(e) ==
    IF e = "path" THEN own
    ELSE e \in system \/ "exe" \in tree[e] \/ (e \in host.shared /\ e # "retroarch")

\* _is_flatpak_app_available
IsFlatpak(k) == "exe" \in tree[k] \/ k \in host.shared

\* Mutant: nothing is asked of the host.
MissingAll == ToSet(required)

\* _linux_missing_emulators, and the same of the other systems
Missing ==
    {e \in ToSet(required) :
        IF Forced(e) THEN ~IsFlatpak(KindOf(e)) ELSE ~Available(e)}

\* The choice of ensure_emulators; "none" installs nothing.
Installer ==
    LET auto == CASE os = "nt" -> <<"windows">>
                  [] os = "darwin" -> <<"official">>
                  [] os = "linux" -> IF host.immutable THEN <<"flatpak", "packages", "command">>
                                     ELSE <<"packages", "flatpak", "command">>
        wanted == IF host.backend = "auto" THEN auto ELSE <<host.backend>>
        first == FirstIn(wanted, host.tools \cup {"windows", "official"})
    IN  IF first = 0 THEN "none" ELSE wanted[first]

\* Emulators the installer has a mapping for.
Mapped(e) == e # "path" \/ Installer \in {"official", "flatpak", "command"}

-----------------------------------------------------------------------------
HostsOf(o) ==
    [os : {o}, immutable : IF o = "linux" THEN BOOLEAN ELSE {FALSE},
     backend : CASE o = "nt" -> {"auto"}
                 [] o = "darwin" -> {"auto", "command", "none"}
                 [] o = "linux" -> {"auto", "packages", "flatpak", "command", "none"},
     tools : SUBSET (IF o = "linux" THEN {"packages", "flatpak", "command"} ELSE {"command"}),
     shared : {{}} \cup (IF o = "linux" THEN {{"dolphin", "retroarch"}} ELSE {})]

Init ==
    /\ host \in UNION {HostsOf(o) : o \in Hosts} /\ required \in Needs
    /\ tree = [k \in Kinds |-> {}] /\ system = {} /\ own = FALSE
    /\ pc = "idle" /\ left = {} /\ staged = {} /\ backup = {}
    /\ failed = {} /\ before = {} /\ user = 0

Resting == pc \in {"idle", "done", "raised"}

Start ==
    /\ Resting
    /\ left' = (IF Installer = "none" THEN {} ELSE Missing)
    /\ pc' = "next" /\ staged' = {} /\ backup' = {}
    /\ failed' = (IF Installer = "none" THEN Missing ELSE {})
    /\ before' = {k \in Kinds : tree[k] # {}}
    /\ UNCHANGED <<host, required, disk, user>>

e0 == required[FirstIn(required, left)]
k0 == KindOf(e0)

\* Installations that work in a temporary directory.
Temporary == Installer = "official" \/ (os = "nt" /\ e0 = "dolphin")

\* Mutant: the first emulator that cannot be installed ends the installation.
NextAfterStop(ok) ==
    /\ pc' = "next" /\ left' = (IF ok THEN left \ {e0} ELSE {})
    /\ failed' = (IF ok THEN failed ELSE failed \cup {e0})

\* The loop goes on with the next emulator, whether or not this one is installed;
\* but a temporary directory that cannot be removed ends the sync.
NextAfter(ok) ==
    /\ pc' \in {"next"} \cup (IF Temporary THEN {"raised"} ELSE {}) /\ left' = left \ {e0}
    /\ failed' = (IF ok THEN failed ELSE failed \cup {e0})

\* There is no mapping, the download or the command fails, or the archive has
\* no bundle for this machine.
Fails ==
    /\ pc = "next" /\ left # {} /\ NextAfter(FALSE)
    /\ UNCHANGED <<host, required, disk, temp, before, user>>

\* What ends the sync: a command that cannot be started, a download that breaks
\* off in its body, a temporary directory that cannot be made.
CommandRaises ==
    /\ pc = "next" /\ left # {} /\ Mapped(e0) /\ pc' = "raised"
    /\ UNCHANGED <<host, required, disk, left, temp, failed, before, user>>

\* A package, a Flatpak, the configured command or an installer of Windows.
Package ==
    /\ pc = "next" /\ left # {} /\ Mapped(e0)
    /\ Installer # "official" /\ ~(os = "nt" /\ e0 = "dolphin")
    /\ IF Installer = "flatpak"
       THEN tree' = [tree EXCEPT ![k0] = Whole] /\ UNCHANGED system
       ELSE system' = system \cup {k0} /\ UNCHANGED tree
    /\ NextAfter(TRUE) /\ UNCHANGED <<host, required, own, temp, before, user>>

-----------------------------------------------------------------------------
(* _install_dolphin_from_official_release_archive: the archive is unpacked *)
(* elsewhere, what is installed is removed, and the archive is copied.     *)

Unpack ==
    /\ pc = "next" /\ left # {} /\ os = "nt" /\ e0 = "dolphin" /\ pc' = "removing"
    /\ UNCHANGED <<host, required, disk, left, temp, failed, before, user>>

RemoveOld ==
    /\ pc = "removing"
    /\ IF tree.dolphin = {} THEN pc' = "copying" /\ UNCHANGED tree
       ELSE \E x \in tree.dolphin : tree' = [tree EXCEPT !.dolphin = @ \ {x}] /\ UNCHANGED pc
    /\ UNCHANGED <<host, required, system, own, left, temp, failed, before, user>>

CopyNew ==
    /\ pc = "copying"
    /\ IF tree.dolphin = Whole THEN NextAfter(TRUE) /\ UNCHANGED tree
       ELSE /\ \E x \in Whole \ tree.dolphin : tree' = [tree EXCEPT !.dolphin = @ \cup {x}]
            /\ UNCHANGED <<pc, left, failed>>
    /\ UNCHANGED <<host, required, system, own, temp, before, user>>

RemoveOrCopyFails ==
    /\ pc \in {"removing", "copying"} /\ NextAfter(FALSE)
    /\ UNCHANGED <<host, required, disk, temp, before, user>>

-----------------------------------------------------------------------------
(* _install_macos_official_asset, _install_bundle_into_applications: the   *)
(* bundle is copied into a temporary directory beside the installed one,   *)
(* which is moved there before the copy takes its place.                   *)

\* Mutant: the bundle is copied to where it belongs.
StageInPlace ==
    /\ pc = "next" /\ left # {} /\ Installer = "official" /\ pc' = "staged"
    /\ staged' = Whole /\ tree' = [tree EXCEPT ![k0] = @ \cup {"exe"}]
    /\ UNCHANGED <<host, required, system, own, left, backup, failed, before, user>>

Stage ==
    /\ pc = "next" /\ left # {} /\ Installer = "official" /\ pc' = "staged"
    /\ staged' = Whole /\ UNCHANGED <<host, required, disk, left, backup, failed, before, user>>

\* Mutant: what is installed is copied aside, and not moved.
CopyAside ==
    /\ pc = "staged" /\ pc' = "aside" /\ backup' = tree[k0]
    /\ UNCHANGED <<host, required, disk, left, staged, failed, before, user>>

SetAside ==
    /\ pc = "staged" /\ pc' = "aside"
    /\ backup' = tree[k0] /\ tree' = [tree EXCEPT ![k0] = {}]
    /\ UNCHANGED <<host, required, system, own, left, staged, failed, before, user>>

SetAsideFails ==
    /\ pc = "staged" /\ staged' = {} /\ NextAfter(FALSE)
    /\ UNCHANGED <<host, required, disk, backup, before, user>>

PutInPlace ==
    /\ pc = "aside" /\ tree' = [tree EXCEPT ![k0] = staged]
    /\ staged' = {} /\ backup' = {} /\ \E cleaned \in BOOLEAN : NextAfter(cleaned)
    /\ UNCHANGED <<host, required, system, own, before, user>>

\* Mutant: a bundle that cannot be put in place is given up.
GiveUp ==
    /\ pc = "aside" /\ staged' = {} /\ backup' = {} /\ NextAfter(FALSE)
    /\ UNCHANGED <<host, required, disk, before, user>>

\* It cannot be put in place, and the old one goes back.
Restore ==
    /\ pc = "aside" /\ tree' = [tree EXCEPT ![k0] = backup]
    /\ staged' = {} /\ backup' = {} /\ NextAfter(FALSE)
    /\ UNCHANGED <<host, required, system, own, before, user>>

\* Neither can be put in place: the temporary directory goes with the old one.
RestoreFails ==
    /\ pc = "aside" /\ staged' = {} /\ backup' = {} /\ NextAfter(FALSE)
    /\ before' = before \ {k0}
    /\ UNCHANGED <<host, required, disk, user>>

-----------------------------------------------------------------------------
\* _validate_forced_linux_flatpak_emulators, after the Flatpak installation or
\* when nothing was missing.
Unavailable == \E e \in ToSet(required) : Forced(e) /\ ~IsFlatpak(KindOf(e))
Validates == "flatpak" \in {host.backend, Installer}

\* _validate_windows_dolphin_runtime: a Dolphin of winget may be one of an old
\* version, which ends the sync.
MayBeLegacy ==
    /\ os = "nt" /\ "dolphin" \in ToSet(required) /\ "dolphin" \in system
    /\ "exe" \notin tree.dolphin

\* Mutant: what is missing after the installation is only reported.
FinishAnyway ==
    /\ pc = "next" /\ left = {} /\ pc' = "done"
    /\ UNCHANGED <<host, required, disk, left, temp, failed, before, user>>

Finish ==
    /\ pc = "next" /\ left = {}
    /\ \/ pc' = "done" /\ ~(Validates /\ Unavailable)
       \/ pc' = "raised" /\ (MayBeLegacy \/ (Validates /\ Unavailable))
    /\ UNCHANGED <<host, required, disk, left, temp, failed, before, user>>

\* The sync is killed; its temporary directory stays, and nothing looks there.
Kill ==
    /\ ~Resting /\ pc' = "idle" /\ left' = {} /\ failed' = {} /\ staged' = {} /\ backup' = {}
    /\ before' = (IF pc = "aside" THEN before \ {k0} ELSE before)
    /\ UNCHANGED <<host, required, disk, user>>

\* The user, between syncs: an executable goes or comes, a bundle comes that may
\* not run on this Mac, Dolphin saves in its directory (external).
Acts(more) ==
    /\ Resting /\ user < MaxUser /\ user' = user + 1 /\ pc' = "idle" /\ failed' = {} /\ before' = {}
    /\ UNCHANGED <<host, required, left, temp>> /\ more
UserActs ==
    \/ \E k \in Kinds : Acts(/\ "exe" \in tree[k] /\ UNCHANGED <<system, own>>
                             /\ tree' = [tree EXCEPT ![k] = @ \ {"exe"}])
    \/ \E k \in Kinds : Acts(/\ system' = (system \cup {k}) \ (system \cap {k}) /\ UNCHANGED <<tree, own>>)
    \/ Acts(own' = ~own /\ UNCHANGED <<tree, system>>)
    \/ \E k \in Kinds : Acts(/\ os = "darwin" /\ "intel" \notin tree[k] /\ UNCHANGED <<system, own>>
                             /\ tree' = [tree EXCEPT ![k] = {"intel", "rest"}])
    \/ Acts(/\ os = "nt" /\ "exe" \in tree.dolphin /\ UNCHANGED <<system, own>>
            /\ tree' = [tree EXCEPT !.dolphin = @ \cup {"user"}])

Next ==
    \/ Start \/ Fails \/ CommandRaises \/ Package
    \/ Unpack \/ RemoveOld \/ CopyNew \/ RemoveOrCopyFails
    \/ Stage \/ SetAside \/ SetAsideFails \/ PutInPlace \/ Restore \/ RestoreFails
    \/ Finish \/ Kill \/ UserActs
Spec == Init /\ [][Next]_vars

-----------------------------------------------------------------------------
(* Properties.                                                             *)

TypeOK ==
    /\ \A k \in Kinds : tree[k] \subseteq Whole \cup {"user", "intel"}
    /\ system \subseteq Kinds /\ failed \subseteq ToSet(required)
    /\ left \subseteq ToSet(required) /\ before \subseteq Kinds
    /\ staged # {} => pc \in {"staged", "aside"}
    /\ backup # {} => pc = "aside" /\ tree[k0] = {}

\* Wherever the sync is killed and whatever fails, an installation that lacks
\* a part is not taken for an emulator; but Dolphin on Windows is.
HalfIsSeen ==
    \A k \in Kinds : "exe" \in tree[k] => "rest" \in tree[k] \/ (os = "nt" /\ k = "dolphin")

\* When the emulators are ensured, one that is still missing is one that could
\* not be installed itself, or one the library names by a path; a Dolphin that
\* is named both ways is one emulator here.
OthersAreInstalled ==
    pc = "done" => \A e \in Missing :
        \/ e = "path" \/ Forced(e)
        \/ \E f \in failed : KindOf(f) = KindOf(e)

\* When the emulators are ensured, Dolphin and Azahar are Flatpaks wherever
\* they have to be; but not where the tool itself is missing.
ForcedIsFlatpak ==
    pc = "done" => \A e \in ToSet(required) :
        Forced(e) => IsFlatpak(KindOf(e)) \/ "flatpak" \notin host.tools

\* The data Dolphin keeps in its own installation goes only with an
\* installation that has no executable, for a Dolphin the host has nowhere.
DataStays ==
    \A k \in Kinds : "user" \in tree[k] /\ "user" \notin tree'[k] => ~Available(k)

\* An installation that fails or is killed on a Mac leaves a bundle where one
\* was; but not one killed between the two moves, or whose move back fails too.
BundleIsKept ==
    os = "darwin" /\ (pc = "next" \/ Resting) => \A k \in before : tree[k] # {}

\* However an installation ends, the other emulators are installed, and with the
\* exceptions each part names nothing half-done passes for an emulator and nothing
\* that was there is lost: the copy of Dolphin on Windows that stops half-way, the
\* bundle between its two moves, the data in a Dolphin without an executable.
InstallIsSafe ==
    /\ HalfIsSeen' /\ BundleIsKept' /\ OthersAreInstalled' /\ ForcedIsFlatpak'
    /\ DataStays
=============================================================================
