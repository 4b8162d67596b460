----------------------------- MODULE ConfigEdits -----------------------------
(***************************************************************************)
(* One configuration file of an emulator and the four parts of GameHub     *)
(* that edit it: the runtime settings of a sync (firmware/runtime_*.py),   *)
(* the assisted keys of sync and doctor (controllers/convergence.py), the  *)
(* profile of a launch (controllers/apply_*.py) and the memory cards of a  *)
(* title (shortcuts/save_session.py).  Each keeps the lines that are not   *)
(* its own, through one of three line editors: firmware/pcsx2_ini.py for   *)
(* files with sections, and two in common/config_edit.py, which pass over  *)
(* section lines.  Azahar's file has sections too, but is edited by those. *)
(*                                                                         *)
(* The editors ignore the case of names, but the parser of the assisted    *)
(* keys (controllers/apply_ini.py) does not.  A name is spelled as         *)
(* GameHub spells it (exact) or in another case.  Comments, blank lines    *)
(* and spaces are left out.                                                *)
(***************************************************************************)
EXTENDS Naturals, Sequences, SequencesExt, FiniteSetsExt

CONSTANTS
    Emulators,   \* of "pcsx2", "dolphin", "azahar" and "retroarch"
    MaxLines,    \* bound: lines of the file GameHub finds
    MaxEdits     \* bound: what the user changes afterwards

VARIABLES
    emu,     \* the emulator the file belongs to
    there,   \* whether the file exists
    lines,   \* its lines
    kept,    \* the newest backup, or NoBackup
    edits    \* the bounded counter

vars == <<emu, there, lines, kept, edits>>

Line(sort, name, exact, value) == [sort |-> sort, name |-> name, exact |-> exact, value |-> value]
Header(s, exact) == Line("section", s, exact, "")
Setting(k, exact, v) == Line("key", k, exact, v)
Outside == Header("", TRUE)
NoBackup == <<Line("none", "", TRUE, "")>>

\* The emulators whose file has sections, and those of them of which the editor
\* looks at the sections.
Sectioned == emu # "retroarch"
Sections == emu \in {"pcsx2", "dolphin"}
UserLines ==
    {Setting(k, TRUE, "user") : k \in {"a", "b"}} \cup {Setting("b", e, "want") : e \in BOOLEAN}
        \cup {Header("S", TRUE)}
        \cup IF Sectioned THEN {Header("S", FALSE), Header("T", TRUE)} ELSE {}

(* What each part sets, as a section and a key: two of them share a        *)
(* section, like [UI] of PCSX2, and two of them a key.  The memory cards   *)
(* of another title are a value of the user's.                             *)
Writers ==
    CASE emu = "pcsx2" -> {"runtime", "assisted", "profile", "card"}
      [] emu = "dolphin" -> {"runtime", "assisted", "profile"}
      [] emu = "azahar" -> {"runtime", "assisted"}
      [] emu = "retroarch" -> {"runtime", "card"}
Managed(w) ==
    CASE w = "runtime" -> <<"S", "a">>
      [] w \in {"assisted", "profile"} -> <<"S", "b">>
      [] w = "card" -> <<"T", "c">>

-----------------------------------------------------------------------------
(* Reading.                                                                *)
SectionAt(ls, i) ==
    LET headers == {j \in 1 .. i : ls[j].sort = "section"}
    IN  IF headers = {} THEN Outside ELSE ls[Max(headers)]

\* Line i sets key m, as the editors see it.
HoldsAnywhere(ls, i, m) == ls[i].sort = "key" /\ ls[i].name = m[2]
Holds(ls, i, m) ==
    /\ ls[i].sort = "key" /\ ls[i].name = m[2]
    /\ Sections => SectionAt(ls, i).name = m[1]
Holding(ls, m) == {i \in DOMAIN ls : Holds(ls, i, m)}

\* read_simple_cfg_key, read_qsettings_key: the first line counts.
First(ls, m) == IF Holding(ls, m) = {} THEN "unset" ELSE ls[Min(Holding(ls, m))].value

\* parse_ini_sections: the last line counts, and names are taken as spelled.
Parsed(ls, m) ==
    LET exact == {i \in Holding(ls, m) : ls[i].exact /\ SectionAt(ls, i).exact}
    IN  IF exact = {} THEN "unset" ELSE ls[Max(exact)].value

\* _evaluate_assisted_ini_target and _evaluate_assisted_qsettings_target
IniDrift(ls) == Parsed(ls, Managed("assisted")) # "want"
QSettingsDrift(ls) == First(ls, Managed("assisted")) # "want"
Drift(ls) == IF Sections THEN IniDrift(ls) ELSE QSettingsDrift(ls)

-----------------------------------------------------------------------------
(* Writing.                                                                *)

\* The last line of the section that begins at line i.
BlockEnd(ls, i) ==
    LET next == {j \in i + 1 .. Len(ls) : ls[j].sort = "section"}
    IN  IF next = {} THEN Len(ls) ELSE Min(next) - 1

\* Every line that sets the key is rewritten, in the spelling of GameHub.
Wanted(m) == Setting(m[2], TRUE, "want")
Rewritten(ls, m) == [i \in DOMAIN ls |-> IF Holds(ls, i, m) THEN Wanted(m) ELSE ls[i]]

\* upsert_simple_cfg_key and upsert_qsettings_key: a key that is missing goes
\* to the end of the file.
UpsertPlain(ls, m) == IF Holding(ls, m) = {} THEN Append(ls, Wanted(m)) ELSE Rewritten(ls, m)

\* upsert_ini_key: a key that is missing from the first block of its section is
\* added at the end of that block, and a missing section at the end of the file.
UpsertIni(ls, m) ==
    LET headers == {i \in DOMAIN ls : ls[i].sort = "section" /\ ls[i].name = m[1]}
        first == Min(headers)
        end == BlockEnd(ls, first)
    IN  IF headers = {} THEN ls \o <<Header(m[1], TRUE), Wanted(m)>>
        ELSE IF \E i \in first .. end : Holds(ls, i, m) THEN Rewritten(ls, m)
        ELSE InsertAt(Rewritten(ls, m), end + 1, Wanted(m))

Upsert(ls, m) == IF Sections THEN UpsertIni(ls, m) ELSE UpsertPlain(ls, m)

\* RetroArch's settings and the assisted keys are only touched when they are
\* not read as wanted, the others always.
Unneeded(w, ls) ==
    \/ w = "runtime" /\ emu = "retroarch" /\ First(ls, Managed(w)) = "want"
    \/ w = "assisted" /\ ~Drift(ls)
Result(w, ls) == IF Unneeded(w, ls) THEN ls ELSE Upsert(ls, Managed(w))

\* write_controller_config_lines_atomic, and what the other parts do like it;
\* configure_dolphin_runtime makes no backup.
BacksUpCards(w) == there /\ w = "card"
BacksUp(w) == there /\ ~(emu = "dolphin" /\ w = "runtime")

Init ==
    /\ emu \in Emulators
    /\ lines \in SeqOf(UserLines, MaxLines)
    /\ there \in BOOLEAN /\ (~there => lines = <<>>)
    /\ kept = NoBackup
    /\ edits = 0

\* A part edits the file; it is written if a line changed, or to create it.
Apply(w) ==
    /\ w \in Writers
    /\ lines' = Result(w, lines)
    /\ there' = TRUE
    /\ kept' = IF BacksUp(w) /\ lines' # lines THEN lines ELSE kept
    /\ UNCHANGED <<emu, edits>>

\* The user, or the emulator's own settings dialog, sets what is in a line.
UserSets ==
    /\ edits < MaxEdits
    /\ edits' = edits + 1
    /\ \E i \in DOMAIN lines :
        /\ lines[i].sort = "key" /\ lines[i].value # "user"
        /\ lines' = [lines EXCEPT ![i].value = "user"]
    /\ UNCHANGED <<emu, there, kept>>

Next == (\E w \in {"runtime", "assisted", "profile", "card"} : Apply(w)) \/ UserSets
Spec == Init /\ [][Next]_vars

-----------------------------------------------------------------------------
LineType == [sort : {"section", "key"}, name : {"S", "T", "a", "b", "c"},
             exact : BOOLEAN, value : {"", "user", "want"}]
TypeOK ==
    /\ lines \in Seq(LineType) /\ kept \in Seq(LineType) \cup {NoBackup}
    /\ there \in BOOLEAN /\ (lines # <<>> => there) /\ edits \in 0 .. MaxEdits

\* The lines GameHub takes for what w sets are Holding.  The emulator finds it
\* in those of them that are in the section of w; the others are strays.
Of(w, ls) ==
    {i \in Holding(ls, Managed(w)) : Sectioned => SectionAt(ls, i).name = Managed(w)[1]}
Strays(w, ls) == Holding(ls, Managed(w)) \ Of(w, ls)

\* The settings that are not w's are the same ones after the edit, each in its
\* section, and in the same order: lines only came in, at one place.
Others(w, ls) == {i \in DOMAIN ls : ls[i].sort = "key"} \ Holding(ls, Managed(w))
Shift(i, p, added) == IF i <= p THEN i ELSE i + added
OthersAreKept(w, old, new) ==
    \E p \in 0 .. Len(old), added \in 0 .. 2 :
        /\ Others(w, new) = {Shift(i, p, added) : i \in Others(w, old)}
        /\ \A i \in Others(w, old) :
            LET j == Shift(i, p, added)
            IN  new[j] = old[i] /\ SectionAt(new, j) = SectionAt(old, i)

\* Whatever the file holds, the emulator reads what a part wants once it has
\* run, unless it leaves a file alone that sets the key twice, or
\* Azahar's file did not have the key in its section: then it is written to
\* another one.  Every other setting keeps its value, its section and its place,
\* but for those of the same name in another section of Azahar's file.  The same
\* part has nothing to change after that; and the text before is the newest
\* backup, but for Dolphin's runtime settings.  The doctor then sees no drift,
\* unless the user's section is spelled in another case: the key is written
\* there, and reported for ever.
EditsSettle ==
    \A w \in Writers :
        LET new == Result(w, lines)
        IN  /\ \/ Of(w, new) # {} /\ \A i \in Of(w, new) : new[i].value = "want"
               \/ Unneeded(w, lines) /\ \E i, j \in Holding(lines, Managed(w)) : i # j
               \/ emu = "azahar" /\ Of(w, lines) = {} /\ Strays(w, new) # {}
            /\ OthersAreKept(w, lines, new)
            /\ Result(w, new) = new
            /\ Apply(w) /\ there /\ new # lines => kept' = lines \/ (emu = "dolphin" /\ w = "runtime")
            /\ w = "assisted" =>
                \/ ~Drift(new)
                \/ Sections /\ \E i \in DOMAIN lines : lines[i] = Header("S", FALSE)
=============================================================================
