------------------------------ MODULE MCDevice ------------------------------
(***************************************************************************)
(* The parts of a client on a small instance: two devices, two titles, two *)
(* names of a save, every emulator on every system.                        *)
(***************************************************************************)
EXTENDS Device

MCCombinations ==
    {"linux", "nt", "darwin"} \X {"retroarch", "pcsx2", "dolphin", "azahar"}
MCNeeds == {<<"azahar", "dolphin", "retroarch">>, <<"path", "dolphin">>}
=============================================================================
