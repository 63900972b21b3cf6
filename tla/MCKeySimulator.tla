--------------------------- MODULE MCKeySimulator ---------------------------
(* Bounds for KeySimulator: a plain key, one with a modifier, and one that has
   no Linux key. *)
EXTENDS KeySimulator

MCtable == [menu |-> "KED_MENU", chup |-> "KED_CHANNELUP", settings |-> "KED_SETTINGS"]

MCkcodesMap ==
    [KED_MENU |-> [uCode |-> "KEY_HOME", uModi |-> None],
     KED_CHANNELUP |-> [uCode |-> "KEY_UP", uModi |-> "KEY_LEFTCTRL"],
     KED_UNDEFINEDKEY |-> [uCode |-> "KEY_UNKNOWN", uModi |-> None]]

MCNumbers == {-1, 0, 2}
=============================================================================
