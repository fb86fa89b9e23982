---------------------------- MODULE MCAtmSystem ----------------------------
(***************************************************************************)
(* Instances of AtmSystem for TLC: PINs of one or two digits and an        *)
(* account that one withdrawal empties or that suffices for two.           *)
(***************************************************************************)
EXTENDS AtmSystem

Digits   == {0, 1}
PinOne   == <<1>>
PinTwo   == <<1, 0>>
AllKeys  == {"card_inserted", "balance_pressed", "cancel_pressed", "clear_last_pressed"}
DriverKeys == {"card_inserted", "balance_pressed", "cancel_pressed"}
=============================================================================
