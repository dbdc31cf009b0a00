----------------------------- MODULE MCJoystick -----------------------------
(* Joystick with one button or one axis, a clock of four ticks, and devices  *)
(* that share an id or have no USB parent.                                   *)
EXTENDS Joystick, TLC

Usb(v, p) == [usb |-> TRUE, ids |-> <<v, p>>]
Bluetooth == [usb |-> FALSE, ids |-> <<9, 9>>]
MCDevices == {Usb(1, 1), Usb(1, 2), Usb(3, 3), Bluetooth}
OneDevice == {Usb(1, 1)}

\* The default names an axis twice; both leave something out.
MCDefault == <<Is(0, "play"), Is(100, "pause"), Is(201, "next"), Is(201, "stop")>>
MCSections == (<<3, 3>> :> <<Is(301, "previous")>>)
=============================================================================
