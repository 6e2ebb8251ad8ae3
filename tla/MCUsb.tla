------------------------------- MODULE MCUsb -------------------------------
(* A keyboard with a mouse in one device, a USB stick, and a device with     *)
(* more strings and configurations, whose requests just fit its ring.        *)
EXTENDS UsbDevices, TLC

CONSTANTS keyboard, stick, other, s1, s2

MCInterface(c) == [type |-> "interface", class |-> c]
MCEndpoint(n, in) == [type |-> "endpoint", in |-> in, id |-> n]
MCHid(n) == [type |-> "hid", reports |-> n]

MCGerman == <<7, 1>>
MCUkEnglish == <<9, 2>>

MCInfo ==
  (keyboard :> [strings |-> <<0, 2>>,
     languages |-> <<MCGerman, UsEnglish>>,
     configurations |-> << <<MCInterface(<<3, 1, 1>>), MCHid(1), MCEndpoint(1, TRUE),
                             MCInterface(<<3, 1, 2>>), MCHid(1), MCEndpoint(2, TRUE)>> >>])
  @@ (stick :> [strings |-> <<3>>, languages |-> <<MCGerman>>,
     configurations |-> << <<MCInterface(<<8, 6, 80>>), MCEndpoint(1, TRUE),
                             MCEndpoint(2, FALSE)>> >>])
  @@ (other :> [strings |-> <<1, 2, 3>>, languages |-> <<MCGerman, MCUkEnglish>>,
     configurations |-> [n \in 1 .. 6 |-> <<>>]])
=============================================================================
