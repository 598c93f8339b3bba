----------------------------- MODULE MCInputPump -----------------------------
(* Two keys stand for the eleven, the cursor's and one with a trigger, and one stick  *)
(* for the two.                                                                       *)
EXTENDS InputPump

MCKeys == <<"action", "shoot">>
MCCodes == <<"shoot", "action">>
MCSticks == <<"left">>
=============================================================================
