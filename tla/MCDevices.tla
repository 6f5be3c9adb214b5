----------------------------- MODULE MCDevices -----------------------------
(* Instance of Devices for TLC: every device, a tuner that is off by 2.    *)
EXTENDS Devices

AllDevices == {"airspy", "hackrf", "sdrplay", "usrp", "pluto"}

FewTunings == {-2, 0, 2, 4}
=============================================================================
