--------------------------- MODULE MCDeviceAuth ---------------------------
(* Instances of DeviceAuth for TLC: a call of the service worker, callW,    *)
(* and one of the side panel, callP.                                       *)
EXTENDS DeviceAuth

CONSTANTS callW, callP

MCHome(k) == IF k = callW THEN Worker ELSE Panel
=============================================================================
