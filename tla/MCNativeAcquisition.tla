------------------------ MODULE MCNativeAcquisition ------------------------
(***************************************************************************)
(* One application, the lock screen and readings that fail, against an     *)
(* idle time that crosses the threshold: the window stream starts, stops   *)
(* and changes, the AFK stream changes.                                    *)
(***************************************************************************)
EXTENDS NativeAcquisition

MCSessions == {"locked", "unlocked", None}
MCForegrounds == {"Code.exe", None}
MCIdleReadings == {"afk", "not-afk"}
=============================================================================
