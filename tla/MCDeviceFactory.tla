--------------------------- MODULE MCDeviceFactory ---------------------------
(***************************************************************************)
(* DeviceFactory for TLC.  Two arguments name one device: "label" is what  *)
(* a user writes, "serial" what enumerate turns it into; nothing is found  *)
(* for "absent".                                                           *)
(***************************************************************************)
EXTENDS DeviceFactory

CONSTANTS t1, t2, t3

ThreeThreads == {t1, t2, t3}
AllModes == [batch : {<<>>, <<t1, t2>>}, overlap : BOOLEAN]
AllInputs == {"label", "serial", "absent"}
SomeFound == [i \in AllInputs |-> IF i = "absent" THEN Empty ELSE "serial"]
===============================================================================
