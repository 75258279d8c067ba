---------------------------- MODULE MCPodWatcher ----------------------------
(* Small instances of PodWatcher.                                          *)
EXTENDS PodWatcher

CONSTANTS SameName, SameDevice

MCNames == {"a", "b"}
(* Pod 2 reuses the name of pod 1, or has its own.                         *)
MCNameOf == [g \in Pods |-> IF g = 1 \/ SameName THEN "a" ELSE "b"]
MCDevices == {"d1", "d2"}
(* Pod 2 is granted the devices of pod 1, or others.                       *)
MCDeviceOf == [g \in Pods |-> IF g = 1 \/ SameDevice THEN "d1" ELSE "d2"]
=============================================================================
