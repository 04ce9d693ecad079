--------------------------- MODULE MCFirmwareDiff ---------------------------
(***************************************************************************)
(* Two names of three spellings and a blank one, detected at versions that *)
(* are equal, differ in a separator, are ordered or have no run at all, by *)
(* detectors of two priorities, two of them equal.                         *)
(***************************************************************************)
EXTENDS FirmwareDiff, TLC

MCWord == {1, 2}
MCWordLess(u, v) == u < v

One == << <<0, 1>> >>
OneDot == << <<0, 1>>, Dot>>
Two == << <<0, 2>> >>

MCKeyOf == "BusyBox" :> "busybox" @@ "busybox" :> "busybox" @@ "zlib" :> "zlib" @@ " " :> ""
MCPriority == "opkg" :> 3 @@ "dpkg" :> 3 @@ "binary" :> 1
MCVulnerable(key, version) ==
    CASE version \in {One, OneDot} -> IF key = "zlib" THEN {"a"} ELSE {"a", "b"}
      [] version = Two /\ key = "busybox" -> {"b", "c"}
      [] OTHER -> {}

D(name, version, detector) == [name |-> name, version |-> version, detector |-> detector]
MCDetections == {
    D("BusyBox", One, "binary"), D("busybox", OneDot, "binary"), D("busybox", Two, "dpkg"),
    D("BusyBox", <<Dash>>, "opkg"), D("zlib", One, "dpkg"), D("zlib", Two, "binary"),
    D(" ", One, "binary")}
MCMaxDetections == [side \in Side |-> IF side = "old" THEN 3 ELSE 2]
=============================================================================
