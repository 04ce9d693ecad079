--------------------------- MODULE MCNvdClient ---------------------------
(* Three spellings of two components: BusyBox and busybox share a key. *)
EXTENDS NvdClient

MCLookup == {"busybox", "BusyBox", "openssl"}
MCKey == {"busybox", "openssl"}
MCKeyOf == [l \in MCLookup |-> IF l = "openssl" THEN "openssl" ELSE "busybox"]
MCRecords == {"none", "nvd", "mock busybox", "mock openssl"}
MCNvdAnswers == [l \in MCLookup |-> IF l = "openssl" THEN {"none"} ELSE {"none", "nvd"}]
MCMockAnswer == [l \in MCLookup |-> IF l = "openssl" THEN "mock openssl" ELSE "mock busybox"]
=============================================================================
