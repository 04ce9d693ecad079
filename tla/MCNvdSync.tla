---------------------------- MODULE MCNvdSync ----------------------------
(* Two components of up to two pages of two CVEs; totals below, at and    *)
(* past the end of a page, and the growing one, which every page leaves   *)
(* one CVE short of.                                                      *)
EXTENDS NvdSync

MCNames == <<"busybox", "openssl">>
MCTotals == {1, 2, 4, 9}
=============================================================================
