--------------------------- MODULE MCScanCommand ---------------------------
(***************************************************************************)
(* Values for ScanCommand: four CVEs of two lengths, so that chunks of one *)
(* and of two CVEs arise, every list of up to two matches out of five, and *)
(* four lists of three, with CVEs shared between components.               *)
(***************************************************************************)
EXTENDS ScanCommand

MCCve == {"a", "b", "c", "d"}
MCLength == [cve \in MCCve |-> IF cve = "d" THEN 5 ELSE 2]
MCPublished == [cve \in MCCve |-> CASE cve = "a" -> 9 [] cve = "b" -> 1
                                    [] cve = "c" -> 4 [] OTHER -> NoScore]
MCCatalog == {"b", "d"}

R(cve, cvss, kev) == [cve |-> cve, cvss |-> cvss, epss |-> 0, kev |-> kev]
M(name, exposure, cves) == [name |-> name, exposure |-> exposure, cves |-> cves]

One == M(1, 3, <<R("a", 5, FALSE)>>)
Two == M(2, 3, <<R("a", 5, FALSE), R("b", 5, FALSE)>>)
Three == M(3, 9, <<R("b", 5, FALSE), R("c", 9, TRUE)>>)
Four == M(4, 3, <<R("c", 9, TRUE), R("d", 5, FALSE), R("a", 5, FALSE)>>)
Five == M(0, 3, <<R("d", 5, TRUE)>>)

Matches == {One, Two, Three, Four, Five}
Long == {<<One, Two, Three>>, <<One, Three, Four>>, <<Five, Four, Three>>, <<Four, Two, Five>>}

MCMatched == UNION {[1 .. n -> Matches] : n \in 0 .. 2} \cup Long

=============================================================================
