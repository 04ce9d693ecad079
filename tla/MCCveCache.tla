---------------------------- MODULE MCCveCache ----------------------------
(***************************************************************************)
(* Values for CveCache: two products, five CPE criteria, two CVEs, and a   *)
(* short history of what NVD publishes.  Rows are matched by VersionMatch. *)
(***************************************************************************)
EXTENDS CveCache

CONSTANT NoBound

MCLess(u, v) == u < v
VM == INSTANCE VersionMatch WITH Word <- {1}, WordLess <- MCLess

MCComponent == {"busybox", "openssl"}
MCNames == <<"busybox", "openssl">>
OneName == <<"busybox">>

\* 1 busybox:1, 2 busybox:*, 3 openssl:*, 4 a criteria that does not parse.
MCCpe == 1 .. 4
MCProductOf == <<"busybox", "busybox", "openssl", NoProduct>>
MCMentions == << {"busybox"}, {"busybox"}, {"openssl"}, {"busybox"} >>
CpeVersion == << << <<0, 1>> >>, <<VM!Star>>, <<VM!Star>>, <<>> >>

MCBlank == <<>>
V1 == << <<0, 1>> >>
V2 == << <<0, 2>> >>
MCVersions == {MCBlank, V1, V2}

Unbounded == [start_including |-> NoBound, start_excluding |-> NoBound,
              end_including |-> NoBound, end_excluding |-> NoBound]
Before2 == [Unbounded EXCEPT !.end_excluding = V2]
From2 == [Unbounded EXCEPT !.start_including = V2]
MCRanges == {Unbounded, Before2, From2}

MCCovers(cpe, version, range) == VM!MatchesVersion(CpeVersion[cpe], version, range)

E(cve, cpe, range, score) == [cve |-> cve, cpe |-> cpe, range |-> range, score |-> score]

\* First feed: CVE "A" pins version 1 and covers the releases before 2, on two
\* pages; a keyword search for busybox also finds an openssl record.
Feed1 == [busybox |-> << <<E("A", 1, Unbounded, 5), E("B", 3, From2, 9)>>,
                         <<E("A", 2, Before2, 5), E("B", 4, Before2, 9)>> >>,
          openssl |-> << <<E("B", 3, From2, 9)>> >>]

\* NVD corrects it: "A" is scored again, "B" affects other versions, and openssl
\* has more pages than the cap allows.
Feed2 == [busybox |-> << <<E("A", 1, Unbounded, 9), E("A", 2, From2, 9)>> >>,
          openssl |-> << <<E("B", 3, Before2, 9)>>, <<>>, <<E("A", 3, From2, 9)>> >>]

\* A CVE that affects two ranges of one wildcard CPE.
FeedTwoRanges == [busybox |-> << <<E("A", 2, Before2, 5), E("A", 2, From2, 5)>> >>,
                  openssl |-> <<>>]

MCHistory == <<Feed1, Feed2>>
TwoRanges == <<FeedTwoRanges>>

\* The first feed and the correction of busybox alone.
Small1 == [busybox |-> Feed1.busybox, openssl |-> <<>>]
Small2 == [busybox |-> Feed2.busybox, openssl |-> <<>>]
SmallHistory == <<Small1, Small2>>

Fresh == [table |-> "absent", userVersion |-> 0]
Legacy == [table |-> "legacy", userVersion |-> 0]
Current == [table |-> "current", userVersion |-> 2]
AnyFile == {Fresh, Legacy, Current}
FreshFile == {Fresh}
CurrentFile == {Current}

\* The feeds of MCHistory are as CleanSyncComplete needs them, that of TwoRanges is not.
ASSUME HistoriesAsSaid ==
    /\ History = MCHistory => ConsistentFeeds
    /\ History = TwoRanges => ~OneRange
=============================================================================
