--------------------------- MODULE MCInventory ---------------------------
(***************************************************************************)
(* Checks the diff command, and what the other commands do with a finished *)
(* inventory or a finished list of findings.  A behaviour is one diff      *)
(* command, over the detections of MCFirmwareDiff; or one search for the   *)
(* root filesystem in a tree of MaxDirs directories below its root, one of *)
(* which may be a link or unreadable; or one merge of native detections and *)
(* the reports of two providers; or one mission of three agents over the   *)
(* findings of a scan; or one triage of an inventory against the matches of *)
(* another one; or one SBOM; or one import of a document of EMBA; or it    *)
(* picks the input of a version comparison and forgets it again:           *)
(*   - two versions of at most MaxRuns runs;                               *)
(*   - a version of at most MaxRangeRuns runs and a range whose bounds are *)
(*     taken from EndPoint.                                                *)
(***************************************************************************)
EXTENDS MCFirmwareDiff, RootfsSearch, EvidenceMerge, AttackChain, ZeroDay, Bom, Emba

CONSTANTS MaxRuns,      \* longest version string compared with another one
          MaxRangeRuns, \* longest version string tried against a range
          MaxNumber,    \* largest decimal run
          MaxDirs,      \* directories below the root of a tree
          MaxNative, MaxReported    \* most native detections, most of a provider

VARIABLES kind,     \* what the behaviour is of, or "none" between two comparisons
          input     \* what it is given

UpTo(m, S) == UNION {[1 .. n -> S] : n \in 0 .. m}

MCRun == ({0} \X (0 .. MaxNumber)) \cup ({1} \X MCWord) \cup {Dot, Star}

\* "1", "2" and "1.a": bounds with a version below, between, equal and above.
EndPoint == {<< <<0, 1>> >>, << <<0, 2>> >>, << <<0, 1>>, Dot, <<1, 1>> >>}
MCRange == [DOMAIN [start_including |-> 0, start_excluding |-> 0,
                    end_including |-> 0, end_excluding |-> 0]
            -> EndPoint \cup {NoBound}]
\* Numbered breadth first, every ordered tree is one of these.
Paths(parent) ==
    LET path[d \in 0 .. MaxDirs] == IF d = 0 THEN Root ELSE Append(path[parent[d]], d)
    IN path
MCTrees ==
    UNION {LET path == Paths(parent)
               dirs == {path[d] : d \in 0 .. MaxDirs}
           IN [dirs : {dirs}, like : SUBSET dirs, links : {{}}, unreadable : {{}} \cup {{d} : d \in dirs}]
              \cup [dirs : {dirs}, like : SUBSET dirs, links : {{d} : d \in dirs \ {Root}}, unreadable : {{}}] :
           parent \in {p \in [1 .. MaxDirs -> 0 .. MaxDirs - 1] :
                         \A c, d \in 1 .. MaxDirs : p[d] < d /\ (c < d => p[c] <= p[d])}}
SomeTree == CHOOSE t \in MCTrees : TRUE

-----------------------------------------------------------------------------
(* The inputs of the machines: inventories, CVEs, findings and documents.   *)

P(name, version, path, source, license, confidence) ==
    [name |-> name, version |-> version, path |-> path, sources |-> {source},
     evidence_paths |-> {}, license |-> license, licenses |-> {}, confidence |-> confidence]
Provided == {P("BusyBox", 1, 1, "syft", 2, 90), P("busybox", 1, 2, "cve-bin-tool", 1, 90),
             P("busybox", 1, 0, "syft", 0, 80), P("busybox", 2, 1, "syft", 2, 90),
             P("zlib", 1, 3, "cve-bin-tool", 1, 98), P(" ", 1, 1, "syft", 1, 90)}
MCReported == {<<syft, binary>> : syft, binary \in UpTo(MaxReported, Provided)}
MCNative == UpTo(MaxNative, {[d EXCEPT !.sources = {}] :
                             d \in {P("busybox", 1, 4, "", 0, 60), P("zlib", 1, 3, "", 3, 100)}})

R(cve, cvss, kev) == [cve |-> cve, cvss |-> cvss, kev |-> kev]
MCRecords == {R("a", 90, TRUE), R("b", 0, FALSE), R("b", 30, FALSE), R("c", 69, FALSE), R("", 70, FALSE)}
MCRecordsFor(component) ==
    CASE component.name = 1 /\ component.version = 1 -> <<R("a", 90, TRUE), R("b", 0, FALSE)>>
      [] component.name = 2 -> <<R("", 70, FALSE), R("b", 30, FALSE), R("c", 69, FALSE)>>
      [] component.name = 0 -> <<R("c", 69, FALSE)>>
      [] OTHER -> <<>>

B(name, spelling, version, purl, paths) ==
    [name |-> name, spelling |-> spelling, version |-> version, purl |-> purl, path |-> 1,
     evidence_paths |-> paths, license |-> 1, licenses |-> AbsentList, sources |-> {"syft"}]
Listed == {B(1, "a", 1, 0, {1, 2}), B(1, "A", 1, 7, AbsentList), B(1, "a", 2, 0, {0}), B(2, "b", 1, 0, {}),
           B(2, "b", 2, 8, {3}), B(0, "", 1, 0, AbsentList), B(3, "c", 1, 7, AbsentList)}
MCInventories == UpTo(3, Listed)

MCSayings == {<<>>, <<"words">>, <<"uid=0">>, <<"root", "shell">>, <<"no">>, <<"root">>, <<"shell", "is">>,
              <<"root", "shell", "is">>, <<"not", "achievable">>, <<"words", "no", "root", "shell">>}
A(role, said, failure, found) == [role |-> role, output |-> said, error |-> failure, findings |-> found]
Answers(role) ==
    {A(role, said, NoError, <<1>>) : said \in MCSayings}
    \cup {A(role, <<"root", "shell">>, failure, <<3>>) : failure \in MCSayings}
ScoutAnswers == {A("scout", <<"uid=0">>, NoError, <<>>), A("scout", <<>>, <<"not", "achievable">>, <<4, 3>>)}
MCMissions == UNION {
    {<<scout, exploiter, reviewer>> : scout \in ScoutAnswers,
        exploiter \in Answers("exploiter"), reviewer \in Answers("reviewer")},
    {<<scout, reviewer>> : scout \in ScoutAnswers, reviewer \in Answers("reviewer")}}
MCFindings == {<<[id |-> 1, confidence |-> 100]>>,
             <<[id |-> 2, confidence |-> 0], [id |-> 1, confidence |-> 50], [id |-> 2, confidence |-> 40]>>, <<>>}

V(numbers) == [i \in 1 .. 2 * Len(numbers) - 1 |->
                  IF i % 2 = 1 THEN <<0, numbers[(i + 1) \div 2]>> ELSE Dot]
Releases == {V(<<1>>), V(<<1, 1>>), V(<<1, 1, 2>>), V(<<2, 1>>), << <<1, 1>> >>,
             V(<<1, 1>>) \o << <<1, 1>> >>}
Mentions == {{}, {V(<<1, 1, 2>>)}, {V(<<2>>), V(<<1, 1>>)}}
Vulnerables == {[name |-> 1, version |-> version,
                 cves |-> <<[cve |-> Len(version), cvss |-> 50, mentions |-> mentions]>>] :
                   version \in Releases, mentions \in Mentions}
               \cup {[name |-> 2, version |-> V(<<1, 1>>), cves |->
                        <<[cve |-> 7, cvss |-> 90, mentions |-> {}],
                          [cve |-> 8, cvss |-> 10, mentions |-> {V(<<1>>)}]>>]}
MCSuspects == UpTo(2, {[name |-> 1, version |-> version] : version \in Releases}
                      \cup {[name |-> 2, version |-> V(<<1, 2>>)]})
MCMatches == UpTo(2, Vulnerables)

EmbaLookup(component) == CASE component.name = 1 -> {"a", "b"} [] component.name = 2 -> {"c"} [] OTHER -> {}
EmbaScore(component) == 20 + 10 * component.name + component.category

Good == [file |-> 0, root |-> 0, schema |-> 0, bomFormat |-> 0, specVersion |-> 0, version |-> 0,
         serialNumber |-> 5, metadata |-> 0, timestamp |-> 5, toolsObject |-> 0, toolsArray |-> 0,
         dependencies |-> 0, vulnerabilities |-> 0, componentsArray |-> 0]
Other == 9
ToolOf(name, author) == [shape |-> 0, name |-> name, author |-> author, version |-> 5]
Toolchains == {<<ToolOf(0, 0)>>, <<ToolOf(Other, Other), ToolOf(0, 0)>>, <<ToolOf(Other, 0)>>, <<>>,
               <<ToolOf(0, Other)>>, <<ToolOf(Odd, 0), ToolOf(0, 0)>>,
               <<[ToolOf(Other, 0) EXCEPT !.shape = Odd], ToolOf(0, 0)>>,
               <<ToolOf(0, 0), [ToolOf(Other, 0) EXCEPT !.shape = Odd]>>,
               <<[ToolOf(0, 0) EXCEPT !.version = Blank]>>}
C(ref, name, type) ==
    [shape |-> 0, ref |-> ref, name |-> name, type |-> type, version |-> 1, publisher |-> Missing,
     supplier |-> Missing, purl |-> Missing]
EmbaComponents ==
    {C(1, 1, 1), C(1, 2, 1), C(2, 1, 3), C(3, 2, 2), C(4, 3, 1), C(5, Blank, 1),
     [C(6, 1, 2) EXCEPT !.version = Missing], [C(7, 1, 2) EXCEPT !.purl = Odd],
     [C(8, 2, 2) EXCEPT !.supplier = Odd],
     [C(9, 2, 2) EXCEPT !.supplier = Odd, !.publisher = 4], [C(3, 2, 2) EXCEPT !.shape = Odd]}
MCDocuments ==
    {[components |-> components, tools |-> tools] @@ Good :
        components \in UpTo(3, EmbaComponents), tools \in Toolchains}
    \cup {[components |-> <<component>>, tools |-> <<ToolOf(0, 0)>>] @@ [Good EXCEPT ![field] = value] :
             component \in EmbaComponents, field \in DOMAIN Good \ {"root"},
             value \in {Missing, Odd, Blank, Other}}
    \cup {[components |-> components, tools |-> <<>>] @@ [Good EXCEPT !.root = Odd, !.file = value] :
             components \in UpTo(1, EmbaComponents), value \in {0, Odd}}
SomeDocument == CHOOSE d \in MCDocuments : TRUE

-----------------------------------------------------------------------------

MCInit ==
    /\ Init
    /\ input = <<>>
    /\ \/ kind = "diff"
       \/ /\ kind \in {"none", "search", "evidence", "mission", "triage", "sbom", "emba"}
          /\ \A side \in Side : format[side] = "image"
    /\ SearchInit
    /\ kind = "search" \/ tree = SomeTree
    /\ IF kind = "evidence" THEN EvidenceInit ELSE native = <<>> /\ reports = <<>> /\ NothingMerged
    /\ IF kind = "mission" THEN ChainInit ELSE sources = <<>> /\ NothingRelated
    /\ IF kind = "triage" THEN TriageInit
       ELSE suspects = <<>> /\ matched = <<>> /\ threshold = 1 /\ NothingPredicted
    /\ IF kind = "sbom" THEN BomInit ELSE listed = <<>> /\ NothingListed
    /\ IF kind = "emba" THEN EmbaInit ELSE document = SomeDocument /\ NothingRead

Pick(k, i) == kind' = k /\ input' = i

PickPair ==
    /\ kind = "none"
    /\ \E left, right \in UpTo(MaxRuns, MCRun) : Pick("pair", [left |-> left, right |-> right])

PickRange ==
    /\ kind = "none"
    /\ \E version \in UpTo(MaxRangeRuns, MCRun), cpe \in EndPoint \cup Wildcard, range \in MCRange :
          Pick("range", [version |-> version, cpe |-> cpe, range |-> range])

Forget ==
    /\ kind \notin {"none", "diff", "search", "evidence", "mission", "triage", "sbom", "emba"}
    /\ Pick("none", <<>>)

Look ==
    /\ PickPair \/ PickRange \/ Forget
    /\ UNCHANGED <<vars, searchVars, evidenceVars, chainVars, triageVars, bomVars, embaVars>>

Command == kind = "diff" /\ Next /\ UNCHANGED <<searchVars, evidenceVars, chainVars, triageVars, bomVars, embaVars, kind, input>>

Search == kind = "search" /\ SearchNext /\ UNCHANGED <<vars, evidenceVars, chainVars, triageVars, bomVars, embaVars, kind, input>>

ImportStep == kind = "emba" /\ EmbaNext /\ UNCHANGED <<vars, searchVars, evidenceVars, chainVars, triageVars, bomVars, kind, input>>

Merge == kind = "evidence" /\ EvidenceNext /\ UNCHANGED <<vars, searchVars, chainVars, triageVars, bomVars, embaVars, kind, input>>

Mission == kind = "mission" /\ ChainNext /\ UNCHANGED <<vars, searchVars, evidenceVars, triageVars, bomVars, embaVars, kind, input>>

Triage == kind = "triage" /\ TriageNext /\ UNCHANGED <<vars, searchVars, evidenceVars, chainVars, bomVars, embaVars, kind, input>>

WriteBom == kind = "sbom" /\ BomNext /\ UNCHANGED <<vars, searchVars, evidenceVars, chainVars, triageVars, embaVars, kind, input>>

MCSpec == MCInit /\ [][Look \/ Command \/ Search \/ Merge \/ Mission \/ Triage \/ WriteBom \/ ImportStep]_
                        <<vars, searchVars, evidenceVars, chainVars, triageVars, bomVars, embaVars, kind, input>>

-----------------------------------------------------------------------------
(* The reference: a key read as a number in a base larger than any chunk.   *)

ChunkCode(chunk) == IF chunk[1] = 0 THEN 1 + chunk[2] ELSE 1 + MaxNumber + chunk[2]
Base == MaxNumber + 5
Digit(key, i) == IF i <= Len(key) THEN ChunkCode(key[i]) ELSE 0
Rank(version) ==
    LET key == SelectSeq(version, LAMBDA run : run \in Chunk)
    IN SX!FoldLeftDomain(LAMBDA sum, i : sum * Base + Digit(key, i),
                         0, [i \in 1 .. MaxRuns |-> i])

Distance(left, right) == Rank(left) - Rank(right)

\* The versions of an interval of the order, given by the bounds of a range.
InInterval(version, range) ==
    LET Ranks(names) == {Rank(range[n]) : n \in {n \in names : range[n] # NoBound}}
        low == Ranks({"start_including"}) \cup {r + 1 : r \in Ranks({"start_excluding"})}
        high == Ranks({"end_including"}) \cup {r - 1 : r \in Ranks({"end_excluding"})}
    IN /\ low \cup high # {}
       /\ \A r \in low : r <= Rank(version)
       /\ \A r \in high : Rank(version) <= r

\* Two versions compare as their ranks do: runs are compared left to right,
\* decimal runs as numbers and below alphabetic ones, separators are not seen,
\* and a version is below every proper extension of it ("1.36.10" above
\* "1.36.9", "8.5p1" above "8.5": the docstring of version_key).  Whatever its
\* bounds are, a range holds exactly the non-blank versions of one interval of
\* that order, and a range without a bound holds none.
VersionsRanked ==
    /\ kind = "pair" =>
          LET order == Compare(input.left, input.right)
              distance == Distance(input.left, input.right)
          IN (order < 0 <=> distance < 0) /\ (order > 0 <=> distance > 0)
    /\ kind = "range" =>
          (Contains(input.range, input.version)
             <=> input.version # <<>> /\ InInterval(input.version, input.range))
=============================================================================
