------------------------------ MODULE ZeroDay ------------------------------
(***************************************************************************)
(* predict_zero_days of zeroday.py: components whose version is near a     *)
(* known vulnerable one become candidates for review.                      *)
(*                                                                         *)
(* Versions are sequences of runs, as in VersionMatch; of a summary there  *)
(* are the versions it mentions (grep_version_strings).  Scores are in     *)
(* hundredths, CVSS in tenths.  A pattern is given by its place: a match   *)
(* and a CVE of it.                                                        *)
(***************************************************************************)
EXTENDS Integers, Sequences, FiniteSets

Extreme == INSTANCE FiniteSetsExt

CONSTANTS
    Run,            \* the runs a version is made of: decimal ones are <<0, n>>
    SuspectLists,   \* the lists of components it may be called with
    MatchLists,     \* the matches its patterns may come from
    Thresholds      \* min_confidence

Release == Seq(Run)
Suspect == [name : Nat, version : Release]
Mentioning == [cve : Nat, cvss : 0 .. 100, mentions : SUBSET Release]
KnownMatch == [name : Nat, version : Release, cves : Seq(Mentioning)]

ASSUME TriageAssumption ==
    /\ SuspectLists \subseteq Seq(Suspect)
    /\ MatchLists \subseteq Seq(KnownMatch)
    /\ Thresholds \subseteq Int

VARIABLES
    triage,         \* "predicting", "ranked" or "raised"
    suspects, matched, threshold,
    suspect,        \* which of the suspects is looked at
    predicted      \* the findings

triageVars == <<triage, suspects, matched, threshold, suspect, predicted>>

-----------------------------------------------------------------------------

\* patterns_from_matches
PatternsFromMatches(given) ==
    UNION {{<<i, k>> : k \in DOMAIN given[i].cves} : i \in DOMAIN given}

KnownPattern(given, place) ==
    LET record == given[place[1]].cves[place[2]]
    IN [component |-> given[place[1]].name, known_version |-> given[place[1]].version,
        cve |-> record.cve, cvss |-> record.cvss, mentions |-> record.mentions]

\* The first four decimal runs.
VersionParts(version) ==
    LET parts[n \in 0 .. Len(version)] ==
            IF n = 0 THEN <<>>
            ELSE IF version[n][1] = 0 /\ Len(parts[n - 1]) < 4
                 THEN Append(parts[n - 1], version[n])
                 ELSE parts[n - 1]
    IN parts[Len(version)]

\* Mutant of Similarity: the minor number alone makes two versions similar.
MinorOnly(candidate, release) ==
    LET left == VersionParts(candidate)
        right == VersionParts(release)
    IN CASE left = <<>> \/ right = <<>> -> 0
         [] left = right /\ left # <<>> -> 100
         [] left # right /\ Len(left) >= 2 /\ Len(right) >= 2 /\ left[2] = right[2] -> 78
         [] OTHER -> 0

\* The same numbers, the same major and minor number, or the same major number.
Similarity(candidate, release) ==
    LET left == VersionParts(candidate)
        right == VersionParts(release)
    IN IF left = <<>> \/ right = <<>> \/ left[1] # right[1] THEN 0
       ELSE IF left = right THEN 100
       ELSE IF Len(left) >= 2 /\ Len(right) >= 2 /\ left[2] = right[2] THEN 78
       ELSE 58

VersionsOf(pattern) == {pattern.known_version} \cup pattern.mentions

\* The best similarity among the versions of a pattern.
Nearness(version, pattern) ==
    Extreme!Max({Similarity(version, release) : release \in VersionsOf(pattern)})

\* The patterns of a component, and those near enough to its version.
Relevant(component, given) ==
    {p \in PatternsFromMatches(given) : KnownPattern(given, p).component = component.name}

ExplicitlyKnown(component, given) ==
    \E p \in Relevant(component, given) : component.version \in VersionsOf(KnownPattern(given, p))

Analogues(component, given, least) ==
    {p \in Relevant(component, given) : Nearness(component.version, KnownPattern(given, p)) >= least}

CandidateSeverity(cvss) ==
    CASE cvss >= 90 -> "critical"
      [] cvss >= 70 /\ cvss < 90 -> "high"
      [] cvss >= 40 /\ cvss < 70 -> "medium"
      [] OTHER -> "low"

\* Every further analogue adds 4 hundredths, at most 12.
CandidateFinding(component, given, analogues) ==
    LET near == {Nearness(component.version, KnownPattern(given, p)) : p \in analogues}
    IN [component |-> component,
        confidence |-> Extreme!Min({95, Extreme!Max(near) + Extreme!Min({12, 4 * (Cardinality(analogues) - 1)})}),
        severity |-> CandidateSeverity(Extreme!Max({KnownPattern(given, p).cvss : p \in analogues})),
        cves |-> {KnownPattern(given, p).cve : p \in analogues}]

\* By descending confidence; names and titles break ties, and are left out.
Surer(found, i, j) ==
    \/ found[i].confidence > found[j].confidence
    \/ found[i].confidence = found[j].confidence /\ i < j

SurestFirst(found) ==
    LET order == CHOOSE order \in [DOMAIN found -> DOMAIN found] :
                    \A i, j \in DOMAIN found : i < j => Surer(found, order[i], order[j])
    IN [i \in DOMAIN found |-> found[order[i]]]

-----------------------------------------------------------------------------

NothingPredicted == triage = "predicting" /\ suspect = 1 /\ predicted = <<>>

TriageInit ==
    /\ suspects \in SuspectLists /\ matched \in MatchLists /\ threshold \in Thresholds
    /\ NothingPredicted

\* ValueError
RefuseThreshold ==
    /\ triage = "predicting" /\ threshold \notin 0 .. 100
    /\ triage' = "raised"
    /\ UNCHANGED <<suspects, matched, threshold, suspect, predicted>>

\* One turn of the loop over the components.
Predict ==
    /\ triage = "predicting" /\ threshold \in 0 .. 100 /\ suspect <= Len(suspects)
    /\ LET component == suspects[suspect]
           analogues == Analogues(component, matched, threshold)
       IN predicted' = IF ExplicitlyKnown(component, matched) \/ analogues = {} THEN predicted
                        ELSE Append(predicted, CandidateFinding(component, matched, analogues))
    /\ suspect' = suspect + 1
    /\ UNCHANGED <<triage, suspects, matched, threshold>>

RankCandidates ==
    /\ triage = "predicting" /\ threshold \in 0 .. 100 /\ suspect > Len(suspects)
    /\ predicted' = SurestFirst(predicted) /\ triage' = "ranked"
    /\ UNCHANGED <<suspects, matched, threshold, suspect>>

TriageOver == triage \in {"ranked", "raised"} /\ UNCHANGED triageVars

TriageNext == RefuseThreshold \/ Predict \/ RankCandidates \/ TriageOver

TriageSpec == TriageInit /\ [][TriageNext]_triageVars

-----------------------------------------------------------------------------

\* Every version said to be vulnerable of a component of that name.
VulnerableOf(name) ==
    UNION {VersionsOf(KnownPattern(matched, p)) :
        p \in {p \in PatternsFromMatches(matched) : KnownPattern(matched, p).component = name}}

Major(version) == {VersionParts(version)[i] : i \in {1} \cap DOMAIN VersionParts(version)}

\* A candidate has a version that is not said to be vulnerable and, unless any
\* similarity will do, shares the major number with one that is.
NearKnown(candidate) ==
    LET vulnerable == VulnerableOf(candidate.component.name)
    IN /\ candidate.component.version \notin vulnerable
       /\ threshold > 0 =>
             \E release \in vulnerable : Major(release) \cap Major(candidate.component.version) # {}

\* With a lower threshold it is a candidate as well, with as much confidence and as many CVEs.
StaysCandidate(candidate) ==
    \A least \in Thresholds \cap 0 .. threshold :
        LET analogues == Analogues(candidate.component, matched, least)
            finding == CandidateFinding(candidate.component, matched, analogues)
        IN /\ analogues # {}
           /\ finding.confidence >= candidate.confidence
           /\ candidate.cves \subseteq finding.cves

\* What differs from a vulnerable version in its suffix only is a candidate, and a sure one.
SuffixesFound ==
    \A i \in DOMAIN suspects :
        LET vulnerable == VulnerableOf(suspects[i].name)
            parts == VersionParts(suspects[i].version)
        IN /\ suspects[i].version \notin vulnerable
           /\ parts # <<>>
           /\ \E release \in vulnerable : VersionParts(release) = parts
           => \E j \in DOMAIN predicted :
                 predicted[j].component = suspects[i] /\ predicted[j].confidence = 95

\* A candidate is near a version known to be vulnerable, and not one; a lower threshold
\* would not lose it; none is missed that only differs in its suffix; and the surest
\* come first.
CandidatesAdjacent ==
    triage = "ranked" =>
        /\ \A i \in DOMAIN predicted : NearKnown(predicted[i]) /\ StaysCandidate(predicted[i])
        /\ SuffixesFound
        /\ \A i, j \in DOMAIN predicted :
              i < j => predicted[i].confidence >= predicted[j].confidence
=============================================================================
