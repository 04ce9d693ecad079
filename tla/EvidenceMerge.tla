--------------------------- MODULE EvidenceMerge ---------------------------
(***************************************************************************)
(* merge_components of providers/inventory.py: what the inventory providers*)
(* say of one component becomes one entry; and where the scanner uses it:  *)
(* collect_inventory merges what the providers found, and                  *)
(* _inventory_extraction of scanner.py merges the outcome with the native  *)
(* detections.                                                             *)
(*                                                                         *)
(* Confidence is in hundredths.  Licenses and paths are numbers, compared  *)
(* as the strings are, with 0 for an empty one; `vendor`, `category` and   *)
(* the package URL are merged like `path`, and stand in its place.         *)
(***************************************************************************)
EXTENDS Integers, Sequences, FiniteSets

Sqs == INSTANCE SequencesExt
Sts == INSTANCE FiniteSetsExt

CONSTANTS
    Folded,         \* [name -> the name stripped and casefolded]
    NoName,         \* a blank name, folded
    Origins,        \* the names of the detectors and of the inventory providers
    Native,         \* the lists the detectors of the scanner may make
    Reported        \* what the providers may report, one list of each

Absent == 0

\* The keys of `extra` are fields; an absent one is the empty set or Absent.
Detection ==
    [name : DOMAIN Folded, version : Nat, path : Nat, sources : SUBSET Origins,
     evidence_paths : SUBSET Nat, license : Nat, licenses : SUBSET Nat, confidence : 0 .. 100]

\* Only a merge gives a component `licenses`.
ASSUME EvidenceAssumption ==
    /\ IsFiniteSet(Origins)
    /\ Native \subseteq Seq(Detection)
    /\ Reported \subseteq Seq(Seq({c \in Detection : c.licenses = {}}))

VARIABLES
    native, reports,
    merging,        \* whose merge it is: "collect", "inventory", or "over"
    inventories,    \* what it is given
    list, position, \* the component that is grouped next
    grouped,        \* [identity -> its candidates, in the order in which they are met]
    outcome         \* of the last merge: [identity -> entry]

evidenceVars == <<native, reports, merging, inventories, list, position, grouped, outcome>>

NoGroup == [identity \in {} |-> <<>>]

-----------------------------------------------------------------------------

Identity(component) == <<Folded[component.name], component.version>>

Named(component) == Folded[component.name] # NoName

Group(identity) == IF identity \in DOMAIN grouped THEN grouped[identity] ELSE <<>>

Strongest(candidates) == Sts!Max({c.confidence : c \in Sqs!ToSet(candidates)})

\* max keeps the first of several.
Primary(candidates) ==
    candidates[Sts!Min({i \in DOMAIN candidates :
                           candidates[i].confidence = Strongest(candidates)})]

FirstPath(candidates) ==
    LET named == {i \in DOMAIN candidates : candidates[i].path # Absent}
    IN IF named = {} THEN Absent ELSE candidates[Sts!Min(named)].path

Sources(candidates) == UNION {c.sources : c \in Sqs!ToSet(candidates)}

\* Mutant of EvidencePaths: of the strongest candidate only.
PathOfPrimary(candidates) == {Primary(candidates).path} \ {Absent}
EvidencePaths(candidates) == {c.path : c \in Sqs!ToSet(candidates)} \ {Absent}

Licenses(candidates) == {c.license : c \in Sqs!ToSet(candidates)} \ {Absent}

\* Every further source adds 3 hundredths.
Confidence(candidates) ==
    Sts!Min({99, Strongest(candidates)
                   + 3 * Sts!Max({0, Cardinality(Sources(candidates)) - 1})})

MergedEntry(candidates) ==
    LET primary == Primary(candidates)
        licenses == Licenses(candidates)
    IN [primary EXCEPT
            !.path = FirstPath(candidates),
            !.sources = Sources(candidates),
            !.evidence_paths = EvidencePaths(candidates),
            !.confidence = Confidence(candidates),
            !.licenses = IF licenses = {} THEN @ ELSE licenses,
            !.license = IF licenses = {} THEN @ ELSE Sts!Min(licenses)]

\* The list of a merge, in an order of the identities.
InventoryOf(merged) ==
    LET identities == Sqs!SetToSeq(DOMAIN merged)
    IN [i \in DOMAIN identities |-> merged[identities[i]]]

-----------------------------------------------------------------------------

Given(given) == inventories' = given /\ list' = 1 /\ position' = 1 /\ grouped' = NoGroup

NothingMerged ==
    /\ merging = "collect" /\ inventories = reports
    /\ list = 1 /\ position = 1 /\ grouped = NoGroup /\ outcome = NoGroup

EvidenceInit == native \in Native /\ reports \in Reported /\ NothingMerged

\* merge_components: by identity, one component at a time; a blank name is dropped.
GroupComponent ==
    /\ merging # "over" /\ list <= Len(inventories) /\ position <= Len(inventories[list])
    /\ LET component == inventories[list][position]
           own == Identity(component)
       IN grouped' = IF ~Named(component) THEN grouped
                     ELSE [identity \in DOMAIN grouped \cup {own} |->
                             IF identity = own THEN Append(Group(own), component)
                                               ELSE grouped[identity]]
    /\ position' = position + 1
    /\ UNCHANGED <<native, reports, merging, inventories, list, outcome>>

NextInventory ==
    /\ merging # "over" /\ list <= Len(inventories) /\ position > Len(inventories[list])
    /\ list' = list + 1 /\ position' = 1
    /\ UNCHANGED <<native, reports, merging, inventories, grouped, outcome>>

\* merge_components, then what its caller does: the outcome of collect_inventory is
\* merged again, behind the native detections.
MergeGroups ==
    /\ merging # "over" /\ list > Len(inventories)
    /\ outcome' = [identity \in DOMAIN grouped |-> MergedEntry(grouped[identity])]
    /\ \/ merging = "collect" /\ merging' = "inventory" /\ Given(<<native, InventoryOf(outcome')>>)
       \/ merging = "inventory" /\ merging' = "over" /\ UNCHANGED <<inventories, list, position, grouped>>
    /\ UNCHANGED <<native, reports>>

Inventoried == merging = "over" /\ UNCHANGED evidenceVars

EvidenceNext == GroupComponent \/ NextInventory \/ MergeGroups \/ Inventoried

EvidenceSpec == EvidenceInit /\ [][EvidenceNext]_evidenceVars

-----------------------------------------------------------------------------

Said(lists) == UNION {Sqs!ToSet(lists[i]) : i \in DOMAIN lists}
Of(identity, said) == {c \in said : Identity(c) = identity}
Identities(said) == {Identity(c) : c \in {c \in said : Named(c)}}
All == Said(<<native>> \o reports)

\* An entry says what is said by any of its candidates, and nothing else.
Tells(entry, said) ==
    /\ entry.sources = UNION {c.sources : c \in said}
    /\ entry.evidence_paths = {c.path : c \in said} \ {Absent}
    /\ entry.licenses = {c.license : c \in said} \ {Absent}

\* Of its licenses it has the first; its confidence is that of the surest candidate,
\* and more for every further source.
Licensed(entry) == entry.license = IF entry.licenses = {} THEN Absent ELSE Sts!Min(entry.licenses)
Weighed(entry, said) ==
    \E strongest \in {c.confidence : c \in said} :
        /\ \A c \in said : c.confidence <= strongest
        /\ entry.confidence = Sts!Min({99, strongest + 3 * Sts!Max({0, Cardinality(entry.sources) - 1})})

EvidenceKept(said) ==
    /\ DOMAIN outcome = Identities(said)
    /\ \A identity \in DOMAIN outcome : Tells(outcome[identity], Of(identity, said))

\* collect_inventory: an entry says of its component what any provider has said,
\* and nothing else, and what it is given as the license and the confidence is told
\* by all of that together: whichever provider was asked first, the entry is the
\* same; two spellings are one component and two versions are two ("merged by
\* normalized component/version identity; their provider names, evidence paths,
\* licenses ... are preserved", README.md).
Collected ==
    merging = "inventory" =>
        /\ EvidenceKept(Said(reports))
        /\ \A identity \in DOMAIN outcome :
              /\ Licensed(outcome[identity])
              /\ Weighed(outcome[identity], Of(identity, Said(reports)))

\* The inventory a scan ends with has every component any detector or provider has
\* named, once, under the names of all the providers that have, and of no others.
SourcesReported ==
    merging = "over" =>
        /\ DOMAIN outcome = Identities(All)
        /\ \A identity \in DOMAIN outcome :
              outcome[identity].sources = UNION {c.sources : c \in Of(identity, All)}

\* Neither merge loses or invents a component or a source, and the first keeps the
\* evidence.
EvidenceMerged == Collected /\ SourcesReported

\* Its paths and licenses are all there as well.
EvidenceReported == merging = "over" => EvidenceKept(All)
=============================================================================
