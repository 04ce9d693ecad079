-------------------------------- MODULE Bom --------------------------------
(***************************************************************************)
(* The CycloneDX document of sbom/cyclonedx.py, from an inventory and the  *)
(* pairs of a component and a CVE that _sbom_vulnerabilities of cli.py     *)
(* makes of it.                                                            *)
(*                                                                         *)
(* A name is a number, ordered as the lower-cased names are, and Spelled   *)
(* apart by its spelling; paths, licenses and URLs are numbers, too, with  *)
(* 0 for an empty one.  CVE ids are in upper case.  A lookup that raises   *)
(* ends the command, in ScanCommand.                                       *)
(***************************************************************************)
EXTENDS Integers, Sequences, FiniteSets

CONSTANTS
    Listable,       \* the components an inventory may list
    Inventories,    \* the inventories
    CveRecords, RecordsFor(_), \* the records, and those the CVE source has for a component
    BlankCve        \* a CVE id without text

ASSUME BomAssumption ==
    /\ Inventories \subseteq Seq(Listable)
    /\ \A c \in Listable : c.name \in Nat /\ c.version \in Nat /\ RecordsFor(c) \in Seq(CveRecords)

VARIABLES
    building,   \* "resolving", "grouping" or "built"
    listed,     \* the inventory
    turn,       \* of the loop over the inventory, then of that over the pairs
    pairs, byCve, bom

bomVars == <<building, listed, turn, pairs, byCve, bom>>

NoText == 0
AbsentList == {-1}      \* a list that the component does not have
NoBom == [components |-> <<>>, vulnerabilities |-> {}]

Nameless(component) == component.name = NoText

\* _purl: the URL the component came with, or a generic one.
Ref(component) ==
    IF component.purl # NoText THEN <<"purl", component.purl>>
    ELSE <<"generic", component.name, component.spelling, component.version>>

\* _component_entry: the evidence paths if there are any, else the path.
Occurrences(component) ==
    (IF component.evidence_paths = AbsentList THEN {component.path} ELSE component.evidence_paths)
        \ {NoText}

EntryLicenses(component) ==
    (IF component.licenses = AbsentList THEN {component.license} ELSE component.licenses) \ {NoText}

ComponentEntry(component) ==
    [ref |-> Ref(component), name |-> component.spelling, version |-> component.version,
     licenses |-> EntryLicenses(component), occurrences |-> Occurrences(component),
     sources |-> component.sources]

\* sorted by name.lower() and version keeps the order of equals; nameless ones are left out.
ListedBefore(c, d) ==
    \/ c.name < d.name
    \/ c.name = d.name /\ c.version < d.version

Earlier(components, i, j) ==
    \/ ListedBefore(components[i], components[j])
    \/ ~ListedBefore(components[j], components[i]) /\ i < j

SortedComponents(components) ==
    LET named == {i \in DOMAIN components : ~Nameless(components[i])}
        order == CHOOSE order \in [1 .. Cardinality(named) -> named] :
                    \A i, j \in DOMAIN order : i < j => Earlier(components, order[i], order[j])
    IN [i \in 1 .. Cardinality(named) |-> components[order[i]]]

Entries(components) ==
    LET sorted == SortedComponents(components)
    IN [i \in DOMAIN sorted |-> ComponentEntry(sorted[i])]

VulnerabilitySeverity(cvss) ==
    CASE cvss >= 90 -> "critical"
      [] cvss >= 70 /\ cvss < 90 -> "high"
      [] cvss >= 40 /\ cvss < 70 -> "medium"
      [] cvss > 0 /\ cvss < 40 -> "low"
      [] OTHER -> "unknown"

VulnerabilityEntry(record, refs) ==
    [id |-> record.cve, severity |-> VulnerabilitySeverity(record.cvss), score |-> record.cvss,
     affects |-> refs, kev |-> record.kev]

\* Mutant of Affected: the component that is met when the entry of a CVE is made.
FirstAffected(refs, component) == IF refs = {} THEN {Ref(component)} ELSE refs
Affected(refs, component) == refs \cup {Ref(component)}

-----------------------------------------------------------------------------

NothingListed ==
    building = "resolving" /\ turn = 1 /\ pairs = <<>> /\ byCve = [cve \in {} |-> NoBom] /\ bom = NoBom

BomInit == listed \in Inventories /\ NothingListed

\* _sbom_vulnerabilities, component by component.
Resolve ==
    /\ building = "resolving" /\ turn <= Len(listed)
    /\ LET component == listed[turn]
           records == RecordsFor(component)
       IN pairs' = pairs \o [k \in DOMAIN records |-> <<component, records[k]>>]
    /\ turn' = turn + 1
    /\ UNCHANGED <<building, listed, byCve, bom>>

Resolved ==
    /\ building = "resolving" /\ turn > Len(listed)
    /\ building' = "grouping" /\ turn' = 1
    /\ UNCHANGED <<listed, pairs, byCve, bom>>

\* _vulnerabilities, pair by pair: a CVE has the record it is met with first.
GroupPair ==
    /\ building = "grouping" /\ turn <= Len(pairs)
    /\ LET component == pairs[turn][1]
           record == pairs[turn][2]
           held == IF record.cve \in DOMAIN byCve THEN byCve[record.cve]
                   ELSE [record |-> record, refs |-> {}]
       IN byCve' = IF record.cve = BlankCve THEN byCve
                     ELSE [cve \in DOMAIN byCve \cup {record.cve} |->
                              IF cve = record.cve
                              THEN [held EXCEPT !.refs = Affected(@, component)]
                              ELSE byCve[cve]]
    /\ turn' = turn + 1
    /\ UNCHANGED <<building, listed, pairs, bom>>

\* The list of vulnerabilities is sorted by CVE, and so is `affects`.
BuildDocument ==
    /\ building = "grouping" /\ turn > Len(pairs)
    /\ bom' = [components |-> Entries(listed),
               vulnerabilities |-> {VulnerabilityEntry(byCve[cve].record, byCve[cve].refs) :
                                        cve \in DOMAIN byCve}]
    /\ building' = "built"
    /\ UNCHANGED <<listed, turn, pairs, byCve>>

BomOver == building = "built" /\ UNCHANGED bomVars

BomNext == Resolve \/ Resolved \/ GroupPair \/ BuildDocument \/ BomOver

BomSpec == BomInit /\ [][BomNext]_bomVars

-----------------------------------------------------------------------------

WithName == {i \in DOMAIN listed : ~Nameless(listed[i])}

\* The components that have a CVE, and the places of its records.
RefsWith(cve) ==
    {Ref(listed[i]) : i \in {i \in DOMAIN listed :
        \E k \in DOMAIN RecordsFor(listed[i]) : RecordsFor(listed[i])[k].cve = cve}}

RecordsOfListed ==
    UNION {{RecordsFor(listed[i])[k] : k \in DOMAIN RecordsFor(listed[i])} : i \in DOMAIN listed}

\* The document has one entry for each CVE of the inventory, made of a record of it, that
\* names the components that have it and no others; all of these are in the document
\* unless one without a name has a CVE.
VulnerabilitiesOfInventory ==
    /\ \A v \in bom.vulnerabilities : \E record \in RecordsOfListed :
          record.cve # BlankCve /\ v = VulnerabilityEntry(record, RefsWith(record.cve))
    /\ \A record \in RecordsOfListed : record.cve # BlankCve =>
          \E v \in bom.vulnerabilities : v.id = record.cve
    /\ \A v, w \in bom.vulnerabilities : v.id = w.id => v = w
    /\ (\A i \in DOMAIN listed \ WithName : RecordsFor(listed[i]) = <<>>) =>
          \A v \in bom.vulnerabilities :
             v.affects \subseteq {bom.components[i].ref : i \in DOMAIN bom.components}

\* It lists every component that has a name; and when no two have the same name and
\* version, in whatever order the inventory has them ("so SBOMs can be diffed across
\* builds", README.md).
ComponentsOfInventory ==
    LET apart == \A i, j \in WithName : i # j =>
                    <<listed[i].name, listed[i].version>> # <<listed[j].name, listed[j].version>>
        reordered == {order \in [DOMAIN listed -> DOMAIN listed] :
                        \A i, j \in DOMAIN listed : order[i] = order[j] => i = j}
    IN /\ {bom.components[i].ref : i \in DOMAIN bom.components} = {Ref(listed[i]) : i \in WithName}
       /\ apart => \A order \in reordered :
                      Entries([i \in DOMAIN listed |-> listed[order[i]]]) = bom.components

BomOfInventory == building = "built" => VulnerabilitiesOfInventory /\ ComponentsOfInventory
=============================================================================
