---------------------------- MODULE FirmwareDiff ----------------------------
(***************************************************************************)
(* The diff command (cli.py): how the detections of one firmware become    *)
(* its inventory (merge_components of detectors/__init__.py), for the old  *)
(* firmware and then for the new one, and how the two inventories are      *)
(* compared (diff.py): the changes, and the CVEs that match in both.  The  *)
(* components of a manifest are taken as they are listed.                  *)
(***************************************************************************)
EXTENDS VersionMatch, FiniteSets

SX == INSTANCE SequencesExt

CONSTANTS
    KeyOf,          \* [name -> the name stripped and in lower case]
    NoKey,          \* the key of a blank name
    Priority,       \* DETECTOR_PRIORITY: [detector -> number]
    Vulnerable(_, _), \* the CVEs the source has for a key and a version
    NoVersion,      \* None, as the version of a missing side
    Detections,     \* what a detector may find, or a manifest list
    MaxDetections   \* bound: [side -> most detections of it]

Name == DOMAIN KeyOf
Detector == DOMAIN Priority
Component == [name : Name, version : Version, detector : Detector]
Side == {"old", "new"}

ASSUME DiffAssumption ==
    /\ Detections \subseteq Component
    /\ \A detector \in Detector : Priority[detector] \in Int

VARIABLES
    stage,      \* the firmware being parsed, "compared" or "raised"
    format,     \* [side -> "image" or "manifest"]
    detected,   \* [side -> what has been found in it so far, in order]
    best,       \* [side -> what `best` and `others` of merge_components hold]
    changes, persistent     \* the FirmwareDiff and the PersistentVulnerability list

vars == <<stage, format, detected, best, changes, persistent>>

KeyOfComponent(component) == KeyOf[component.name]

-----------------------------------------------------------------------------
(* merge_components: the loop, one detection at a time.                     *)

\* The stronger one of two detections, the one seen first among equals; and the other.
Stronger(current, component) ==
    IF Priority[component.detector] > Priority[current.detector] THEN component ELSE current

Weaker(current, component) ==
    IF Priority[component.detector] > Priority[current.detector] THEN current ELSE component

Evidence(loser) == [detector |-> loser.detector, version |-> loser.version]

\* Mutant of Conflicts: a detection that is replaced is forgotten.
ConflictsOfNewcomer(current, component) ==
    {Evidence(loser) : loser \in {component} \ {Stronger(current, component)}}

\* What "also_detected_by" gets: the loser, if it disagrees.
Conflicts(current, component) ==
    {Evidence(loser) : loser \in {l \in {Weaker(current, component)} :
                                   l.version # Stronger(current, component).version}}

Entered(entries, key, component) ==
    IF key \in DOMAIN entries
    THEN [component |-> Stronger(entries[key].component, component),
          conflicts |-> entries[key].conflicts \cup Conflicts(entries[key].component, component)]
    ELSE [component |-> component, conflicts |-> {}]

Collapse(entries, component) ==
    LET key == KeyOfComponent(component)
    IN IF key = NoKey THEN entries
       ELSE [k \in DOMAIN entries \cup {key} |->
                IF k = key THEN Entered(entries, key, component) ELSE entries[k]]

\* The inventory, in an order of the keys.
Merged(entries) ==
    LET keys == SX!SetToSeq(DOMAIN entries)
    IN [i \in DOMAIN keys |-> entries[keys[i]].component]

Inventory(side) == IF format[side] = "image" THEN Merged(best[side]) ELSE detected[side]

-----------------------------------------------------------------------------
(* diff_components and diff_vulnerabilities.                                *)

\* Mutant of Direction: the versions that are not ordered are taken for downgrades.
DirectionUpOrDown(old, new) ==
    CASE old = new -> "unchanged"
      [] old # new /\ Compare(new, old) > 0 -> "upgraded"
      [] OTHER -> "downgraded"

\* A version without any run has no place in the order.
Ordered(old, new) == VersionKey(old) # <<>> /\ VersionKey(new) # <<>>

Direction(old, new) ==
    CASE old = new -> "unchanged"
      [] Ordered(old, new) /\ Compare(new, old) > 0 -> "upgraded"
      [] Ordered(old, new) /\ Compare(new, old) < 0 -> "downgraded"
      [] OTHER -> "changed"

Keys(components) == {KeyOfComponent(component) : component \in SX!ToSet(components)}

\* setdefault keeps the first component of a key.
FirstByName(components) ==
    [key \in Keys(components) |->
        components[CHOOSE i \in DOMAIN components :
            /\ KeyOfComponent(components[i]) = key
            /\ \A j \in 1 .. i - 1 : KeyOfComponent(components[j]) # key]]

Both(old, new, direction) ==
    {[name |-> new[key].name, old |-> old[key].version, new |-> new[key].version] :
        key \in {k \in DOMAIN old \cap DOMAIN new :
                    Direction(old[k].version, new[k].version) = direction}}

DiffComponents(oldComponents, newComponents) ==
    LET old == FirstByName(oldComponents)
        new == FirstByName(newComponents)
    IN [added |-> {[name |-> new[key].name, old |-> NoVersion, new |-> new[key].version] :
                      key \in DOMAIN new \ DOMAIN old},
        removed |-> {[name |-> old[key].name, old |-> old[key].version, new |-> NoVersion] :
                      key \in DOMAIN old \ DOMAIN new},
        upgraded |-> Both(old, new, "upgraded"),
        downgraded |-> Both(old, new, "downgraded"),
        changed |-> Both(old, new, "changed"),
        unchanged |-> Both(old, new, "unchanged")]

CvesOf(component) == Vulnerable(KeyOfComponent(component), component.version)

\* match_components: the loop, one component at a time.
Match(matches, component) ==
    IF CvesOf(component) # {} THEN Append(matches, component) ELSE matches
MatchComponents(components) ==
    LET matches[n \in 0 .. Len(components)] ==
            IF n = 0 THEN <<>> ELSE Match(matches[n - 1], components[n])
    IN matches[Len(components)]

\* Mutant of MatchKey: the names are compared as they are spelled.
MatchName(component) == component.name
MatchKey(component) == KeyOfComponent(component)

\* A dictionary built from a list keeps the last match of a key.
LastByName(matches) ==
    [key \in {MatchKey(match) : match \in SX!ToSet(matches)} |->
        matches[CHOOSE i \in DOMAIN matches :
            /\ MatchKey(matches[i]) = key
            /\ \A j \in i + 1 .. Len(matches) : MatchKey(matches[j]) # key]]

DiffVulnerabilities(oldMatches, newMatches) ==
    LET old == LastByName(oldMatches)
        new == LastByName(newMatches)
    IN UNION {{[name |-> new[key].name, cve |-> cve,
                old |-> old[key].version, new |-> new[key].version] :
                  cve \in CvesOf(old[key]) \cap CvesOf(new[key])} :
              key \in DOMAIN old \cap DOMAIN new}

-----------------------------------------------------------------------------
(* The command.                                                             *)

NoEntry == [key \in {} |-> NoKey]
NoChanges == [added |-> {}, removed |-> {}, upgraded |-> {}, downgraded |-> {},
              changed |-> {}, unchanged |-> {}]

Init ==
    /\ stage = "old"
    /\ format \in [Side -> {"image", "manifest"}]
    /\ detected = [side \in Side |-> <<>>]
    /\ best = [side \in Side |-> NoEntry]
    /\ changes = NoChanges /\ persistent = {}

\* One turn of the loop; the components of a manifest are just listed.
Detect ==
    /\ stage \in Side
    /\ Len(detected[stage]) < MaxDetections[stage]
    /\ \E component \in Detections :
          /\ detected' = [detected EXCEPT ![stage] = Append(@, component)]
          /\ best' = IF format[stage] = "image"
                     THEN [best EXCEPT ![stage] = Collapse(@, component)]
                     ELSE best
    /\ UNCHANGED <<stage, format, changes, persistent>>

\* The old firmware is parsed.
NextFirmware ==
    /\ stage = "old"
    /\ stage' = "new"
    /\ UNCHANGED <<format, detected, best, changes, persistent>>

\* Both are.
Diff ==
    /\ stage = "new"
    /\ stage' = "compared"
    /\ changes' = DiffComponents(Inventory("old"), Inventory("new"))
    /\ persistent' = DiffVulnerabilities(MatchComponents(Inventory("old")),
                                         MatchComponents(Inventory("new")))
    /\ UNCHANGED <<format, detected, best>>

\* A file that cannot be parsed, or a source of CVEs that fails.
Raise ==
    /\ stage \in Side
    /\ stage' = "raised"
    /\ UNCHANGED <<format, detected, best, changes, persistent>>

Ended == stage \in {"compared", "raised"} /\ UNCHANGED vars

Next == Detect \/ NextFirmware \/ Diff \/ Raise \/ Ended

Spec == Init /\ [][Next]_vars

-----------------------------------------------------------------------------

Entry == [component : Component,
          conflicts : SUBSET [detector : Detector, version : Version]]

TypeOK ==
    /\ stage \in Side \cup {"compared", "raised"}
    /\ format \in [Side -> {"image", "manifest"}]
    /\ detected \in [Side -> Seq(Component)]
    /\ DOMAIN best = Side
    /\ \A side \in Side : best[side] \in [DOMAIN best[side] -> Entry]

\* A component is reported once, by the first of its strongest detections, and
\* every version another one saw is named beside it: "a disagreement stays
\* visible in the report instead of being silently resolved" (merge_components),
\* also when the winner was replaced on the way.
DisagreementVisible ==
    \A side \in Side : format[side] = "image" =>
        LET found == detected[side]
            merged == Inventory(side)
            Of(i) == KeyOfComponent(found[i])
            AsStrong(i, j) == Priority[found[i].detector] >= Priority[found[j].detector]
        IN /\ \A i, j \in DOMAIN merged :
                 KeyOfComponent(merged[i]) = KeyOfComponent(merged[j]) => i = j
           /\ \A i \in DOMAIN found : Of(i) # NoKey =>
                 LET entry == best[side][Of(i)]
                     rivals == {j \in DOMAIN found : Of(j) = Of(i)}
                 IN /\ \E k \in DOMAIN merged : merged[k] = entry.component
                    /\ found[i].version # entry.component.version =>
                          \E c \in entry.conflicts : c.version = found[i].version
                    /\ (\A j \in rivals : AsStrong(i, j) /\ (AsStrong(j, i) => i <= j))
                          => entry.component = found[i]

Sides(list) == {<<KeyOf[c.name], c.old, c.new>> : c \in list}
Turned(list) == {<<KeyOf[c.name], c.new, c.old>> : c \in list}

\* Comparing the other way round turns every change round: what was upgraded is
\* downgraded, what was added is removed, and what has no order has none either
\* way; and every component is in one of the lists, once.
DiffReverses ==
    stage = "compared" =>
        LET old == Inventory("old")
            new == Inventory("new")
            back == DiffComponents(new, old)
        IN /\ Sides(changes.upgraded) = Turned(back.downgraded)
           /\ Sides(changes.downgraded) = Turned(back.upgraded)
           /\ Sides(changes.added) = Turned(back.removed)
           /\ Sides(changes.changed) = Turned(back.changed)
           /\ \A key \in Keys(old) \cup Keys(new) :
                 Cardinality({entry \in UNION {{l} \X changes[l] : l \in DOMAIN changes} :
                                 KeyOf[entry[2].name] = key}) = 1

\* The two halves of the report agree on two images: a CVE persists exactly when the
\* change listed for its component is between two versions that both have it.
PersistentMatchesDiff ==
    stage = "compared" /\ (\A side \in Side : format[side] = "image") =>
        LET kept == changes.upgraded \cup changes.downgraded
                    \cup changes.changed \cup changes.unchanged
        IN persistent =
             UNION {{[name |-> c.name, cve |-> cve, old |-> c.old, new |-> c.new] :
                        cve \in Vulnerable(KeyOf[c.name], c.old)
                                \cap Vulnerable(KeyOf[c.name], c.new)} : c \in kept}
=============================================================================
