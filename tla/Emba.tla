-------------------------------- MODULE Emba --------------------------------
(***************************************************************************)
(* providers/emba.py: a CycloneDX document of EMBA's F15 module is checked, *)
(* component by component, and becomes an inventory; and the findings both *)
(* it and scan_path_to_envelope of gateway_envelope.py make of an          *)
(* inventory.                                                              *)
(*                                                                         *)
(* A field of the document is Missing, Odd (of the wrong JSON type), Blank *)
(* or a text; texts are numbers.  Wanted is the one a field must have, the *)
(* object or array that must be there, or an array that must be empty.     *)
(* What an array or an object holds stands beside it, whether or not it is *)
(* there to be read.                                                       *)
(***************************************************************************)
EXTENDS Integers, Sequences, FiniteSets

FSX == INSTANCE FiniteSetsExt

CONSTANTS Documents,    \* what may be imported
          Lookup(_),    \* the CVEs mock_lookup has for a component
          Score(_)      \* its PRisk

Missing == -3
Odd == -2
Blank == -1
Wanted == 0

Field == Nat \cup {Missing, Odd, Blank}
Shape == {Wanted, Odd}
Tool == [shape : Shape, name : Field, author : Field, version : Field]
Item == [shape : Shape, ref : Field, name : Field, type : Field, version : Field,
         publisher : Field, supplier : Field, purl : Field]

\* The file: Missing cannot be read, Odd or Blank is not JSON in UTF-8.  Its root, and
\* of $.metadata: itself, its tools and their array; and the array of components.
Document == [file : Field, root : Shape,
             schema : Field, bomFormat : Field, specVersion : Field, version : Field,
             serialNumber : Field, metadata : Field, timestamp : Field,
             toolsObject : Field, toolsArray : Field, tools : Seq(Tool),
             dependencies : Field, vulnerabilities : Field,
             componentsArray : Field, components : Seq(Item)]

Optional(field) == IF field \in {Missing, Blank} THEN Blank ELSE field

ComponentOf(item) ==
    [name |-> item.name, category |-> item.type, version |-> Optional(item.version), ref |-> item.ref,
     vendor |-> IF Optional(item.publisher) # Blank THEN item.publisher ELSE Optional(item.supplier),
     purl |-> Optional(item.purl)]

ASSUME EmbaAssumption ==
    /\ Documents \subseteq Document
    /\ \A d \in Documents : \A i \in DOMAIN d.components : Score(ComponentOf(d.components[i])) \in Nat

VARIABLES document,
          imported,     \* the components read so far
          import,       \* "file", "document", "components", the status of the envelope,
                        \* or "raised"
          error,        \* the exception that ended the import
          findings

embaVars == <<document, imported, import, error, findings>>

None == "none"

-----------------------------------------------------------------------------

\* Reading and json.loads: what neither is an OSError nor one of decoding passes every
\* handler, as the ValueError of a number of too many digits does.
FileError(field) ==
    CASE field = Missing -> "unreadable"
      [] field \in {Odd, Blank} -> "parse"
      [] field \notin {Missing, Odd, Blank, Wanted} -> "uncaught"
      [] OTHER -> None

\* _required and _text; _optional_text.
TextError(field) ==
    CASE field \in {Missing, Blank} -> "missing field"
      [] field = Odd -> "schema"
      [] OTHER -> None
\* _required, then _mapping, or _array and what the array may hold.
ShapeError(field) ==
    CASE field = Missing -> "missing field"
      [] field \notin {Missing, Wanted} -> "schema"
      [] OTHER -> None
OptionalError(field) == IF field = Odd THEN "schema" ELSE None

\* A required text that must be the wanted one, or is refused with `reason`.
WantedError(field, reason) ==
    CASE TextError(field) # None -> TextError(field)
      [] TextError(field) = None /\ field # Wanted -> reason
      [] OTHER -> None

\* The error of the first check that fails.
FirstOf(checks) ==
    LET failed == {i \in DOMAIN checks : checks[i] # None}
    IN IF failed = {} THEN None ELSE checks[FSX!Min(failed)]

\* _tool_version: the first tool that calls itself EMBA is the one.
ToolErrors(tools) ==
    LET named == {i \in DOMAIN tools : tools[i].shape = Odd \/ tools[i].name \in {Wanted, Odd}}
        tool == tools[FSX!Min(named)]
    IN IF named = {} THEN <<"schema">>
       ELSE <<ShapeError(tool.shape), OptionalError(tool.name), WantedError(tool.author, "schema"),
              TextError(tool.version)>>

HeaderErrors ==
    <<ShapeError(document.root),
      WantedError(document.schema, "schema"), WantedError(document.bomFormat, "schema"),
      WantedError(document.specVersion, "unsupported version"),
      CASE document.version = Missing -> "missing field"
        [] document.version \notin {Missing, Wanted} -> "unsupported version"
        [] OTHER -> None>>

MetadataErrors ==
    <<TextError(document.serialNumber), ShapeError(document.metadata), TextError(document.timestamp),
      ShapeError(document.toolsObject), ShapeError(document.toolsArray)>>

\* parse_emba_report, up to the components.
DocumentErrors ==
    HeaderErrors \o MetadataErrors \o ToolErrors(document.tools)
    \o <<ShapeError(document.dependencies), ShapeError(document.vulnerabilities),
         ShapeError(document.componentsArray)>>

\* Mutant of SeenBefore: only the component before is compared with.
SeenJustBefore(ref) == imported # <<>> /\ imported[Len(imported)].ref = ref
SeenBefore(ref) == \E j \in DOMAIN imported : imported[j].ref = ref

\* _component
ComponentErrors(item) ==
    <<ShapeError(item.shape), TextError(item.ref),
      IF SeenBefore(item.ref) THEN "schema" ELSE None,
      TextError(item.name), TextError(item.type),
      OptionalError(item.version), OptionalError(item.publisher),
      IF Optional(item.publisher) = Blank THEN OptionalError(item.supplier) ELSE None,
      OptionalError(item.purl)>>

\* match_components: the positions of the matches.
MatchesOf(components) == {i \in DOMAIN components : Lookup(components[i]) # {}}

SameRelease(c, d) == c.name = d.name /\ c.version = d.version

ScoresOf(components, i) ==
    {Score(components[j]) : j \in {j \in MatchesOf(components) : SameRelease(components[j], components[i])}}

\* Mutant of ScoreOf: the first of them, the highest.
HighestScore(components, i) == FSX!Max(ScoresOf(components, i))

\* The dictionary is filled in descending order, and the last of a release stays.
ScoreOf(components, i) == FSX!Min(ScoresOf(components, i))

FindingsOf(components) ==
    UNION {{[component |-> i, cve |-> cve, prisk |-> ScoreOf(components, i)] :
               cve \in Lookup(components[i])} : i \in MatchesOf(components)}

-----------------------------------------------------------------------------

NothingRead == imported = <<>> /\ import = "file" /\ error = None /\ findings = {}

EmbaInit == document \in Documents /\ NothingRead

\* import_emba_path_to_envelope: a rejected report is one error and nothing else; an
\* exception its handler does not name is the caller's.
Refuse(reason) ==
    /\ import' = IF reason = "uncaught" THEN "raised" ELSE "warning"
    /\ error' = reason
    /\ imported' = <<>>
    /\ UNCHANGED findings

LoadReport ==
    /\ import = "file"
    /\ IF FileError(document.file) # None THEN Refuse(FileError(document.file))
       ELSE import' = "document" /\ UNCHANGED <<imported, error, findings>>
    /\ UNCHANGED document

\* The components are looked at after the document.
CheckDocument ==
    /\ import = "document"
    /\ IF FirstOf(DocumentErrors) # None THEN Refuse(FirstOf(DocumentErrors))
       ELSE import' = "components" /\ UNCHANGED <<imported, error, findings>>
    /\ UNCHANGED document

ReadComponent ==
    /\ import = "components" /\ Len(imported) < Len(document.components)
    /\ LET item == document.components[Len(imported) + 1]
           reason == FirstOf(ComponentErrors(item))
       IN IF reason # None THEN Refuse(reason)
          ELSE imported' = Append(imported, ComponentOf(item)) /\ UNCHANGED <<import, error, findings>>
    /\ UNCHANGED document

\* emba_report_to_envelope
MatchInventory ==
    /\ import = "components" /\ Len(imported) = Len(document.components)
    /\ import' = "ok"
    /\ findings' = FindingsOf(imported)
    /\ UNCHANGED <<document, imported, error>>

Imported == import \in {"ok", "warning", "raised"} /\ UNCHANGED embaVars

EmbaNext == LoadReport \/ CheckDocument \/ ReadComponent \/ MatchInventory \/ Imported

EmbaSpec == EmbaInit /\ [][EmbaNext]_embaVars

-----------------------------------------------------------------------------

IsText(field) == field \notin {Missing, Odd, Blank}

\* What is verified of a document, whatever it is that fails first: what says that
\* it is one of EMBA's, each component, and their references.
ItemFits(item) ==
    /\ item.shape = Wanted
    /\ IsText(item.ref) /\ IsText(item.name) /\ IsText(item.type)
    /\ Odd \notin {item.version, item.publisher, item.purl}
    /\ IsText(item.publisher) \/ item.supplier # Odd

HeaderFits ==
    /\ {document.file, document.root, document.schema, document.bomFormat, document.specVersion,
        document.version, document.metadata, document.toolsObject, document.toolsArray,
        document.dependencies, document.vulnerabilities, document.componentsArray} = {Wanted}
    /\ IsText(document.serialNumber) /\ IsText(document.timestamp)
    /\ \E i \in DOMAIN document.tools :
          /\ document.tools[i].shape = Wanted
          /\ document.tools[i].name = Wanted /\ document.tools[i].author = Wanted
          /\ IsText(document.tools[i].version)
          /\ \A j \in 1 .. i - 1 :
                document.tools[j].shape # Odd /\ document.tools[j].name \notin {Wanted, Odd}
ComponentsFit ==
    \A i, j \in DOMAIN document.components :
       /\ ItemFits(document.components[i])
       /\ document.components[i].ref = document.components[j].ref => i = j
Verified == HeaderFits /\ ComponentsFit

\* An import is all or nothing, and fails closed: a document of the verified shape is
\* imported with every component, each with a reference of its own, in their order; of
\* any other, from a file that is no JSON to one field of one component, not one
\* component and not one finding is left, only an error ("deliberately rejects other
\* report shapes", emba.py): in the envelope, unless the file itself raised what no
\* handler names.
EmbaFailsClosed ==
    /\ import = "ok" =>
          /\ Verified /\ error = None
          /\ imported = [i \in DOMAIN document.components |-> ComponentOf(document.components[i])]
    /\ import \in {"warning", "raised"} =>
          /\ ~Verified /\ error # None /\ imported = <<>> /\ findings = {}
          /\ import = "raised" <=> document.file \in Nat \ {Wanted}

\* Every CVE of a component is one finding, and the PRisk it is given is never above
\* the component's own, and is the component's own unless the release is listed
\* twice, under two types.
FindingsScored ==
    import = "ok" =>
        /\ {<<f.component, f.cve>> : f \in findings}
             = UNION {{i} \X Lookup(imported[i]) : i \in DOMAIN imported}
        /\ \A f \in findings :
             LET own == imported[f.component]
                 twins == {i \in MatchesOf(imported) : SameRelease(imported[i], own)}
             IN /\ f.prisk <= Score(own)
                /\ twins = {f.component} => f.prisk = Score(own)
=============================================================================
