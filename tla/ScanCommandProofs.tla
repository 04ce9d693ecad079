-------------------------- MODULE ScanCommandProofs --------------------------
(***************************************************************************)
(* First for any number of commands that export to one SBOM (SbomWriter):  *)
(* its file is always a whole document.  TargetWhole is not inductive as   *)
(* it stands: a move is safe because the file that is moved is whole, a    *)
(* file can be removed because its name is known by then, and a document   *)
(* is published exactly by the move of its writer.  Sound(w) says so of    *)
(* one writer.                                                             *)
(*                                                                         *)
(* Then for the command `scan`, whatever it analyses: every step of it is  *)
(* one of a writer or leaves the SBOM alone, its exit status tells what    *)
(* there is, and its report comes last.  What holds at the end rests on    *)
(* what the options and the files are at each stage before.                *)
(*                                                                         *)
(* Then for what is in that report: the order of components is a strict    *)
(* and total one, so that the ranking exists and moves each of them once;  *)
(* the dictionary of _reenrich has a record of every CVE; and between the  *)
(* two every list stays a list of matches.  AnalysisInv says so.           *)
(*                                                                         *)
(* Then for the scores in it. The lists that the lookup builds, element    *)
(* by element, are recursive functions, and what they end with is shown    *)
(* by induction (UpToInduction): the queries have every CVE once. So a     *)
(* CVE is in one query only, and LookupInv says that the dictionary has    *)
(* what the queries brought that did not fail, and the records what it     *)
(* has.                                                                    *)
(*                                                                         *)
(* Then for the zero-day triage of any inventory against any matches: a    *)
(* candidate is near a known vulnerability, is as sure as the nearest says *)
(* it is, and the surest come first.                                       *)
(*                                                                         *)
(* Last for the SBOM of any inventory: the components ascend, which a set  *)
(* can do in one way only (AscendsOnce), and BomInv says which pairs have  *)
(* been resolved and what has been grouped of them.                        *)
(***************************************************************************)
EXTENDS ScanCommand, ZeroDay, Bom, SequenceTheorems, FiniteSetTheorems, FunctionTheorems,
        WellFoundedInduction, NaturalsInduction, TLAPS

Sound(w) ==
    /\ writer[w] = "replace" => temp[w] = "whole"
    /\ writer[w] \in {"idle", "create", "unlink", "written"} => temp[w] = "none"
    /\ writer[w] \in {"close", "replace", "unlink", "unlink failed"} => known[w]
    /\ temp[w] = "whole" => known[w]
    /\ writer[w] \in {"idle", "create", "write"} => ~known[w]
    /\ writer[w] = "raised" => ~known[w] \/ temp[w] = "none"
    /\ w \in published => temp[w] = "none"
    /\ writer[w] \in {"unlink", "written"} => w \in published
    /\ writer[w] \notin {"unlink", "written", "unremoved", "killed"} => w \notin published

TargetPublished ==
    /\ target \in Writer \cup {OldDocument}
    /\ target # OldDocument => target \in published

\* What every step keeps.
WriterInv ==
    /\ WriterTypeOK
    /\ TargetPublished
    /\ \A w \in Writer : Sound(w)

-----------------------------------------------------------------------------

\* A step of one writer changes nothing that another one's soundness is about.
LEMMA OthersStaySound ==
    ASSUME NEW v \in Writer, Sound(v),
           temp'[v] = temp[v], known'[v] = known[v], writer'[v] = writer[v],
           v \in published' <=> v \in published
    PROVE  Sound(v)'
BY DEF Sound

\* What a step of w does to the other writers, and that is enough for all.
LEMMA OneWriterMoves ==
    ASSUME WriterInv, NEW w \in Writer, Sound(w)', WriterTypeOK', TargetPublished',
           \A v \in Writer \ {w} : /\ temp'[v] = temp[v] /\ known'[v] = known[v]
                                   /\ writer'[v] = writer[v]
                                   /\ v \in published' <=> v \in published
    PROVE  WriterInv'
<1>1. ASSUME NEW v \in Writer PROVE Sound(v)'
  <2>1. CASE v = w
    BY <2>1
  <2>2. CASE v # w
    BY <2>2, OthersStaySound DEF WriterInv
  <2>3. QED
    BY <2>1, <2>2
<1>2. QED
    BY <1>1 DEF WriterInv

\* The commands start in the invariant.
LEMMA WriterInitHolds == WriterInit => WriterInv
BY SbomWriterAssumption DEF WriterInit, WriterInv, WriterTypeOK, TargetPublished, Sound, Running

\* A step is that of one writer, which stays sound; the rest follows by OneWriterMoves.
LEMMA WriterStepKeepsInv ==
    ASSUME WriterInv, [WriterNext]_writerVars
    PROVE  WriterInv'
<1>1. ASSUME NEW w \in Writer, BuildBom(w) PROVE WriterInv'
  <2> Sound(w) /\ WriterTypeOK /\ TargetPublished
    BY DEF WriterInv
  <2>1. WriterTypeOK'
    BY <1>1 DEF BuildBom, Goto, WriterTypeOK, Running
  <2>2. TargetPublished'
    BY <1>1 DEF BuildBom, TargetPublished
  <2>3. Sound(w)'
    BY <1>1 DEF BuildBom, Goto, WriterTypeOK, Sound
  <2>4. QED
    BY <1>1, <2>1, <2>2, <2>3, OneWriterMoves DEF BuildBom, Goto, WriterTypeOK
<1>2. ASSUME NEW w \in Writer, CreateTemporary(w) PROVE WriterInv'
  <2> Sound(w) /\ WriterTypeOK /\ TargetPublished
    BY DEF WriterInv
  <2>1. WriterTypeOK'
    BY <1>2 DEF CreateTemporary, Goto, WriterTypeOK, Running
  <2>2. TargetPublished'
    BY <1>2 DEF CreateTemporary, TargetPublished
  <2>3. Sound(w)'
    BY <1>2 DEF CreateTemporary, Goto, WriterTypeOK, Sound
  <2>4. QED
    BY <1>2, <2>1, <2>2, <2>3, OneWriterMoves DEF CreateTemporary, Goto, WriterTypeOK
<1>3. ASSUME NEW w \in Writer, WriteContent(w) PROVE WriterInv'
  <2> Sound(w) /\ WriterTypeOK /\ TargetPublished
    BY DEF WriterInv
  <2>1. WriterTypeOK'
    BY <1>3 DEF WriteContent, Goto, WriterTypeOK, Running
  <2>2. TargetPublished'
    BY <1>3 DEF WriteContent, TargetPublished
  <2>3. Sound(w)'
    <3>1. temp' = temp /\ published' = published /\ temp[w] # "whole" /\ w \notin published
      BY <1>3 DEF WriteContent, Sound
    <3>2. CASE known' = [known EXCEPT ![w] = TRUE] /\ Goto(w, "close")
      BY <3>1, <3>2 DEF Goto, WriterTypeOK, Sound
    <3>3. CASE UNCHANGED known /\ Goto(w, "raised")
      BY <1>3, <3>1, <3>3 DEF WriteContent, Goto, WriterTypeOK, Sound
    <3>4. QED
      BY <1>3, <3>2, <3>3 DEF WriteContent
  <2>4. QED
    BY <1>3, <2>1, <2>2, <2>3, OneWriterMoves DEF WriteContent, Goto, WriterTypeOK
<1>4. ASSUME NEW w \in Writer, CloseStream(w) PROVE WriterInv'
  <2> Sound(w) /\ WriterTypeOK /\ TargetPublished
    BY DEF WriterInv
  <2>1. WriterTypeOK'
    BY <1>4 DEF CloseStream, Goto, WriterTypeOK, Running
  <2>2. TargetPublished'
    BY <1>4 DEF CloseStream, TargetPublished
  <2>3. Sound(w)'
    BY <1>4 DEF CloseStream, Goto, WriterTypeOK, Sound
  <2>4. QED
    BY <1>4, <2>1, <2>2, <2>3, OneWriterMoves DEF CloseStream, Goto, WriterTypeOK
<1>5. ASSUME NEW w \in Writer, Replace(w) PROVE WriterInv'
  <2> Sound(w) /\ WriterTypeOK /\ TargetPublished
    BY DEF WriterInv
  <2>1. Moved(w) = w
    BY <1>5 DEF Replace, Moved, Sound
  <2>2. WriterTypeOK'
    <3>1. /\ target' \in {target, w}
          /\ published' = published \/ published' = published \cup {w}
      BY <1>5, <2>1 DEF Replace
    <3>2. /\ temp' \in [Writer -> {"none", "part", "whole"}]
          /\ known' \in [Writer -> BOOLEAN]
      <4>1. /\ temp' = temp \/ temp' = [temp EXCEPT ![w] = "none"]
            /\ known' = known
        BY <1>5 DEF Replace
      <4>2. /\ temp \in [Writer -> {"none", "part", "whole"}]
            /\ known \in [Writer -> BOOLEAN]
        BY DEF WriterTypeOK
      <4>3. temp' \in [Writer -> {"none", "part", "whole"}]
        BY ONLY <4>1, <4>2
      <4> QED BY ONLY <4>1, <4>2, <4>3
    <3>3. writer' \in [Writer -> Running \cup {"idle", "written", "raised", "unremoved", "killed"}]
      <4>1. \E place \in {"unlink", "unlink failed"} : writer' = [writer EXCEPT ![w] = place]
        BY <1>5 DEF Replace, Goto
      <4>2. writer \in [Writer -> Running \cup {"idle", "written", "raised", "unremoved", "killed"}]
        BY DEF WriterTypeOK
      <4>3. {"unlink", "unlink failed"} \subseteq Running
        BY DEF Running
      <4> QED BY ONLY <4>1, <4>2, <4>3
    <3>4. QED
      BY <3>1, <3>2, <3>3 DEF WriterTypeOK
  <2>3. TargetPublished'
    BY <1>5, <2>1 DEF Replace, TargetPublished
  <2>4. Sound(w)'
    <3>1. CASE Goto(w, "unlink")
      BY <1>5, <2>1, <3>1 DEF Replace, Goto, WriterTypeOK, Sound
    <3>2. CASE UNCHANGED <<target, temp, published>> /\ Goto(w, "unlink failed")
      BY <1>5, <3>2 DEF Replace, Goto, WriterTypeOK, Sound
    <3>3. QED
      BY <1>5, <3>1, <3>2 DEF Replace
  <2>5. QED
    BY <1>5, <2>1, <2>2, <2>3, <2>4, OneWriterMoves DEF Replace, Goto, WriterTypeOK
<1>6. ASSUME NEW w \in Writer, Unlink(w) PROVE WriterInv'
  <2> Sound(w) /\ WriterTypeOK /\ TargetPublished
    BY DEF WriterInv
  <2>1. WriterTypeOK'
    <3>1. temp' \in [Writer -> {"none", "part", "whole"}]
      BY <1>6 DEF Unlink, WriterTypeOK
    <3>2. writer' \in [Writer -> Running \cup {"idle", "written", "raised", "unremoved", "killed"}]
      BY <1>6 DEF Unlink, Goto, WriterTypeOK
    <3>3. UNCHANGED <<target, known, published>>
      BY <1>6 DEF Unlink
    <3>4. QED
      BY <3>1, <3>2, <3>3 DEF WriterTypeOK
  <2>2. TargetPublished'
    BY <1>6 DEF Unlink, TargetPublished
  <2>3. Sound(w)'
    <3>1. known[w] /\ known' = known /\ published' = published
      BY <1>6 DEF Unlink, Sound
    <3>2. CASE UNCHANGED temp /\ Goto(w, "unremoved")
      BY <1>6, <3>1, <3>2 DEF Unlink, Goto, WriterTypeOK, Sound
    <3>3. CASE /\ temp' = [temp EXCEPT ![w] = "none"]
               /\ Goto(w, IF writer[w] = "unlink" THEN "written" ELSE "raised")
      BY <1>6, <3>1, <3>3 DEF Unlink, Goto, WriterTypeOK, Sound
    <3>4. QED
      BY <1>6, <3>1, <3>2, <3>3 DEF Unlink
  <2>4. QED
    BY <1>6, <2>1, <2>2, <2>3, OneWriterMoves DEF Unlink, Goto, WriterTypeOK
<1>7. ASSUME NEW w \in Writer, Killed(w) PROVE WriterInv'
  <2> Sound(w) /\ WriterTypeOK /\ TargetPublished
    BY DEF WriterInv
  <2>1. WriterTypeOK'
    BY <1>7 DEF Killed, Goto, WriterTypeOK, Running
  <2>2. TargetPublished'
    BY <1>7 DEF Killed, TargetPublished
  <2>3. Sound(w)'
    BY <1>7 DEF Killed, Goto, WriterTypeOK, Sound, Running
  <2>4. QED
    BY <1>7, <2>1, <2>2, <2>3, OneWriterMoves DEF Killed, Goto, WriterTypeOK
<1>8. CASE UNCHANGED writerVars
    BY <1>8 DEF writerVars, WriterInv, WriterTypeOK, TargetPublished, Sound
<1>9. QED
    BY <1>1, <1>2, <1>3, <1>4, <1>5, <1>6, <1>7, <1>8 DEF WriterNext, WriterStep

\* The invariant holds whoever writes, fails or is killed.
LEMMA WriterInvariant == WriterSpec => []WriterInv
<1>1. WriterInit => WriterInv
    BY WriterInitHolds
<1>2. WriterInv /\ [WriterNext]_writerVars => WriterInv'
    BY WriterStepKeepsInv
<1>3. QED
    BY <1>1, <1>2, PTL DEF WriterSpec

-----------------------------------------------------------------------------

\* A reader of the target finds the old document or a whole one, for any number of
\* commands that write, fail and are killed at once (write_cyclonedx_bom).
THEOREM TargetAlwaysWhole == WriterSpec => []TargetWhole
<1>1. WriterInv => TargetWhole
    BY DEF WriterInv, TargetPublished, Sound, TargetWhole
<1>2. QED
    BY <1>1, WriterInvariant, PTL

\* Once its document is published a command has no file beside the target, killed or
\* not, and whatever becomes of the removal; a file that stays is of a command that was
\* killed, could not remove it, or failed before its name was kept.
THEOREM LeftoversExplained == WriterSpec => []LeftoverExplained
<1>1. WriterInv => LeftoverExplained
    BY DEF WriterInv, WriterTypeOK, Sound, LeftoverExplained
<1>2. QED
    BY <1>1, WriterInvariant, PTL

-----------------------------------------------------------------------------
(* The command: what holds at each stage.                                   *)

ReportStages == {"input", "parse", "match", "enrich", "chart", "report", "fill", "tell"}
ScanStages == {"options", "inventory", "vex", "write", "note", "envelope", "import",
               "print", "end", "over"} \cup ReportStages

\* The options that lead to a stage.
Route ==
    /\ options \in Options
    /\ stage \in ScanStages
    /\ stage = "over" <=> status # NoStatus
    /\ stage \in {"inventory", "vex", "write", "note"} => options.sbom
    /\ stage = "envelope" => options.json
    /\ stage = "import" => options.json /\ ~options.sbom
    /\ stage \in ReportStages => ~options.json /\ ~options.sbom

\* The writer has not begun before its stage, and has published after it.
Exported ==
    /\ stage \notin {"write", "note", "envelope", "print", "end", "over"} => writer[Self] = "idle"
    /\ stage \in {"note", "envelope"} /\ options.sbom => Self \in published

\* The chart and the report are the old ones before their stages.
Files ==
    /\ stage \notin {"report", "fill", "tell", "print", "end", "over"} => chart = "old"
    /\ stage \notin {"fill", "tell", "end", "over"} => report = "old"
    /\ stage = "fill" => report = "part" /\ options.output = "file"
    /\ stage = "tell" => report = "whole" /\ options.output = "file"
    /\ stage \in {"report", "fill"} /\ options.output = "file" /\ matches # <<>> => chart = "whole"

\* Nothing is printed before there is something to print, and what is there when the
\* command returns is the whole of what was asked for.
Printed ==
    /\ stage \notin {"print", "end", "over"} => reply = "none"
    /\ stage \notin {"end", "over"} => stdout = <<>> /\ ~empty
    /\ stage = "print" =>
          \/ options.json /\ reply \in {"ok", "warning"}
          \/ ~options.json /\ ~options.sbom /\ options.output = "-" /\ reply = "report"
    /\ stage = "end" => Done

\* A sequence, whatever its elements.
IsList(s) == \E S : s \in Seq(S)

\* The language model has been asked for as many as there are, at most.
Told ==
    /\ IsList(narratives) /\ IsList(matches)
    /\ pc \notin {"narrate", "reported", "raised"} => narratives = <<>>
    /\ Len(narratives) <= TopN /\ Len(narratives) <= Len(matches)
    /\ pc = "reported" => ~MoreNarratives
    /\ stage \in {"chart", "report", "fill", "tell"} => pc = "reported"

CommandInv == Route /\ Exported /\ Files /\ Printed /\ Told /\ OutcomeTold /\ ReportLast

-----------------------------------------------------------------------------
(* Lists.                                                                   *)

\* A list has a length.
LEMMA ListLength ==
    ASSUME NEW s, IsList(s)
    PROVE  Len(s) \in Nat /\ DOMAIN s = 1 .. Len(s)
<1>1. PICK S : s \in Seq(S)
    BY DEF IsList
<1>2. QED
    BY <1>1, LenProperties

\* What has the positions of a list is a list of its length.
LEMMA SameDomainList ==
    ASSUME NEW s, IsList(s), NEW f, DOMAIN f = DOMAIN s, f = [i \in DOMAIN f |-> f[i]]
    PROVE  IsList(f) /\ Len(f) = Len(s)
<1> DEFINE S == {f[i] : i \in DOMAIN f}
<1>1. Len(s) \in Nat /\ DOMAIN f = 1 .. Len(s)
    BY ListLength
<1>2. f \in [1 .. Len(s) -> S]
    BY <1>1
<1>3. f \in Seq(S)
    BY <1>1, <1>2, SeqDef
<1>4. DOMAIN f = 1 .. Len(f) /\ Len(f) \in Nat
    BY <1>3, LenProperties
<1>5. Len(f) = Len(s)
    BY <1>1, <1>4
<1>6. QED
    BY <1>3, <1>5 DEF IsList

\* Ranking keeps the length.
LEMMA RankedList ==
    ASSUME NEW ms, IsList(ms)
    PROVE  IsList(Ranked(ms)) /\ Len(Ranked(ms)) = Len(ms)
<1>1. DOMAIN Ranked(ms) = DOMAIN ms /\ Ranked(ms) = [i \in DOMAIN Ranked(ms) |-> Ranked(ms)[i]]
    BY DEF Ranked
<1>2. QED
    BY <1>1, SameDomainList

\* Joining the records back keeps the length.
LEMMA ReenrichedList ==
    ASSUME NEW ms, IsList(ms), NEW records
    PROVE  IsList(Reenriched(ms, records)) /\ Len(Reenriched(ms, records)) = Len(ms)
<1>1. /\ DOMAIN Reenriched(ms, records) = DOMAIN ms
      /\ Reenriched(ms, records) =
            [i \in DOMAIN Reenriched(ms, records) |-> Reenriched(ms, records)[i]]
    BY DEF Reenriched
<1>2. QED
    BY <1>1, SameDomainList

\* One more is one longer.
LEMMA AppendedList ==
    ASSUME NEW s, IsList(s), NEW e
    PROVE  IsList(Append(s, e)) /\ Len(Append(s, e)) = Len(s) + 1
<1>1. PICK S : s \in Seq(S)
    BY DEF IsList
<1>2. s \in Seq(S \cup {e})
    BY <1>1, SeqMonotonic
<1>3. Append(s, e) \in Seq(S \cup {e}) /\ Len(Append(s, e)) = Len(s) + 1
    BY <1>2, AppendProperties
<1>4. QED
    BY <1>3 DEF IsList
-----------------------------------------------------------------------------
(* Steps.                                                                   *)

\* What the SBOM has to do with a step of the command.
LEMMA StepOfWriter ==
    ASSUME [Next]_vars
    PROVE  [WriterNext]_writerVars
<1>1. CASE CheckOptions
    BY <1>1 DEF CheckOptions
<1>2. CASE InventoryPayload
    BY <1>2 DEF InventoryPayload
<1>3. CASE ResolveVulnerabilities
    BY <1>3 DEF ResolveVulnerabilities
<1>4. CASE WriteSbom
    BY <1>4, ScanCommandAssumption DEF WriteSbom, WriterNext
<1>5. CASE SbomOver
    BY <1>5 DEF SbomOver
<1>6. CASE NoteSbom
    BY <1>6 DEF NoteSbom
<1>7. CASE ScanPayload
    BY <1>7 DEF ScanPayload
<1>8. CASE ImportReport
    BY <1>8 DEF ImportReport
<1>9. CASE PrintReply
    BY <1>9 DEF PrintReply
<1>10. CASE Return
    BY <1>10 DEF Return
<1>11. CASE CheckInput
    BY <1>11 DEF CheckInput
<1>12. CASE ParseInput
    BY <1>12 DEF ParseInput
<1>13. CASE MatchInventory
    BY <1>13 DEF MatchInventory
<1>14. CASE Enrich
    BY <1>14 DEF Enrich
<1>15. CASE EnrichmentOver
    BY <1>15 DEF EnrichmentOver
<1>16. CASE RenderChart
    BY <1>16 DEF RenderChart
<1>17. CASE OpenReport
    BY <1>17 DEF OpenReport
<1>18. CASE FillReport
    BY <1>18 DEF FillReport
<1>19. CASE TellReport
    BY <1>19 DEF TellReport
<1>20. CASE Kill
    BY <1>20, ScanCommandAssumption DEF Kill, WriterNext, WriterStep
<1>21. CASE OtherWrites
    BY <1>21 DEF OtherWrites, WriterNext
<1>22. CASE Ended
    BY <1>22 DEF Ended, vars
<1>23. CASE UNCHANGED vars
    BY <1>23 DEF vars
<1>24. QED
    BY <1>1, <1>2, <1>3, <1>4, <1>5, <1>6, <1>7, <1>8, <1>9, <1>10, <1>11, <1>12, <1>13,
       <1>14, <1>15, <1>16, <1>17, <1>18, <1>19, <1>20, <1>21, <1>22, <1>23 DEF Next

\* A step of another writer leaves this one and what it has published alone.
LEMMA OtherWriter ==
    ASSUME WriterInv, NEW w \in Writer \ {Self}, WriterStep(w)
    PROVE  writer'[Self] = writer[Self] /\ (Self \in published' <=> Self \in published)
<1>1. writer'[Self] = writer[Self]
  <2>1. \E place : Goto(w, place)
    BY DEF WriterStep, BuildBom, CreateTemporary, WriteContent, CloseStream, Replace, Unlink, Killed
  <2>2. \E S : writer \in [Writer -> S]
    BY DEF WriterInv, WriterTypeOK
  <2> QED BY ScanCommandAssumption, <2>1, <2>2 DEF Goto
<1>2. CASE Replace(w)
  <2>1. writer[w] = "replace" => Moved(w) = w
    BY DEF WriterInv, Sound, Moved
  <2>2. QED
    BY <1>1, <1>2, <2>1 DEF Replace
<1>3. CASE ~Replace(w)
    BY <1>1, <1>3 DEF WriterStep, BuildBom, CreateTemporary, WriteContent, CloseStream, Unlink, Killed
<1>4. QED
    BY <1>2, <1>3

\* What has been published stays so, and a writer that has not begun has published nothing.
LEMMA OwnWriter ==
    ASSUME WriterInv
    PROVE  /\ writer[Self] = "idle" => Self \notin published
           /\ writer[Self] = "written" => Self \in published
BY ScanCommandAssumption DEF WriterInv, Sound

\* The stage follows the options.
LEMMA StepKeepsRoute ==
    ASSUME Route, [Next]_vars
    PROVE  Route'
<1>1. CASE CheckOptions
    BY <1>1 DEF CheckOptions, ReadsStdin, Task, GoOn, Exit, Silent, Unenriched, At, Route, Options, ScanStages, ReportStages, NoStatus
<1>2. CASE InventoryPayload
    BY <1>2 DEF InventoryPayload, GoOn, Exit, Unenriched, At, Route, Options, ScanStages, ReportStages, NoStatus
<1>3. CASE ResolveVulnerabilities
    BY <1>3 DEF ResolveVulnerabilities, GoOn, Exit, Silent, Unenriched, At, Route, Options, ScanStages, ReportStages, NoStatus
<1>4. CASE WriteSbom
    BY <1>4 DEF WriteSbom, commandVars, At, Route, Options, ScanStages, ReportStages, NoStatus
<1>5. CASE SbomOver
    BY <1>5 DEF SbomOver, GoOn, Exit, Silent, Unenriched, At, Route, Options, ScanStages, ReportStages, NoStatus
<1>6. CASE NoteSbom
    BY <1>6 DEF NoteSbom, Echo, GoOn, Exit, Unenriched, At, Route, Options, ScanStages, ReportStages, NoStatus
<1>7. CASE ScanPayload
    BY <1>7 DEF ScanPayload, GoOn, Exit, Unenriched, At, Route, Options, ScanStages, ReportStages, NoStatus
<1>8. CASE ImportReport
    BY <1>8 DEF ImportReport, GoOn, Exit, Unenriched, At, Route, Options, ScanStages, ReportStages, NoStatus
<1>9. CASE PrintReply
    BY <1>9 DEF PrintReply, Echo, GoOn, Exit, Unenriched, At, Route, Options, ScanStages, ReportStages, NoStatus
<1>10. CASE Return
    BY <1>10 DEF Return, Exit, Silent, Unenriched, At, Route, Options, ScanStages, ReportStages, NoStatus
<1>11. CASE CheckInput
    BY <1>11 DEF CheckInput, GoOn, Exit, Silent, Unenriched, At, Route, Options, ScanStages, ReportStages, NoStatus
<1>12. CASE ParseInput
    BY <1>12 DEF ParseInput, GoOn, Exit, At, Route, Options, ScanStages, ReportStages, NoStatus
<1>13. CASE MatchInventory
    BY <1>13 DEF MatchInventory, MatchComponents, GoOn, Exit, At, Route, Options, ScanStages, ReportStages, NoStatus
<1>14. CASE Enrich
    BY <1>14 DEF Enrich, commandVars, At, Route, Options, ScanStages, ReportStages, NoStatus
<1>15. CASE EnrichmentOver
    BY <1>15 DEF EnrichmentOver, GoOn, Exit, Silent, Unenriched, At, Route, Options, ScanStages, ReportStages, NoStatus
<1>16. CASE RenderChart
    BY <1>16 DEF RenderChart, GoOn, Exit, At, Route, Options, ScanStages, ReportStages, NoStatus
<1>17. CASE OpenReport
    BY <1>17 DEF OpenReport, GoOn, Exit, At, Route, Options, ScanStages, ReportStages, NoStatus
<1>18. CASE FillReport
    BY <1>18 DEF FillReport, GoOn, Exit, Silent, At, Route, Options, ScanStages, ReportStages, NoStatus
<1>19. CASE TellReport
    BY <1>19 DEF TellReport, GoOn, Exit, Silent, Unenriched, At, Route, Options, ScanStages, ReportStages, NoStatus
<1>20. CASE Kill
    BY <1>20 DEF Kill, Exit, SIGKILL, At, Route, Options, ScanStages, ReportStages, NoStatus
<1>21. CASE OtherWrites
    BY <1>21 DEF OtherWrites, commandVars, At, Route, Options, ScanStages, ReportStages, NoStatus
<1>22. CASE Ended
    BY <1>22 DEF Ended, vars, commandVars, At, Route, Options, ScanStages, ReportStages, NoStatus
<1>23. CASE UNCHANGED vars
    BY <1>23 DEF vars, commandVars, Route, Options, ScanStages, ReportStages, NoStatus
<1>24. QED
    BY <1>1, <1>2, <1>3, <1>4, <1>5, <1>6, <1>7, <1>8, <1>9, <1>10, <1>11, <1>12, <1>13,
       <1>14, <1>15, <1>16, <1>17, <1>18, <1>19, <1>20, <1>21, <1>22, <1>23 DEF Next

\* Only its own stage moves the writer.
LEMMA StepKeepsExported ==
    ASSUME Route, Exported, WriterInv, [Next]_vars
    PROVE  Exported'
<1>1. CASE CheckOptions
    BY <1>1 DEF CheckOptions, ReadsStdin, Task, GoOn, Exit, Silent, Unenriched, At, writerVars, Exported
<1>2. CASE InventoryPayload
    BY <1>2 DEF InventoryPayload, GoOn, Exit, Unenriched, At, writerVars, Exported
<1>3. CASE ResolveVulnerabilities
    BY <1>3 DEF ResolveVulnerabilities, GoOn, Exit, Silent, Unenriched, At, writerVars, Exported
<1>4. CASE WriteSbom
    BY <1>4 DEF WriteSbom, commandVars, At, writerVars, Exported
<1>5. CASE SbomOver
    BY <1>5, OwnWriter DEF SbomOver, GoOn, Exit, Silent, Unenriched, At, writerVars, Exported
<1>6. CASE NoteSbom
    BY <1>6 DEF NoteSbom, Echo, GoOn, Exit, Unenriched, At, writerVars, Exported
<1>7. CASE ScanPayload
    BY <1>7 DEF ScanPayload, GoOn, Exit, Unenriched, At, writerVars, Exported
<1>8. CASE ImportReport
    BY <1>8 DEF ImportReport, GoOn, Exit, Unenriched, At, writerVars, Exported
<1>9. CASE PrintReply
    BY <1>9 DEF PrintReply, Echo, GoOn, Exit, Unenriched, At, writerVars, Exported
<1>10. CASE Return
    BY <1>10 DEF Return, Exit, Silent, Unenriched, At, writerVars, Exported
<1>11. CASE CheckInput
    BY <1>11 DEF CheckInput, GoOn, Exit, Silent, Unenriched, At, writerVars, Exported
<1>12. CASE ParseInput
    BY <1>12 DEF ParseInput, GoOn, Exit, At, writerVars, Exported
<1>13. CASE MatchInventory
    BY <1>13 DEF MatchInventory, MatchComponents, GoOn, Exit, At, writerVars, Exported
<1>14. CASE Enrich
    BY <1>14 DEF Enrich, commandVars, At, writerVars, Exported
<1>15. CASE EnrichmentOver
    BY <1>15 DEF EnrichmentOver, GoOn, Exit, Silent, Unenriched, At, writerVars, Exported
<1>16. CASE RenderChart
    BY <1>16 DEF RenderChart, GoOn, Exit, At, writerVars, Exported
<1>17. CASE OpenReport
    BY <1>17 DEF OpenReport, GoOn, Exit, At, writerVars, Exported
<1>18. CASE FillReport
    BY <1>18 DEF FillReport, GoOn, Exit, Silent, At, writerVars, Exported
<1>19. CASE TellReport
    BY <1>19 DEF TellReport, GoOn, Exit, Silent, Unenriched, At, writerVars, Exported
<1>20. CASE Kill
    BY <1>20 DEF Kill, Exit, Exported
<1>21. CASE OtherWrites
    BY <1>21, OtherWriter DEF OtherWrites, commandVars, At, writerVars, Exported
<1>22. CASE Ended
    BY <1>22 DEF Ended, vars, commandVars, At, writerVars, Exported
<1>23. CASE UNCHANGED vars
    BY <1>23 DEF vars, commandVars, writerVars, Exported
<1>24. QED
    BY <1>1, <1>2, <1>3, <1>4, <1>5, <1>6, <1>7, <1>8, <1>9, <1>10, <1>11, <1>12, <1>13,
       <1>14, <1>15, <1>16, <1>17, <1>18, <1>19, <1>20, <1>21, <1>22, <1>23 DEF Next

\* The files are written at their stages.
LEMMA StepKeepsFiles ==
    ASSUME Route, Files, [Next]_vars
    PROVE  Files'
<1>1. CASE CheckOptions
    BY <1>1 DEF CheckOptions, ReadsStdin, Task, GoOn, Exit, Silent, Unenriched, At, enrichmentVars, Files
<1>2. CASE InventoryPayload
    BY <1>2 DEF InventoryPayload, GoOn, Exit, Unenriched, At, enrichmentVars, Files
<1>3. CASE ResolveVulnerabilities
    BY <1>3 DEF ResolveVulnerabilities, GoOn, Exit, Silent, Unenriched, At, enrichmentVars, Files
<1>4. CASE WriteSbom
    BY <1>4 DEF WriteSbom, commandVars, At, enrichmentVars, Files
<1>5. CASE SbomOver
    BY <1>5 DEF SbomOver, GoOn, Exit, Silent, Unenriched, At, enrichmentVars, Files
<1>6. CASE NoteSbom
    BY <1>6 DEF NoteSbom, Echo, GoOn, Exit, Unenriched, At, enrichmentVars, Files
<1>7. CASE ScanPayload
    BY <1>7 DEF ScanPayload, GoOn, Exit, Unenriched, At, enrichmentVars, Files
<1>8. CASE ImportReport
    BY <1>8 DEF ImportReport, GoOn, Exit, Unenriched, At, enrichmentVars, Files
<1>9. CASE PrintReply
    BY <1>9 DEF PrintReply, Echo, GoOn, Exit, Unenriched, At, enrichmentVars, Files
<1>10. CASE Return
    BY <1>10 DEF Return, Exit, Silent, Unenriched, At, enrichmentVars, Files
<1>11. CASE CheckInput
    BY <1>11 DEF CheckInput, GoOn, Exit, Silent, Unenriched, At, enrichmentVars, Files
<1>12. CASE ParseInput
    BY <1>12 DEF ParseInput, GoOn, Exit, At, enrichmentVars, Files
<1>13. CASE MatchInventory
    BY <1>13 DEF MatchInventory, MatchComponents, GoOn, Exit, At, enrichmentVars, Files
<1>14. CASE Enrich
    BY <1>14 DEF Enrich, commandVars, At, enrichmentVars, Files
<1>15. CASE EnrichmentOver
    BY <1>15 DEF EnrichmentOver, GoOn, Exit, Silent, Unenriched, At, enrichmentVars, Files
<1>16. CASE RenderChart
    BY <1>16 DEF RenderChart, GoOn, Exit, At, enrichmentVars, Files
<1>17. CASE OpenReport
    BY <1>17 DEF OpenReport, GoOn, Exit, At, enrichmentVars, Files
<1>18. CASE FillReport
    BY <1>18 DEF FillReport, GoOn, Exit, Silent, At, enrichmentVars, Files
<1>19. CASE TellReport
    BY <1>19 DEF TellReport, GoOn, Exit, Silent, Unenriched, At, enrichmentVars, Files
<1>20. CASE Kill
    BY <1>20 DEF Kill, Exit, SIGKILL, At, enrichmentVars, Files
<1>21. CASE OtherWrites
    BY <1>21 DEF OtherWrites, commandVars, At, enrichmentVars, Files
<1>22. CASE Ended
    BY <1>22 DEF Ended, vars, commandVars, At, enrichmentVars, Files
<1>23. CASE UNCHANGED vars
    BY <1>23 DEF vars, commandVars, enrichmentVars, Files
<1>24. QED
    BY <1>1, <1>2, <1>3, <1>4, <1>5, <1>6, <1>7, <1>8, <1>9, <1>10, <1>11, <1>12, <1>13,
       <1>14, <1>15, <1>16, <1>17, <1>18, <1>19, <1>20, <1>21, <1>22, <1>23 DEF Next

\* What is printed on a stdout with nothing on it.
LEMMA FirstPrinted ==
    ASSUME NEW text, NEW next, stdout = <<>>, Echo(text, next)
    PROVE  \/ stdout' = <<text>> /\ GoOn(next)
           \/ stdout' \in {<<>>, <<"part">>, <<text>>} /\ Exit(1)
<1>1. \A e : Append(<<>>, e) = <<e>>
    OBVIOUS
<1>2. QED
    BY <1>1 DEF Echo

\* What is printed is what was asked for.
LEMMA StepKeepsPrinted ==
    ASSUME Route, Exported, Files, Printed, WriterInv, [Next]_vars
    PROVE  Printed'
<1>1. CASE CheckOptions
    BY <1>1 DEF CheckOptions, ReadsStdin, Task, GoOn, Exit, Silent, Unenriched, At, writerVars, Printed
<1>2. CASE InventoryPayload
    BY <1>2 DEF InventoryPayload, GoOn, Exit, Unenriched, At, writerVars, Printed
<1>3. CASE ResolveVulnerabilities
    BY <1>3 DEF ResolveVulnerabilities, GoOn, Exit, Silent, Unenriched, At, writerVars, Printed
<1>4. CASE WriteSbom
    BY <1>4 DEF WriteSbom, At, commandVars, Printed
<1>5. CASE SbomOver
    BY <1>5 DEF SbomOver, GoOn, Exit, Silent, Unenriched, At, writerVars, Printed
<1>6. CASE NoteSbom
  <2>1. CASE ~options.json
    BY <1>6, <2>1, FirstPrinted DEF NoteSbom, At, GoOn, Exit, Unenriched, writerVars, Printed, Done, Route, Exported
  <2>2. CASE options.json
    BY <1>6, <2>2 DEF NoteSbom, At, GoOn, Exit, Unenriched, Printed
  <2>3. QED
    BY <2>1, <2>2
<1>7. CASE ScanPayload
    BY <1>7 DEF ScanPayload, At, GoOn, Exit, Unenriched, Printed, Route
<1>8. CASE ImportReport
    BY <1>8 DEF ImportReport, At, GoOn, Exit, Unenriched, Printed, Route
<1>9. CASE PrintReply
    BY <1>9, FirstPrinted DEF PrintReply, At, GoOn, Exit, Unenriched, Printed, Done, Files
<1>10. CASE Return
    BY <1>10 DEF Return, Exit, Printed
<1>11. CASE CheckInput
    BY <1>11 DEF CheckInput, GoOn, Exit, Silent, Unenriched, At, writerVars, Printed
<1>12. CASE ParseInput
    BY <1>12 DEF ParseInput, At, GoOn, Exit, Printed, Done, Route, Files, ReportStages
<1>13. CASE MatchInventory
    BY <1>13 DEF MatchInventory, MatchComponents, GoOn, Exit, At, writerVars, Printed
<1>14. CASE Enrich
    BY <1>14 DEF Enrich, At, commandVars, Printed
<1>15. CASE EnrichmentOver
    BY <1>15 DEF EnrichmentOver, GoOn, Exit, Silent, Unenriched, At, writerVars, Printed
<1>16. CASE RenderChart
    BY <1>16 DEF RenderChart, GoOn, Exit, At, writerVars, Printed
<1>17. CASE OpenReport
    BY <1>17 DEF OpenReport, At, GoOn, Exit, Printed, Route, ReportStages
<1>18. CASE FillReport
    BY <1>18 DEF FillReport, GoOn, Exit, Silent, At, writerVars, Printed
<1>19. CASE TellReport
    BY <1>19 DEF TellReport, At, GoOn, Exit, Silent, Unenriched, Printed, Done, Route, Files, ReportStages
<1>20. CASE Kill
    BY <1>20 DEF Kill, Exit, Printed
<1>21. CASE OtherWrites
    BY <1>21, OtherWriter DEF OtherWrites, commandVars, Printed, Done
<1>22. CASE Ended
    BY <1>22 DEF Ended, At, vars, commandVars, Printed
<1>23. CASE UNCHANGED vars
    BY <1>23 DEF vars, commandVars, writerVars, Printed, Done
<1>24. QED
    BY <1>1, <1>2, <1>3, <1>4, <1>5, <1>6, <1>7, <1>8, <1>9, <1>10, <1>11, <1>12, <1>13,
       <1>14, <1>15, <1>16, <1>17, <1>18, <1>19, <1>20, <1>21, <1>22, <1>23 DEF Next

\* The lists stay lists, and the narratives within the matches.
LEMMA StepKeepsTold ==
    ASSUME Told, [Next]_vars
    PROVE  Told'
<1>1. CASE CheckOptions
    BY <1>1 DEF CheckOptions, ReadsStdin, Task, GoOn, Exit, Silent, Unenriched, At, enrichmentVars, Told, MoreNarratives
<1>2. CASE InventoryPayload
    BY <1>2 DEF InventoryPayload, GoOn, Exit, Unenriched, At, enrichmentVars, Told, MoreNarratives
<1>3. CASE ResolveVulnerabilities
    BY <1>3 DEF ResolveVulnerabilities, GoOn, Exit, Silent, Unenriched, At, enrichmentVars, Told, MoreNarratives
<1>4. CASE WriteSbom
    BY <1>4 DEF WriteSbom, commandVars, At, enrichmentVars, Told, MoreNarratives
<1>5. CASE SbomOver
    BY <1>5 DEF SbomOver, GoOn, Exit, Silent, Unenriched, At, enrichmentVars, Told, MoreNarratives
<1>6. CASE NoteSbom
    BY <1>6 DEF NoteSbom, Echo, GoOn, Exit, Unenriched, At, enrichmentVars, Told, MoreNarratives
<1>7. CASE ScanPayload
    BY <1>7 DEF ScanPayload, GoOn, Exit, Unenriched, At, enrichmentVars, Told, MoreNarratives
<1>8. CASE ImportReport
    BY <1>8 DEF ImportReport, GoOn, Exit, Unenriched, At, enrichmentVars, Told, MoreNarratives
<1>9. CASE PrintReply
    BY <1>9 DEF PrintReply, Echo, GoOn, Exit, Unenriched, At, enrichmentVars, Told, MoreNarratives
<1>10. CASE Return
    BY <1>10 DEF Return, Exit, Silent, Unenriched, At, enrichmentVars, Told, MoreNarratives
<1>11. CASE CheckInput
    BY <1>11 DEF CheckInput, GoOn, Exit, Silent, Unenriched, At, enrichmentVars, Told, MoreNarratives
<1>12. CASE ParseInput
    BY <1>12 DEF ParseInput, GoOn, Exit, At, enrichmentVars, Told, MoreNarratives
<1>13. CASE MatchInventory
  <2>1. CASE UNCHANGED enrichmentVars /\ stage' = "over"
    BY <2>1 DEF enrichmentVars, Told, MoreNarratives
  <2>2. CASE MatchComponents /\ stage' = "enrich"
    <3>1. matches' \in Seq(ComponentMatch) /\ narratives' = narratives /\ narratives = <<>> /\ pc' = "epss"
      BY <2>2, EnrichmentAssumption DEF MatchComponents, Told
    <3>2. IsList(matches') /\ Len(matches') \in Nat
      BY <3>1, LenProperties DEF IsList
    <3>3. Len(narratives') = 0
      BY <3>1
    <3>4. QED
      BY <2>2, <3>1, <3>2, <3>3, EnrichmentAssumption DEF Told
  <2>3. QED
    BY <1>13, <2>1, <2>2 DEF MatchInventory, GoOn, Exit
<1>14. CASE Enrich
  <2> stage' = stage /\ stage = "enrich"
    BY <1>14 DEF Enrich, commandVars, At
  <2>1. CASE ChunkAnswered \/ ChunkFails
    BY <2>1 DEF ChunkAnswered, ChunkFails, Told
  <2>2. ASSUME NEW records, matches' \in {matches, Reenriched(matches, records)},
               UNCHANGED narratives, pc \notin {"narrate", "reported", "raised"}, pc' \in {"kev", "rank"}
        PROVE  Told'
    BY <2>2, ReenrichedList DEF Told
  <2>3. CASE EnrichWithEpss
    BY <2>2, <2>3 DEF EnrichWithEpss
  <2>4. CASE EnrichWithKev
    BY <2>2, <2>4 DEF EnrichWithKev
  <2>5. CASE Rank
    BY <2>5, RankedList DEF Rank, Told
  <2>6. CASE Narrate
    <3>1. CASE UNCHANGED narratives
      BY <2>6, <3>1 DEF Narrate, Told, MoreNarratives
    <3>2. CASE MoreNarratives /\ narratives' = Append(narratives, matches[Len(narratives) + 1]) /\ UNCHANGED pc
      <4>1. IsList(narratives') /\ Len(narratives') = Len(narratives) + 1
        BY <3>2, AppendedList DEF Told
      <4>2. Len(narratives') <= TopN /\ Len(narratives') <= Len(matches)
        BY <3>2, <4>1, ListLength, EnrichmentAssumption DEF MoreNarratives, Told
      <4>3. matches' = matches /\ pc' = "narrate"
        BY <2>6, <3>2 DEF Narrate
      <4>4. QED
        BY <4>1, <4>2, <4>3 DEF Told
    <3>3. QED
      BY <2>6, <3>1, <3>2 DEF Narrate
  <2>7. QED
    BY <1>14, <2>1, <2>3, <2>4, <2>5, <2>6 DEF Enrich, EnrichmentStep
<1>15. CASE EnrichmentOver
    BY <1>15 DEF EnrichmentOver, GoOn, Exit, Silent, Unenriched, At, enrichmentVars, Told, MoreNarratives
<1>16. CASE RenderChart
    BY <1>16 DEF RenderChart, GoOn, Exit, At, enrichmentVars, Told, MoreNarratives
<1>17. CASE OpenReport
    BY <1>17 DEF OpenReport, GoOn, Exit, At, enrichmentVars, Told, MoreNarratives
<1>18. CASE FillReport
    BY <1>18 DEF FillReport, GoOn, Exit, Silent, At, enrichmentVars, Told, MoreNarratives
<1>19. CASE TellReport
    BY <1>19 DEF TellReport, GoOn, Exit, Silent, Unenriched, At, enrichmentVars, Told, MoreNarratives
<1>20. CASE Kill
    BY <1>20 DEF Kill, Exit, SIGKILL, At, enrichmentVars, Told, MoreNarratives
<1>21. CASE OtherWrites
    BY <1>21 DEF OtherWrites, commandVars, At, enrichmentVars, Told, MoreNarratives
<1>22. CASE Ended
    BY <1>22 DEF Ended, vars, commandVars, At, enrichmentVars, Told, MoreNarratives
<1>23. CASE UNCHANGED vars
    BY <1>23 DEF vars, commandVars, enrichmentVars, Told, MoreNarratives
<1>24. QED
    BY <1>1, <1>2, <1>3, <1>4, <1>5, <1>6, <1>7, <1>8, <1>9, <1>10, <1>11, <1>12, <1>13,
       <1>14, <1>15, <1>16, <1>17, <1>18, <1>19, <1>20, <1>21, <1>22, <1>23 DEF Next

\* The end of a scan tells what there is, and stays the end.
LEMMA StepKeepsOutcome ==
    ASSUME Route, Exported, Files, Printed, OutcomeTold, WriterInv, [Next]_vars
    PROVE  OutcomeTold'
<1>1. CASE CheckOptions
    BY <1>1, OwnWriter DEF CheckOptions, ReadsStdin, Task, GoOn, Exit, Silent, Unenriched, At, writerVars, OutcomeTold, Route, Exported, Files, Printed, ReportStages, NoStatus
<1>2. CASE InventoryPayload
    BY <1>2, OwnWriter DEF InventoryPayload, GoOn, Exit, Unenriched, At, writerVars, OutcomeTold, Route, Exported, Files, Printed, ReportStages, NoStatus
<1>3. CASE ResolveVulnerabilities
    BY <1>3, OwnWriter DEF ResolveVulnerabilities, GoOn, Exit, Silent, Unenriched, At, writerVars, OutcomeTold, Route, Exported, Files, Printed, ReportStages, NoStatus
<1>4. CASE WriteSbom
    BY <1>4 DEF WriteSbom, commandVars, At, OutcomeTold, Route, NoStatus
<1>5. CASE SbomOver
    BY <1>5, OwnWriter DEF SbomOver, GoOn, Exit, Silent, Unenriched, At, writerVars, OutcomeTold, Route, Exported, Files, Printed, ReportStages, NoStatus
<1>6. CASE NoteSbom
    BY <1>6, FirstPrinted DEF NoteSbom, At, GoOn, Exit, Unenriched, OutcomeTold, Printed, Route, NoStatus
<1>7. CASE ScanPayload
    BY <1>7, OwnWriter DEF ScanPayload, GoOn, Exit, Unenriched, At, writerVars, OutcomeTold, Route, Exported, Files, Printed, ReportStages, NoStatus
<1>8. CASE ImportReport
    BY <1>8, OwnWriter DEF ImportReport, GoOn, Exit, Unenriched, At, writerVars, OutcomeTold, Route, Exported, Files, Printed, ReportStages, NoStatus
<1>9. CASE PrintReply
    BY <1>9, FirstPrinted DEF PrintReply, At, GoOn, Exit, Unenriched, OutcomeTold, Printed, Route, NoStatus
<1>10. CASE Return
    BY <1>10 DEF Return, At, Exit, Silent, Unenriched, writerVars, OutcomeTold, Printed, Done
<1>11. CASE CheckInput
    BY <1>11, OwnWriter DEF CheckInput, GoOn, Exit, Silent, Unenriched, At, writerVars, OutcomeTold, Route, Exported, Files, Printed, ReportStages, NoStatus
<1>12. CASE ParseInput
    BY <1>12, OwnWriter DEF ParseInput, GoOn, Exit, At, writerVars, OutcomeTold, Route, Exported, Files, Printed, ReportStages, NoStatus
<1>13. CASE MatchInventory
    BY <1>13, OwnWriter DEF MatchInventory, MatchComponents, GoOn, Exit, At, writerVars, OutcomeTold, Route, Exported, Files, Printed, ReportStages, NoStatus
<1>14. CASE Enrich
    BY <1>14 DEF Enrich, commandVars, At, OutcomeTold, Route, NoStatus
<1>15. CASE EnrichmentOver
    BY <1>15, OwnWriter DEF EnrichmentOver, GoOn, Exit, Silent, Unenriched, At, writerVars, OutcomeTold, Route, Exported, Files, Printed, ReportStages, NoStatus
<1>16. CASE RenderChart
    BY <1>16, OwnWriter DEF RenderChart, GoOn, Exit, At, writerVars, OutcomeTold, Route, Exported, Files, Printed, ReportStages, NoStatus
<1>17. CASE OpenReport
    BY <1>17, OwnWriter DEF OpenReport, GoOn, Exit, At, writerVars, OutcomeTold, Route, Exported, Files, Printed, ReportStages, NoStatus
<1>18. CASE FillReport
    BY <1>18, OwnWriter DEF FillReport, GoOn, Exit, Silent, At, writerVars, OutcomeTold, Route, Exported, Files, Printed, ReportStages, NoStatus
<1>19. CASE TellReport
    BY <1>19, OwnWriter DEF TellReport, GoOn, Exit, Silent, Unenriched, At, writerVars, OutcomeTold, Route, Exported, Files, Printed, ReportStages, NoStatus
<1>20. CASE Kill
  <2>1. stdout' \in {stdout, Append(stdout, "part")} /\ status' = SIGKILL /\ options' = options
    BY <1>20 DEF Kill, Exit
  <2>2. options.json => stdout' \in {<<>>, <<"part">>, <<"ok">>, <<"warning">>}
    <3>1. stdout' = stdout \/ (stdout = <<>> /\ stdout' = Append(<<>>, "part"))
      BY <1>20 DEF Kill, At, Printed
    <3>2. Append(<<>>, "part") = <<"part">>
      OBVIOUS
    <3>3. QED
      BY <3>1, <3>2 DEF OutcomeTold
  <2>3. options.json \/ options.sbom => chart' = "old" /\ report' = "old"
    BY <1>20 DEF Kill, At, OutcomeTold, Route, ReportStages
  <2>4. QED
    BY <2>1, <2>2, <2>3 DEF OutcomeTold, SIGKILL
<1>21. CASE OtherWrites
    BY <1>21, OtherWriter DEF OtherWrites, commandVars, OutcomeTold, Done
<1>22. CASE Ended
    BY <1>22 DEF Ended, vars, commandVars, writerVars, OutcomeTold, Done
<1>23. CASE UNCHANGED vars
    BY <1>23, OwnWriter DEF vars, commandVars, writerVars, OutcomeTold, Done
<1>24. QED
    BY <1>1, <1>2, <1>3, <1>4, <1>5, <1>6, <1>7, <1>8, <1>9, <1>10, <1>11, <1>12, <1>13,
       <1>14, <1>15, <1>16, <1>17, <1>18, <1>19, <1>20, <1>21, <1>22, <1>23 DEF Next

\* Nothing is written to the report before the narratives are complete.
LEMMA StepKeepsReportLast ==
    ASSUME Route, Files, Printed, Told, ReportLast, [Next]_vars
    PROVE  ReportLast'
<1>1. CASE CheckOptions
    BY <1>1 DEF CheckOptions, ReadsStdin, Task, GoOn, Exit, Silent, Unenriched, At, enrichmentVars, ReportLast, Route, Files, Printed, ReportStages, NoStatus
<1>2. CASE InventoryPayload
    BY <1>2 DEF InventoryPayload, GoOn, Exit, Unenriched, At, enrichmentVars, ReportLast, Route, Files, Printed, ReportStages, NoStatus
<1>3. CASE ResolveVulnerabilities
    BY <1>3 DEF ResolveVulnerabilities, GoOn, Exit, Silent, Unenriched, At, enrichmentVars, ReportLast, Route, Files, Printed, ReportStages, NoStatus
<1>4. CASE WriteSbom
    BY <1>4 DEF WriteSbom, commandVars, At, enrichmentVars, ReportLast, Route, Files, Printed, ReportStages, NoStatus
<1>5. CASE SbomOver
    BY <1>5 DEF SbomOver, GoOn, Exit, Silent, Unenriched, At, enrichmentVars, ReportLast, Route, Files, Printed, ReportStages, NoStatus
<1>6. CASE NoteSbom
    BY <1>6 DEF NoteSbom, Echo, GoOn, Exit, Unenriched, At, enrichmentVars, ReportLast, Route, Files, Printed, ReportStages, NoStatus
<1>7. CASE ScanPayload
    BY <1>7 DEF ScanPayload, GoOn, Exit, Unenriched, At, enrichmentVars, ReportLast, Route, Files, Printed, ReportStages, NoStatus
<1>8. CASE ImportReport
    BY <1>8 DEF ImportReport, GoOn, Exit, Unenriched, At, enrichmentVars, ReportLast, Route, Files, Printed, ReportStages, NoStatus
<1>9. CASE PrintReply
    BY <1>9, FirstPrinted DEF PrintReply, GoOn, Exit, Unenriched, At, enrichmentVars, ReportLast, Files, Printed
<1>10. CASE Return
    BY <1>10 DEF Return, Exit, SIGKILL, Silent, Unenriched, At, enrichmentVars, ReportLast, Route, NoStatus
<1>11. CASE CheckInput
    BY <1>11 DEF CheckInput, GoOn, Exit, Silent, Unenriched, At, enrichmentVars, ReportLast, Route, Files, Printed, ReportStages, NoStatus
<1>12. CASE ParseInput
    BY <1>12 DEF ParseInput, GoOn, Exit, At, enrichmentVars, ReportLast, Route, Files, Printed, ReportStages, NoStatus
<1>13. CASE MatchInventory
    BY <1>13 DEF MatchInventory, MatchComponents, GoOn, Exit, At, enrichmentVars, ReportLast, Route, Files, Printed, ReportStages, NoStatus
<1>14. CASE Enrich
    BY <1>14 DEF Enrich, commandVars, At, enrichmentVars, ReportLast, Route, Files, Printed, ReportStages, NoStatus
<1>15. CASE EnrichmentOver
    BY <1>15 DEF EnrichmentOver, GoOn, Exit, Silent, Unenriched, At, enrichmentVars, ReportLast, Route, Files, Printed, ReportStages, NoStatus
<1>16. CASE RenderChart
    BY <1>16 DEF RenderChart, GoOn, Exit, At, enrichmentVars, ReportLast, Route, Files, Printed, ReportStages, NoStatus
<1>17. CASE OpenReport
  <2>1. pc = "reported" /\ (Len(narratives) = TopN \/ Len(narratives) = Len(matches))
    BY <1>17, ListLength, EnrichmentAssumption DEF OpenReport, At, Told, MoreNarratives
  <2>2. QED
    BY <1>17, <2>1 DEF OpenReport, GoOn, Exit, At, enrichmentVars, ReportLast, Route, Files, NoStatus
<1>18. CASE FillReport
    BY <1>18 DEF FillReport, GoOn, Exit, Silent, At, enrichmentVars, ReportLast, Route, Files, Printed, ReportStages, NoStatus
<1>19. CASE TellReport
    BY <1>19 DEF TellReport, GoOn, Exit, Silent, Unenriched, At, enrichmentVars, ReportLast, Route, Files, Printed, ReportStages, NoStatus
<1>20. CASE Kill
    BY <1>20 DEF Kill, Exit, SIGKILL, At, enrichmentVars, ReportLast, Route, Files, Printed, ReportStages, NoStatus
<1>21. CASE OtherWrites
    BY <1>21 DEF OtherWrites, commandVars, At, enrichmentVars, ReportLast, Route, Files, Printed, ReportStages, NoStatus
<1>22. CASE Ended
    BY <1>22 DEF Ended, vars, commandVars, At, enrichmentVars, ReportLast, Route, Files, Printed, ReportStages, NoStatus
<1>23. CASE UNCHANGED vars
    BY <1>23 DEF vars, commandVars, enrichmentVars, ReportLast, Route, Files, Printed, ReportStages, NoStatus
<1>24. QED
    BY <1>1, <1>2, <1>3, <1>4, <1>5, <1>6, <1>7, <1>8, <1>9, <1>10, <1>11, <1>12, <1>13,
       <1>14, <1>15, <1>16, <1>17, <1>18, <1>19, <1>20, <1>21, <1>22, <1>23 DEF Next

\* A scan starts in the invariant.
LEMMA CommandInitHolds == Init => CommandInv
<1> SUFFICES ASSUME Init PROVE CommandInv
    OBVIOUS
<1>1. Route /\ Files /\ Printed
    BY DEF Init, Route, Files, Printed, ScanStages, ReportStages, NoStatus
<1>2. Exported
    BY ScanCommandAssumption DEF Init, WriterInit, Exported
<1>3. Told
  <2>1. IsList(<<>>) /\ Len(<<>>) = 0
    BY EmptySeq DEF IsList
  <2>2. QED
    BY <2>1, EnrichmentAssumption DEF Init, EnrichmentInit, Told
<1>4. OutcomeTold /\ ReportLast
    BY DEF Init, OutcomeTold, ReportLast, NoStatus
<1>5. QED
    BY <1>1, <1>2, <1>3, <1>4 DEF CommandInv

\* The command and the other ones that export are writers of the same SBOM.
THEOREM CommandsAreWriters == Spec => WriterSpec
<1>1. Init => WriterInit
    BY DEF Init
<1>2. QED
    BY <1>1, StepOfWriter, PTL DEF Spec, WriterSpec

\* The invariant holds along every scan, whatever it analyses.
LEMMA CommandInvariant == Spec => []CommandInv
<1>1. Init => CommandInv
    BY CommandInitHolds
<1>2. CommandInv /\ WriterInv /\ [Next]_vars => CommandInv'
    BY StepKeepsRoute, StepKeepsExported, StepKeepsFiles, StepKeepsPrinted, StepKeepsTold,
       StepKeepsOutcome, StepKeepsReportLast DEF CommandInv
<1>3. QED
    BY <1>1, <1>2, CommandsAreWriters, WriterInvariant, PTL DEF Spec

-----------------------------------------------------------------------------

\* While a scan and other commands export to one file, a reader of it finds the old
\* document or a whole one.
THEOREM ScanTargetWhole == Spec => []TargetWhole
BY CommandsAreWriters, TargetAlwaysWhole, PTL

\* The exit status of `scan` tells what there is, for every combination of options, list
\* of matches and failure.
THEOREM ScanOutcomeTold == Spec => []OutcomeTold
<1>1. CommandInv => OutcomeTold
    BY DEF CommandInv
<1>2. QED
    BY <1>1, CommandInvariant, PTL

\* The report of an earlier scan is given up only for one that is ready.
THEOREM ScanReportLast == Spec => []ReportLast
<1>1. CommandInv => ReportLast
    BY DEF CommandInv
<1>2. QED
    BY <1>1, CommandInvariant, PTL

-----------------------------------------------------------------------------
(* The analysis: the order of the report, and the join of what is looked up.    *)

\* Whatever is put in a strict total order can be listed in it.
LEMMA OrderListed ==
    ASSUME NEW n \in Nat, NEW R,
           \A i, j \in 1 .. n : ~(<<i, j>> \in R /\ <<j, i>> \in R),
           \A i, j, k \in 1 .. n : <<i, j>> \in R /\ <<j, k>> \in R => <<i, k>> \in R,
           \A i, j \in 1 .. n : i # j => <<i, j>> \in R \/ <<j, i>> \in R
    PROVE  \E order \in [1 .. n -> 1 .. n] :
              \A i, j \in 1 .. n : i < j => <<order[i], order[j]>> \in R
<1> DEFINE I == 1 .. n
           Before(i) == {j \in I : <<j, i>> \in R}
           place == [i \in I |-> Cardinality(Before(i)) + 1]
<1>1. IsFiniteSet(I) /\ Cardinality(I) = n
  <2>1. 1 \in Int /\ n \in Int
    OBVIOUS
  <2>2. IsFiniteSet(1 .. n) /\ Cardinality(1 .. n) = IF 1 > n THEN 0 ELSE n - 1 + 1
    BY <2>1, FS_Interval
  <2> QED BY <2>2
<1>2. ASSUME NEW i \in I PROVE IsFiniteSet(Before(i)) /\ Cardinality(Before(i)) \in 0 .. n - 1
  <2>1. Before(i) \in SUBSET I /\ i \notin Before(i)
    OBVIOUS
  <2>2. IsFiniteSet(Before(i)) /\ Cardinality(Before(i)) <= n /\ (n = Cardinality(Before(i)) => I = Before(i))
    <3> HIDE DEF Before, I
    <3>1. \A T \in SUBSET I : /\ IsFiniteSet(T) /\ Cardinality(T) <= n
                              /\ n = Cardinality(T) => I = T
      BY ONLY <1>1, FS_Subset
    <3> QED BY ONLY <2>1, <3>1
  <2>3. Cardinality(Before(i)) \in Nat
    BY ONLY <2>2, FS_CardinalityType
  <2>4. Cardinality(Before(i)) # n
    BY <2>1, <2>2
  <2> HIDE DEF Before
  <2> QED BY ONLY <2>2, <2>3, <2>4, n \in Nat
<1>3. ASSUME NEW i \in I, NEW j \in I, <<i, j>> \in R PROVE place[i] < place[j]
  <2>1. Before(i) \in SUBSET Before(j) /\ i \in Before(j) /\ i \notin Before(i)
    BY <1>3
  <2>2. /\ Cardinality(Before(i)) <= Cardinality(Before(j))
        /\ Cardinality(Before(j)) = Cardinality(Before(i)) => Before(j) = Before(i)
    BY ONLY <2>1, <1>2, FS_Subset
  <2>3. Cardinality(Before(i)) # Cardinality(Before(j))
    BY ONLY <2>1, <2>2
  <2>4. Cardinality(Before(i)) \in Int /\ Cardinality(Before(j)) \in Int
    BY ONLY <1>2, i \in I, j \in I
  <2>5. place[i] = Cardinality(Before(i)) + 1 /\ place[j] = Cardinality(Before(j)) + 1
    BY DEF place
  <2> HIDE DEF Before, place
  <2> QED BY ONLY <2>2, <2>3, <2>4, <2>5
<1>4. place \in [I -> I]
  <2>1. ASSUME NEW i \in I PROVE Cardinality(Before(i)) + 1 \in I
    <3> HIDE DEF Before
    <3> QED BY ONLY <1>2, n \in Nat
  <2> QED BY ONLY <2>1 DEF place
<1>5. \A i, j \in I : place[i] = place[j] => i = j
  <2> SUFFICES ASSUME NEW i \in I, NEW j \in I, place[i] = place[j], i # j PROVE FALSE
    OBVIOUS
  <2>1. <<i, j>> \in R \/ <<j, i>> \in R
    OBVIOUS
  <2>2. place[i] \in Nat /\ place[j] \in Nat
    BY ONLY <1>4
  <2> HIDE DEF place
  <2> QED BY <2>1, <2>2, <1>3
<1> HIDE DEF place
<1>6. \A t \in I : \E i \in I : place[i] = t
  <2>1. place \in Injection(I, I)
    BY ONLY <1>4, <1>5, Fun_IsInj
  <2>2. place \in Surjection(I, I)
    BY ONLY <1>1, <2>1, FS_Injection
  <2> QED BY ONLY <2>2, Fun_SurjectionProperties
<1> DEFINE order == [t \in I |-> CHOOSE i \in I : place[i] = t]
<1>7. \A t \in I : order[t] \in I /\ place[order[t]] = t
  BY ONLY <1>6
<1>8. ASSUME NEW i \in I, NEW j \in I, i < j PROVE <<order[i], order[j]>> \in R
  <2> HIDE DEF order
  <2>1. order[i] # order[j] /\ ~(place[order[j]] < place[order[i]])
    BY <1>7, <1>8
  <2> QED BY <2>1, <1>3, <1>7
<1>9. order \in [I -> I]
  BY ONLY <1>7
<1> HIDE DEF order
<1> QED BY ONLY <1>8, <1>9

\* A set of tenths has a greatest one, and Max is it.
LEMMA MaxIsThere ==
    ASSUME NEW S \in SUBSET Tenths, S # {}
    PROVE  SX!Max(S) \in S /\ \A y \in S : SX!Max(S) >= y
<1>1. \E x \in S : \A y \in S : x >= y
  <2> SUFFICES ASSUME \A x \in S : \E y \in S : x < y PROVE FALSE
    BY DEF Tenths
  <2>1. 10 \notin S /\ (10 \notin S => 9 \notin S)
    BY DEF Tenths
  <2>2. 8 \notin S /\ 7 \notin S
    <3>1. 8 \notin S BY <2>1 DEF Tenths
    <3> QED BY <2>1, <3>1 DEF Tenths
  <2>3. 6 \notin S
    BY <2>1, <2>2 DEF Tenths
  <2>4. 5 \notin S
    BY <2>1, <2>2, <2>3 DEF Tenths
  <2>5. 4 \notin S
    BY <2>1, <2>2, <2>3, <2>4 DEF Tenths
  <2>6. 3 \notin S
    BY <2>1, <2>2, <2>3, <2>4, <2>5 DEF Tenths
  <2>7. 2 \notin S
    BY <2>1, <2>2, <2>3, <2>4, <2>5, <2>6 DEF Tenths
  <2>8. 1 \notin S
    BY <2>1, <2>2, <2>3, <2>4, <2>5, <2>6, <2>7 DEF Tenths
  <2>9. 0 \notin S
    BY <2>1, <2>2, <2>3, <2>4, <2>5, <2>6, <2>7, <2>8 DEF Tenths
  <2>10. PICK s \in S : s \in 0 .. 10
    BY DEF Tenths
  <2>11. s \in {0, 1, 2, 3, 4, 5, 6, 7, 8, 9, 10}
    BY <2>10
  <2> QED BY <2>1, <2>2, <2>3, <2>4, <2>5, <2>6, <2>7, <2>8, <2>9, <2>11
<1> QED BY <1>1 DEF SX!Max

\* The factors of a component are in their ranges.
LEMMA FactorTypes ==
    ASSUME NEW m \in ComponentMatch
    PROVE  /\ MaxCvss(m) \in Tenths /\ MaxEpss(m) \in Tenths /\ m.exposure \in Tenths
           /\ m.name \in Nat /\ HasKev(m) \in BOOLEAN /\ PRisk(m) \in Nat
<1>1. m.exposure \in Tenths /\ m.name \in Nat /\ m.cves \in Seq(Record)
    BY DEF ComponentMatch
<1>2. \A k \in DOMAIN m.cves : m.cves[k] \in Record
    BY <1>1, ElementOfSeq, LenProperties
<1>3. MaxCvss(m) \in Tenths
  <2> DEFINE S == {m.cves[k].cvss : k \in DOMAIN m.cves} \cup {0}
  <2>1. S \in SUBSET Tenths /\ S # {}
    BY <1>2 DEF Record, Tenths
  <2> QED BY <2>1, MaxIsThere DEF MaxCvss
<1>4. MaxEpss(m) \in Tenths
  <2> DEFINE S == {m.cves[k].epss : k \in DOMAIN m.cves} \cup {0}
  <2>1. S \in SUBSET Tenths /\ S # {}
    BY <1>2 DEF Record, Tenths
  <2> QED BY <2>1, MaxIsThere DEF MaxEpss
<1>5. PRisk(m) \in Nat
  <2> DEFINE a == IF HasKev(m) THEN 350 ELSE 0
  <2>1. a \in Nat /\ MaxCvss(m) \in Nat /\ MaxEpss(m) \in Nat /\ m.exposure \in Nat
    BY <1>1, <1>3, <1>4 DEF Tenths
  <2>2. PRisk(m) = 25 * MaxCvss(m) + 25 * MaxEpss(m) + 15 * m.exposure + a
    BY DEF PRisk
  <2> HIDE DEF a
  <2> QED BY <2>1, <2>2
<1> QED BY <1>1, <1>3, <1>4, <1>5 DEF HasKev

\* No component comes before itself or one that comes before it; all can be compared.
LEMMA PrecedesOrders ==
    ASSUME NEW ms \in Seq(ComponentMatch)
    PROVE  /\ \A i, j \in DOMAIN ms : ~(Precedes(ms, i, j) /\ Precedes(ms, j, i))
           /\ \A i, j, k \in DOMAIN ms :
                 Precedes(ms, i, j) /\ Precedes(ms, j, k) => Precedes(ms, i, k)
           /\ \A i, j \in DOMAIN ms : i # j => Precedes(ms, i, j) \/ Precedes(ms, j, i)
           /\ \A i, j \in DOMAIN ms : Above(ms[i], ms[j]) => ~Above(ms[j], ms[i])
<1>1. DOMAIN ms \subseteq Nat
    BY LenProperties
<1>2. \A i \in DOMAIN ms : /\ PRisk(ms[i]) \in Int /\ MaxCvss(ms[i]) \in Int
                           /\ ms[i].name \in Int
  <2>1. ASSUME NEW i \in DOMAIN ms PROVE ms[i] \in ComponentMatch
    BY ElementOfSeq, LenProperties
  <2>2. Tenths \subseteq Int /\ Nat \subseteq Int
    BY DEF Tenths
  <2> QED BY <2>1, <2>2, FactorTypes
<1>3. ASSUME NEW i \in DOMAIN ms, NEW j \in DOMAIN ms
      PROVE  /\ ~(Above(ms[i], ms[j]) /\ Above(ms[j], ms[i]))
             /\ ~(Precedes(ms, i, j) /\ Precedes(ms, j, i))
             /\ i # j => Precedes(ms, i, j) \/ Precedes(ms, j, i)
    BY <1>1, <1>2 DEF Precedes, Above
<1>4. ASSUME NEW i \in DOMAIN ms, NEW j \in DOMAIN ms, NEW k \in DOMAIN ms,
             Precedes(ms, i, j), Precedes(ms, j, k)
      PROVE  Precedes(ms, i, k)
    BY <1>1, <1>2, <1>4, SMTT(30) DEF Precedes, Above
<1> QED BY <1>3, <1>4

\* Ranking is a permutation, and nothing is above what comes before it.
LEMMA RankedSorts ==
    ASSUME NEW ms \in Seq(ComponentMatch)
    PROVE  \E order \in [DOMAIN ms -> DOMAIN ms] :
              /\ Ranked(ms) = [i \in DOMAIN ms |-> ms[order[i]]]
              /\ \A i, j \in DOMAIN ms : order[i] = order[j] => i = j
              /\ \A i \in DOMAIN ms : \E j \in DOMAIN ms : order[j] = i
              /\ \A i, j \in DOMAIN ms : i < j => ~Above(ms[order[j]], ms[order[i]])
<1> DEFINE I == DOMAIN ms
           R == {p \in I \X I : Precedes(ms, p[1], p[2])}
           order == CHOOSE order \in [I -> I] : IsRanking(ms, order)
<1>1. I = 1 .. Len(ms) /\ Len(ms) \in Nat
    BY LenProperties
<1>2. \A i, j \in I : <<i, j>> \in R <=> Precedes(ms, i, j)
    OBVIOUS
<1>3. \E o \in [I -> I] : \A i, j \in I : i < j => <<o[i], o[j]>> \in R
  <2> HIDE DEF R
  <2>1. /\ \A i, j \in I : ~(<<i, j>> \in R /\ <<j, i>> \in R)
        /\ \A i, j, k \in I : <<i, j>> \in R /\ <<j, k>> \in R => <<i, k>> \in R
        /\ \A i, j \in I : i # j => <<i, j>> \in R \/ <<j, i>> \in R
    BY <1>2, PrecedesOrders
  <2> HIDE DEF I
  <2> QED BY ONLY <1>1, <2>1, OrderListed
<1>4. \E o \in [I -> I] : IsRanking(ms, o)
    BY <1>3, <1>2 DEF IsRanking
<1>5. order \in [I -> I] /\ IsRanking(ms, order)
    BY <1>4
<1>6. Ranked(ms) = [i \in I |-> ms[order[i]]]
    BY DEF Ranked
<1> HIDE DEF order, R
<1>7. \A i, j \in I : i < j => Precedes(ms, order[i], order[j])
    BY <1>5 DEF IsRanking
<1>8. \A i, j \in I : order[i] = order[j] => i = j
  <2> SUFFICES ASSUME NEW i \in I, NEW j \in I, order[i] = order[j], i < j PROVE FALSE
    BY <1>1
  <2> QED BY <1>5, <1>7, PrecedesOrders
<1>9. \A i \in I : \E j \in I : order[j] = i
  <2>1. order \in Injection(I, I)
    BY ONLY <1>5, <1>8, Fun_IsInj
  <2>2. IsFiniteSet(I)
    BY ONLY <1>1, FS_Interval, 1 \in Int, Nat \subseteq Int
  <2>3. order \in Surjection(I, I)
    BY ONLY <2>1, <2>2, FS_Injection
  <2> QED BY ONLY <2>3, Fun_SurjectionProperties
<1>10. \A i, j \in I : i < j => ~Above(ms[order[j]], ms[order[i]])
  <2> SUFFICES ASSUME NEW i \in I, NEW j \in I, i < j PROVE ~Above(ms[order[j]], ms[order[i]])
    OBVIOUS
  <2>1. Precedes(ms, order[i], order[j]) /\ order[i] \in I /\ order[j] \in I
    BY <1>5, <1>7
  <2> QED BY <2>1, PrecedesOrders DEF Precedes
<1> QED BY <1>5, <1>6, <1>8, <1>9, <1>10

\* What is worse in a factor and as bad in the others has the higher risk.
LEMMA WorseIsAbove ==
    ASSUME NEW m \in ComponentMatch, NEW n \in ComponentMatch,
           MaxCvss(m) >= MaxCvss(n), MaxEpss(m) >= MaxEpss(n),
           m.exposure >= n.exposure, HasKev(n) => HasKev(m),
           \/ MaxCvss(m) > MaxCvss(n) \/ MaxEpss(m) > MaxEpss(n)
           \/ m.exposure > n.exposure \/ (HasKev(m) /\ ~HasKev(n))
    PROVE  Above(m, n)
<1>1. /\ MaxCvss(m) \in Int /\ MaxEpss(m) \in Int /\ m.exposure \in Int
      /\ MaxCvss(n) \in Int /\ MaxEpss(n) \in Int /\ n.exposure \in Int
    BY FactorTypes DEF Tenths
<1>2. HasKev(n) => HasKev(m)
    OBVIOUS
<1> DEFINE a == IF HasKev(m) THEN 350 ELSE 0
           b == IF HasKev(n) THEN 350 ELSE 0
<1>3. a \in Int /\ b \in Int /\ a >= b /\ (HasKev(m) /\ ~HasKev(n) => a > b)
    BY <1>2
<1>4. /\ PRisk(m) = 25 * MaxCvss(m) + 25 * MaxEpss(m) + 15 * m.exposure + a
      /\ PRisk(n) = 25 * MaxCvss(n) + 25 * MaxEpss(n) + 15 * n.exposure + b
    BY DEF PRisk
<1> HIDE DEF a, b
<1>5. PRisk(m) > PRisk(n)
    BY <1>1, <1>3, <1>4
<1> QED BY <1>5 DEF Above

\* naturals is minimal for strict inclusion.
LEMMA Least ==
    ASSUME NEW S \in SUBSET Nat, S # {}
    PROVE  \E m \in S : \A k \in S : m <= k
<1> DEFINE T == {0 .. k : k \in S}
<1>1. T \subseteq FiniteSubsetsOf(Nat) /\ T # {}
  <2>1. ASSUME NEW k \in S PROVE (0 .. k) \in FiniteSubsetsOf(Nat)
    <3>1. k \in Int /\ 0 \in Int /\ (0 .. k) \subseteq Nat
      OBVIOUS
    <3>2. IsFiniteSet(0 .. k)
      BY ONLY <3>1, FS_Interval
    <3> QED BY <3>1, <3>2 DEF FiniteSubsetsOf
  <2> QED BY <2>1
<1>2. PICK t \in T : \A u \in T : <<u, t>> \notin StrictSubsetOrdering(Nat)
    BY <1>1, FS_StrictSubsetOrderingWellFounded, WFMin
<1>3. PICK m \in S : t = 0 .. m
    OBVIOUS
<1>4. ASSUME NEW k \in S PROVE m <= k
  <2> SUFFICES ASSUME k < m PROVE FALSE
    OBVIOUS
  <2>1. (0 .. k) \in T /\ (0 .. k) \subseteq t /\ m \in t /\ m \notin 0 .. k
    BY <1>3
  <2>2. <<0 .. k, t>> \in StrictSubsetOrdering(Nat)
    BY <2>1, <1>3 DEF StrictSubsetOrdering
  <2> QED BY <2>1, <2>2, <1>2
<1> QED BY <1>3, <1>4

\* A set of positions in a sequence has a last one.
LEMMA Greatest ==
    ASSUME NEW n \in Nat, NEW S \in SUBSET (1 .. n), S # {}
    PROVE  \E m \in S : \A k \in S : k <= m
<1> DEFINE T == {n - k : k \in S}
<1>1. T \in SUBSET Nat /\ T # {}
  <2>1. \A k \in S : n - k \in Nat
    OBVIOUS
  <2> QED BY <2>1
<1>2. PICK t \in T : \A u \in T : t <= u
    BY <1>1, Least
<1>3. PICK m \in S : t = n - m
    OBVIOUS
<1>4. ASSUME NEW k \in S PROVE k <= m
  <2>1. n - m <= n - k
    BY <1>2, <1>3
  <2> QED BY <2>1
<1> QED BY <1>3, <1>4

\* The dictionary has a record of every CVE of the list, and it is of that CVE.
LEMMA LastOfIsOne ==
    ASSUME NEW ms \in Seq(ComponentMatch), NEW place \in Places(ms)
    PROVE  /\ LastOf(ms, RecordAt(ms, place).cve) \in RecordsOf(ms)
           /\ LastOf(ms, RecordAt(ms, place).cve).cve = RecordAt(ms, place).cve
<1> DEFINE cve == RecordAt(ms, place).cve
           P == {p \in Places(ms) : RecordAt(ms, p).cve = cve}
<1>1. \A i \in DOMAIN ms : /\ DOMAIN ms[i].cves = 1 .. Len(ms[i].cves)
                           /\ Len(ms[i].cves) \in Nat
  <2>1. ASSUME NEW i \in DOMAIN ms PROVE ms[i].cves \in Seq(Record)
    <3>1. ms[i] \in ComponentMatch
      BY ElementOfSeq, LenProperties
    <3> QED BY ONLY <3>1 DEF ComponentMatch
  <2> QED BY <2>1, LenProperties
<1>2. DOMAIN ms = 1 .. Len(ms) /\ Len(ms) \in Nat
    BY LenProperties
<1>3. \A p \in Places(ms) : /\ p = <<p[1], p[2]>> /\ p[1] \in DOMAIN ms
                            /\ p[2] \in DOMAIN ms[p[1]].cves
    BY DEF Places
<1> HIDE DEF P
<1>4. P \subseteq Places(ms) /\ place \in P
    BY DEF P
<1>5. \E p \in P : \A q \in P : ~Later(q, p)
  <2> DEFINE Is == {p[1] : p \in P}
  <2>1. Is \in SUBSET (1 .. Len(ms)) /\ Is # {}
    BY <1>2, <1>3, <1>4
  <2>2. PICK i \in Is : \A j \in Is : j <= i
    BY ONLY <2>1, <1>2, Greatest
  <2> DEFINE Ks == {p[2] : p \in {q \in P : q[1] = i}}
  <2>3. i \in DOMAIN ms /\ i \in Nat
    BY <2>1, <1>2
  <2>4. Ks \in SUBSET (1 .. Len(ms[i].cves)) /\ Ks # {}
    BY <2>2, <2>3, <1>1, <1>3, <1>4
  <2>5. PICK k \in Ks : \A l \in Ks : l <= k
    BY ONLY <2>4, <2>3, <1>1, Greatest
  <2>6. PICK p \in P : p[1] = i /\ p[2] = k
    OBVIOUS
  <2>7. ASSUME NEW q \in P PROVE ~Later(q, p)
    <3>1. q[1] \in Nat /\ q[1] <= i
      BY <2>2, <1>2, <1>3, <1>4
    <3>2. q[1] = i => q[2] <= k
      BY <2>5
    <3>3. q[2] \in Nat /\ k \in Nat
      BY <1>1, <1>3, <1>4, <2>3, <2>4
    <3> QED BY ONLY <2>3, <2>6, <3>1, <3>2, <3>3 DEF Later
  <2> QED BY <2>6, <2>7
<1> DEFINE last == CHOOSE p \in Places(ms) :
                      /\ RecordAt(ms, p).cve = cve
                      /\ \A q \in Places(ms) : RecordAt(ms, q).cve = cve => ~Later(q, p)
<1>6. last \in Places(ms) /\ RecordAt(ms, last).cve = cve
    BY <1>5 DEF P
<1>7. LastOf(ms, cve) = RecordAt(ms, last)
    BY DEF LastOf
<1> QED BY <1>6, <1>7 DEF RecordsOf

\* What an enricher may do to a record.
Enriches(ms, enriched) ==
    /\ enriched \in [RecordsOf(ms) -> Record]
    /\ \A r \in RecordsOf(ms) : enriched[r].cve = r.cve

PlainKept(ms, ns) ==
    /\ DOMAIN ms = DOMAIN ns
    /\ \A i \in DOMAIN ms : Plain(ms[i]) = Plain(ns[i])

\* The records of a list of matches are records.
LEMMA RecordsAreRecords ==
    ASSUME NEW ms \in Seq(ComponentMatch)
    PROVE  RecordsOf(ms) \subseteq Record
<1>1. ASSUME NEW i \in DOMAIN ms PROVE ms[i].cves \in Seq(Record)
  <2>1. ms[i] \in ComponentMatch
    BY ElementOfSeq, LenProperties
  <2> QED BY ONLY <2>1 DEF ComponentMatch
<1>2. ASSUME NEW i \in DOMAIN ms, NEW k \in DOMAIN ms[i].cves PROVE ms[i].cves[k] \in Record
    BY <1>1, ElementOfSeq, LenProperties
<1> QED BY <1>2 DEF RecordsOf, RecordAt, Places

\* Joining enriched records back touches no name, exposure or CVE.
LEMMA ReenrichedKeeps ==
    ASSUME NEW ms \in Seq(ComponentMatch), NEW enriched, Enriches(ms, enriched)
    PROVE  /\ Reenriched(ms, enriched) \in Seq(ComponentMatch)
           /\ PlainKept(Reenriched(ms, enriched), ms)
<1> DEFINE ns == Reenriched(ms, enriched)
<1>1. DOMAIN ms = 1 .. Len(ms) /\ Len(ms) \in Nat
    BY LenProperties
<1>2. DOMAIN ns = DOMAIN ms
    BY DEF Reenriched
<1>3. ASSUME NEW i \in DOMAIN ms
      PROVE  ns[i] \in ComponentMatch /\ Plain(ns[i]) = Plain(ms[i])
  <2>1. ms[i] \in ComponentMatch
    BY ElementOfSeq, <1>1
  <2>2. ms[i].cves \in Seq(Record) /\ ms[i].name \in Nat /\ ms[i].exposure \in Tenths
    BY <2>1 DEF ComponentMatch
  <2> DEFINE cves == [k \in DOMAIN ms[i].cves |-> enriched[LastOf(ms, ms[i].cves[k].cve)]]
  <2>3. ns[i] = [ms[i] EXCEPT !.cves = cves]
    BY DEF Reenriched
  <2>4. ASSUME NEW k \in DOMAIN ms[i].cves
        PROVE  cves[k] \in Record /\ cves[k].cve = ms[i].cves[k].cve
    <3>1. <<i, k>> \in Places(ms) /\ RecordAt(ms, <<i, k>>) = ms[i].cves[k]
      BY DEF Places, RecordAt
    <3>2. /\ LastOf(ms, ms[i].cves[k].cve) \in RecordsOf(ms)
          /\ LastOf(ms, ms[i].cves[k].cve).cve = ms[i].cves[k].cve
      BY <3>1, LastOfIsOne
    <3> QED BY <3>2 DEF Enriches
  <2>5. DOMAIN ms[i].cves = 1 .. Len(ms[i].cves) /\ Len(ms[i].cves) \in Nat
    BY <2>2, LenProperties
  <2>6. cves \in Seq(Record)
    <3>1. cves \in [1 .. Len(ms[i].cves) -> Record]
      BY <2>4, <2>5
    <3> HIDE DEF cves
    <3> QED BY <3>1, <2>5, SeqDef
  <2>7. DOMAIN cves = DOMAIN ms[i].cves
    OBVIOUS
  <2> HIDE DEF cves, ns
  <2>8. /\ ns[i] = [name |-> ms[i].name, exposure |-> ms[i].exposure, cves |-> cves]
        /\ ns[i].name = ms[i].name /\ ns[i].exposure = ms[i].exposure /\ ns[i].cves = cves
    BY <2>1, <2>3 DEF ComponentMatch
  <2>9. ns[i] \in ComponentMatch
    BY <2>2, <2>6, <2>8 DEF ComponentMatch
  <2>10. [k \in DOMAIN cves |-> cves[k].cve]
            = [k \in DOMAIN ms[i].cves |-> ms[i].cves[k].cve]
    BY <2>4, <2>7
  <2>11. Plain(ns[i]) = Plain(ms[i])
    BY <2>8, <2>10 DEF Plain
  <2> QED BY <2>9, <2>11
<1>4. ns \in Seq(ComponentMatch)
  <2>1. ns \in [1 .. Len(ms) -> ComponentMatch]
    BY <1>1, <1>2, <1>3 DEF Reenriched
  <2> HIDE DEF ns
  <2> QED BY <1>1, <2>1, SeqDef
<1> QED BY <1>2, <1>3, <1>4 DEF PlainKept

-----------------------------------------------------------------------------
(* What every step of the analysis keeps.                                   *)

Late == {"narrate", "reported", "raised"}

\* The lists are lists of matches, and the scores are scores.
Scored ==
    /\ matches \in Seq(ComponentMatch) /\ first \in Seq(ComponentMatch)
    /\ \A cve \in Cve \cap DOMAIN scores : scores[cve] \in Tenths

\* Until they are ranked the matches stand where they stood, and after it none is
\* above one before it.
Ordered ==
    /\ pc \notin Late => PlainKept(matches, first)
    /\ \E order \in [DOMAIN matches -> DOMAIN first] :
          /\ \A i, j \in DOMAIN matches : order[i] = order[j] => i = j
          /\ \A i \in DOMAIN first : \E j \in DOMAIN matches : order[j] = i
          /\ \A i \in DOMAIN matches : Plain(matches[i]) = Plain(first[order[i]])
    /\ pc \in Late => \A i, j \in DOMAIN matches : i < j => ~Above(matches[j], matches[i])

\* The language model has been asked from the top of the list.
AskedFromTop ==
    \A i \in DOMAIN narratives : i \in DOMAIN matches /\ narratives[i] = matches[i]

AnalysisInv == Scored /\ Ordered /\ AskedFromTop

\* A list that stands where it stood is a permutation of it.
LEMMA PlainKeptOrder ==
    ASSUME NEW ms, NEW ns, PlainKept(ms, ns)
    PROVE  \E order \in [DOMAIN ms -> DOMAIN ns] :
              /\ \A i, j \in DOMAIN ms : order[i] = order[j] => i = j
              /\ \A i \in DOMAIN ns : \E j \in DOMAIN ms : order[j] = i
              /\ \A i \in DOMAIN ms : Plain(ms[i]) = Plain(ns[order[i]])
<1> DEFINE order == [i \in DOMAIN ms |-> i]
<1>1. DOMAIN ms = DOMAIN ns /\ \A i \in DOMAIN ms : Plain(ms[i]) = Plain(ns[i])
    BY DEF PlainKept
<1>2. order \in [DOMAIN ms -> DOMAIN ns] /\ \A i \in DOMAIN ms : order[i] = i
    BY <1>1
<1> HIDE DEF order
<1> QED BY <1>1, <1>2

\* A step that only enriches the records keeps the inventory.
LEMMA EnrichingKeeps ==
    ASSUME AnalysisInv, Told, pc \notin Late, pc' \notin Late,
           UNCHANGED <<first, narratives, scores>>,
           NEW enriched,
           matches' = matches \/ (/\ Enriches(matches, enriched)
                                  /\ matches' = Reenriched(matches, enriched))
    PROVE  AnalysisInv'
<1>1. matches' \in Seq(ComponentMatch) /\ PlainKept(matches', first)
  <2>1. CASE matches' = matches
    BY <2>1 DEF AnalysisInv, Scored, Ordered
  <2>2. CASE Enriches(matches, enriched) /\ matches' = Reenriched(matches, enriched)
    <3>1. matches' \in Seq(ComponentMatch) /\ PlainKept(matches', matches)
      BY <2>2, ReenrichedKeeps DEF AnalysisInv, Scored
    <3> QED BY <3>1 DEF AnalysisInv, Ordered, PlainKept
  <2> QED BY <2>1, <2>2
<1>2. narratives' = <<>>
    BY DEF Told, Late
<1>3. Scored'
    BY <1>1 DEF AnalysisInv, Scored
<1>4. Ordered'
    BY <1>1, PlainKeptOrder DEF Ordered
<1>5. AskedFromTop'
    BY <1>2 DEF AskedFromTop
<1> QED BY <1>3, <1>4, <1>5 DEF AnalysisInv

\* What every step of the analysis keeps.
LEMMA EnrichmentKeepsAnalysis ==
    ASSUME AnalysisInv, Told, MatchComponents \/ EnrichmentStep
    PROVE  AnalysisInv'
<1>1. CASE MatchComponents
  <2>1. /\ matches' \in Seq(ComponentMatch) /\ first' = matches' /\ scores' = scores
        /\ narratives' = <<>> /\ pc' \notin Late
    BY <1>1, EnrichmentAssumption DEF MatchComponents, Told, Late
  <2>2. PlainKept(matches', first')
    BY <2>1 DEF PlainKept
  <2>3. Scored'
    BY <2>1 DEF AnalysisInv, Scored
  <2>4. Ordered'
    BY <2>1, <2>2, PlainKeptOrder DEF Ordered
  <2> QED BY <2>1, <2>3, <2>4 DEF AnalysisInv, AskedFromTop
<1>2. CASE ChunkAnswered
  <2>1. UNCHANGED <<matches, first, narratives, pc>>
    BY <1>2 DEF ChunkAnswered
  <2>2. \A cve \in Cve \cap DOMAIN scores' : scores'[cve] \in Tenths
    BY <1>2, EnrichmentAssumption DEF ChunkAnswered, AnalysisInv, Scored
  <2> QED BY <2>1, <2>2 DEF AnalysisInv, Scored, Ordered, AskedFromTop
<1>3. CASE ChunkFails
    BY <1>3 DEF ChunkFails, AnalysisInv, Scored, Ordered, AskedFromTop
<1>4. CASE EnrichWithEpss
  <2> DEFINE enriched == [r \in RecordsOf(matches) |-> WithEpss(r)]
  <2>1. ASSUME NEW r \in RecordsOf(matches) PROVE WithEpss(r) \in Record /\ WithEpss(r).cve = r.cve
    <3>1. r \in Record
      BY RecordsAreRecords DEF AnalysisInv, Scored
    <3>2. (IF r.cve \in DOMAIN scores THEN scores[r.cve] ELSE 0) \in Tenths
      BY <3>1 DEF AnalysisInv, Scored, Record, Tenths
    <3> QED BY <3>1, <3>2 DEF WithEpss, Record
  <2>2. Enriches(matches, enriched)
    BY <2>1 DEF Enriches
  <2>3. matches' = matches \/ matches' = Reenriched(matches, enriched)
    BY <1>4 DEF EnrichWithEpss
  <2>4. UNCHANGED <<first, narratives, scores>> /\ pc \notin Late /\ pc' \notin Late
    BY <1>4 DEF EnrichWithEpss, Late
  <2> HIDE DEF enriched
  <2> QED BY <2>2, <2>3, <2>4, EnrichingKeeps
<1>5. CASE EnrichWithKev
  <2>1. UNCHANGED <<first, narratives, scores>> /\ pc \notin Late /\ pc' \notin Late
    BY <1>5 DEF EnrichWithKev, Late
  <2>2. CASE matches' = matches
    BY <2>1, <2>2, EnrichingKeeps
  <2>3. ASSUME NEW catalog, 
               matches' = Reenriched(matches, [r \in RecordsOf(matches) |-> WithKev(r, catalog)])
        PROVE  AnalysisInv'
    <3> DEFINE enriched == [r \in RecordsOf(matches) |-> WithKev(r, catalog)]
    <3>1. ASSUME NEW r \in RecordsOf(matches)
          PROVE  WithKev(r, catalog) \in Record /\ WithKev(r, catalog).cve = r.cve
      <4>1. r \in Record
        BY RecordsAreRecords DEF AnalysisInv, Scored
      <4> DEFINE marked == r.cve \in catalog
      <4>2. marked \in BOOLEAN /\ WithKev(r, catalog) = [r EXCEPT !.kev = marked]
        BY DEF WithKev
      <4> HIDE DEF marked
      <4> QED BY <4>1, <4>2 DEF Record
    <3>2. Enriches(matches, enriched)
      BY <3>1 DEF Enriches
    <3>3. matches' = Reenriched(matches, enriched)
      BY <2>3
    <3> HIDE DEF enriched
    <3> QED BY <2>1, <3>2, <3>3, EnrichingKeeps
  <2> QED BY <1>5, <2>2, <2>3 DEF EnrichWithKev
<1>6. CASE Rank
  <2>1. /\ matches' = Ranked(matches) /\ pc' \in Late /\ narratives' = <<>>
        /\ first' = first /\ scores' = scores /\ PlainKept(matches, first)
    BY <1>6 DEF Rank, Told, Late, AnalysisInv, Ordered
  <2>2. matches \in Seq(ComponentMatch) /\ first \in Seq(ComponentMatch)
    BY DEF AnalysisInv, Scored
  <2>3. PICK order \in [DOMAIN matches -> DOMAIN matches] :
              /\ Ranked(matches) = [i \in DOMAIN matches |-> matches[order[i]]]
              /\ \A i, j \in DOMAIN matches : order[i] = order[j] => i = j
              /\ \A i \in DOMAIN matches : \E j \in DOMAIN matches : order[j] = i
              /\ \A i, j \in DOMAIN matches : i < j => ~Above(matches[order[j]], matches[order[i]])
    BY <2>2, RankedSorts
  <2>4. /\ DOMAIN matches' = DOMAIN matches
        /\ \A i \in DOMAIN matches : matches'[i] = matches[order[i]]
    BY <2>1, <2>3
  <2>5. matches' \in Seq(ComponentMatch)
    <3>1. DOMAIN matches = 1 .. Len(matches) /\ Len(matches) \in Nat
      BY <2>2, LenProperties
    <3>2. \A i \in DOMAIN matches : matches[order[i]] \in ComponentMatch
      BY <2>2, <2>3, <3>1, ElementOfSeq
    <3>3. matches' \in [1 .. Len(matches) -> ComponentMatch]
      BY <2>1, <2>3, <3>1, <3>2
    <3> QED BY <3>1, <3>3, SeqDef
  <2>6. Scored'
    BY <2>1, <2>2, <2>5 DEF AnalysisInv, Scored
  <2>7. Ordered'
    <3>1. \A i, j \in DOMAIN matches' : i < j => ~Above(matches'[j], matches'[i])
      BY <2>3, <2>4
    <3>2. DOMAIN matches = DOMAIN first /\ \A i \in DOMAIN matches : Plain(matches[i]) = Plain(first[i])
      BY <2>1 DEF PlainKept
    <3>3. /\ order \in [DOMAIN matches' -> DOMAIN first']
          /\ \A i, j \in DOMAIN matches' : order[i] = order[j] => i = j
          /\ \A i \in DOMAIN first' : \E j \in DOMAIN matches' : order[j] = i
          /\ \A i \in DOMAIN matches' : Plain(matches'[i]) = Plain(first'[order[i]])
      BY <2>1, <2>3, <2>4, <3>2
    <3> QED BY <2>1, <3>1, <3>3 DEF Ordered
  <2> QED BY <2>1, <2>6, <2>7 DEF AnalysisInv, AskedFromTop
<1>7. CASE Narrate
  <2>1. UNCHANGED <<matches, first, scores>> /\ pc \in Late /\ pc' \in Late
    BY <1>7 DEF Narrate, Late
  <2>2. AskedFromTop'
    <3>1. CASE narratives' = narratives
      BY <2>1, <3>1 DEF AnalysisInv, AskedFromTop
    <3>2. CASE MoreNarratives /\ narratives' = Append(narratives, matches[Len(narratives) + 1])
      <4>1. PICK S : narratives \in Seq(S)
        BY DEF Told, IsList
      <4> DEFINE T == S \cup {matches[Len(narratives) + 1]}
      <4>2. narratives \in Seq(T) /\ matches[Len(narratives) + 1] \in T
        BY <4>1, SeqMonotonic
      <4> HIDE DEF T
      <4>3. /\ DOMAIN narratives = 1 .. Len(narratives) /\ Len(narratives) \in Nat
            /\ DOMAIN narratives' = 1 .. Len(narratives) + 1
            /\ \A i \in 1 .. Len(narratives) : narratives'[i] = narratives[i]
            /\ narratives'[Len(narratives) + 1] = matches[Len(narratives) + 1]
        BY <3>2, <4>2, AppendProperties, LenProperties
      <4>4. DOMAIN matches = 1 .. Len(matches) /\ Len(narratives) + 1 <= Len(matches)
        BY <3>2, <4>3, LenProperties DEF AnalysisInv, Scored, MoreNarratives
      <4> QED BY <2>1, <4>3, <4>4 DEF AnalysisInv, AskedFromTop
    <3> QED BY <1>7, <3>1, <3>2 DEF Narrate
  <2> QED BY <2>1, <2>2 DEF AnalysisInv, Scored, Ordered
<1> QED BY <1>1, <1>2, <1>3, <1>4, <1>5, <1>6, <1>7 DEF EnrichmentStep

\* The other steps of the command do not touch what the analysis has.
LEMMA StepOfEnrichment ==
    ASSUME [Next]_vars
    PROVE  [MatchComponents \/ EnrichmentStep]_enrichmentVars
<1>1. CASE CheckOptions \/ InventoryPayload \/ ResolveVulnerabilities \/ SbomOver \/ NoteSbom
    BY <1>1 DEF CheckOptions, InventoryPayload, ResolveVulnerabilities, SbomOver, NoteSbom, Unenriched
<1>2. CASE WriteSbom
    BY <1>2 DEF WriteSbom
<1>3. CASE \/ ScanPayload \/ ImportReport \/ PrintReply \/ Return
          \/ CheckInput \/ ParseInput
    BY <1>3 DEF ScanPayload, ImportReport, PrintReply, Return, CheckInput, ParseInput, Unenriched
<1>4. CASE MatchInventory \/ Enrich \/ EnrichmentOver
    BY <1>4 DEF MatchInventory, Enrich, EnrichmentOver, Unenriched
<1>5. CASE RenderChart \/ OpenReport \/ FillReport \/ TellReport
    BY <1>5 DEF RenderChart, OpenReport, FillReport, TellReport, Unenriched
<1>6. CASE Kill \/ OtherWrites
    BY <1>6 DEF Kill, OtherWrites
<1>7. CASE Ended \/ UNCHANGED vars
    BY <1>7 DEF Ended, vars
<1> QED BY <1>1, <1>2, <1>3, <1>4, <1>5, <1>6, <1>7 DEF Next

\* A scan starts with nothing to analyse.
LEMMA AnalysisInitHolds == Init => AnalysisInv
<1> SUFFICES ASSUME Init PROVE AnalysisInv
    OBVIOUS
<1>1. /\ matches = <<>> /\ first = <<>> /\ narratives = <<>> /\ pc \notin Late
      /\ DOMAIN scores = {}
    BY DEF Init, EnrichmentInit, Late
<1>2. <<>> \in Seq(ComponentMatch) /\ DOMAIN <<>> = {}
    BY EmptySeq, LenProperties
<1>3. PlainKept(matches, first)
    BY <1>1 DEF PlainKept
<1> QED BY <1>1, <1>2, <1>3, PlainKeptOrder DEF AnalysisInv, Scored, Ordered, AskedFromTop

\* The analysis is as said along every scan, whatever is matched and whatever fails.
LEMMA StepKeepsAnalysis ==
    ASSUME AnalysisInv, Told, [Next]_vars
    PROVE  AnalysisInv'
<1>1. CASE MatchComponents \/ EnrichmentStep
    BY <1>1, EnrichmentKeepsAnalysis
<1>2. CASE UNCHANGED enrichmentVars
    BY <1>2 DEF enrichmentVars, AnalysisInv, Scored, Ordered, AskedFromTop
<1> QED BY <1>1, <1>2, StepOfEnrichment

LEMMA AnalysisSays ==
    ASSUME AnalysisInv, Told
    PROVE  InventoryKept /\ WorseFirst
<1>1. InventoryKept
  <2>1. ASSUME pc \in {"epss", "kev", "rank"}
        PROVE  [i \in DOMAIN matches |-> Plain(matches[i])] = [i \in DOMAIN first |-> Plain(first[i])]
    <3>1. DOMAIN matches = DOMAIN first /\ \A i \in DOMAIN matches : Plain(matches[i]) = Plain(first[i])
      BY <2>1 DEF AnalysisInv, Ordered, PlainKept, Late
    <3> QED BY <3>1
  <2> QED BY <2>1 DEF InventoryKept, AnalysisInv, Ordered
<1>2. WorseFirst
  <2>1. \A i \in DOMAIN narratives : narratives[i] = matches[i]
    BY DEF AnalysisInv, AskedFromTop
  <2>2. ASSUME pc \in Late, NEW i \in DOMAIN matches, NEW j \in DOMAIN matches,
               Above(matches[i], matches[j])
        PROVE  i < j
    <3>1. DOMAIN matches \subseteq Int /\ matches \in Seq(ComponentMatch)
      BY LenProperties DEF AnalysisInv, Scored
    <3>2. ~(j < i)
      BY <2>2 DEF AnalysisInv, Ordered
    <3>3. i # j
      BY <2>2, <3>1, PrecedesOrders
    <3> QED BY <3>1, <3>2, <3>3
  <2>3. \A i \in DOMAIN matches : matches[i] \in ComponentMatch
    BY ElementOfSeq, LenProperties DEF AnalysisInv, Scored
  <2> QED BY <2>1, <2>2, <2>3, WorseIsAbove DEF WorseFirst, Late
<1> QED BY <1>1, <1>2

-----------------------------------------------------------------------------

\* The invariant of the analysis holds along every scan.
LEMMA AnalysisInvariant == Spec => []AnalysisInv
<1>1. Init => AnalysisInv
    BY AnalysisInitHolds
<1>2. CommandInv /\ AnalysisInv /\ [Next]_vars => AnalysisInv'
    BY StepKeepsAnalysis DEF CommandInv
<1>3. QED
    BY <1>1, <1>2, CommandInvariant, PTL DEF Spec

\* Whatever is matched, looked up or fails, `scan` reports the components and CVEs that
\* the match had, each once (cli.py _reenrich, rank_matches).
THEOREM ScanInventoryKept == Spec => []InventoryKept
<1>1. CommandInv /\ AnalysisInv => InventoryKept
    BY AnalysisSays DEF CommandInv
<1>2. QED
    BY <1>1, CommandInvariant, AnalysisInvariant, PTL

\* A component that is worse than another one in some factor of PRisk and as bad in the
\* others is above it in the report and comes first to the language model, for any
\* number of components with any scores (scoring.py rank_matches).
THEOREM ScanWorseFirst == Spec => []WorseFirst
<1>1. CommandInv /\ AnalysisInv => WorseFirst
    BY AnalysisSays DEF CommandInv
<1>2. QED
    BY <1>1, CommandInvariant, AnalysisInvariant, PTL

-----------------------------------------------------------------------------
(* What the lists of the lookup are made of, by induction over their length. *)

\* Induction up to n, over a set.
LEMMA UpToInduction ==
    ASSUME NEW n \in Nat, NEW S, 0 \in S, \A i \in 1 .. n : i - 1 \in S => i \in S
    PROVE  \A i \in 0 .. n : i \in S
<1> DEFINE Bad == {i \in 0 .. n : i \notin S}
<1> SUFFICES ASSUME Bad # {} PROVE FALSE
    OBVIOUS
<1>1. Bad \in SUBSET Nat
    OBVIOUS
<1>2. PICK i \in Bad : \A j \in Bad : i <= j
    BY <1>1, Least
<1>3. i \in 1 .. n /\ i - 1 \in 0 .. n /\ i - 1 \notin Bad
    BY <1>2
<1> QED BY <1>3

\* What is in two lists together, and in a list and one more.
LEMMA SetOfConcat ==
    ASSUME NEW T, NEW s \in Seq(T), NEW t \in Seq(T)
    PROVE  SX!ToSet(s \o t) = SX!ToSet(s) \cup SX!ToSet(t)
<1>1. /\ Len(s) \in Nat /\ Len(t) \in Nat
      /\ DOMAIN s = 1 .. Len(s) /\ DOMAIN t = 1 .. Len(t)
    BY LenProperties
<1>2. DOMAIN (s \o t) = 1 .. Len(s) + Len(t)
  <2>1. s \o t \in Seq(T) /\ Len(s \o t) = Len(s) + Len(t)
    BY ConcatProperties
  <2> QED BY <2>1, LenProperties
<1>3. \A i \in 1 .. Len(s) + Len(t) :
        (s \o t)[i] = IF i <= Len(s) THEN s[i] ELSE t[i - Len(s)]
    BY ConcatProperties
<1>4. ASSUME NEW x \in SX!ToSet(s \o t) PROVE x \in SX!ToSet(s) \cup SX!ToSet(t)
    BY <1>1, <1>2, <1>3 DEF SX!ToSet
<1>5. ASSUME NEW i \in DOMAIN s PROVE s[i] \in SX!ToSet(s \o t)
    BY <1>1, <1>2, <1>3 DEF SX!ToSet
<1>6. ASSUME NEW i \in DOMAIN t PROVE t[i] \in SX!ToSet(s \o t)
  <2>1. Len(s) + i \in 1 .. Len(s) + Len(t) /\ (s \o t)[Len(s) + i] = t[i]
    BY <1>1, <1>3
  <2> QED BY <1>2, <2>1 DEF SX!ToSet
<1> QED BY <1>4, <1>5, <1>6 DEF SX!ToSet

LEMMA SetOfAppend ==
    ASSUME NEW T, NEW s \in Seq(T), NEW e \in T
    PROVE  SX!ToSet(Append(s, e)) = SX!ToSet(s) \cup {e}
<1>1. /\ Len(s) \in Nat /\ DOMAIN s = 1 .. Len(s)
      /\ DOMAIN Append(s, e) = 1 .. Len(s) + 1
    BY AppendProperties, LenProperties
<1>2. /\ \A i \in 1 .. Len(s) : Append(s, e)[i] = s[i]
      /\ Append(s, e)[Len(s) + 1] = e
    BY AppendProperties
<1>3. \A i \in 1 .. Len(s) + 1 : i \in 1 .. Len(s) \/ i = Len(s) + 1
    BY <1>1
<1> QED BY <1>1, <1>2, <1>3 DEF SX!ToSet

\* The records are those of the matches.
LEMMA RecordsOfAll ==
    ASSUME NEW ms \in Seq(ComponentMatch)
    PROVE  Records(ms) \in Seq(Record) /\ SX!ToSet(Records(ms)) = RecordsOf(ms)
<1> DEFINE n == Len(ms)
           upTo[i \in 0 .. n] == IF i = 0 THEN <<>> ELSE upTo[i - 1] \o ms[i].cves
           Before(i) == {RecordAt(ms, place) : place \in {p \in Places(ms) : p[1] <= i}}
           S == {i \in 0 .. n : upTo[i] \in Seq(Record) /\ SX!ToSet(upTo[i]) = Before(i)}
<1>1. n \in Nat /\ DOMAIN ms = 1 .. n /\ \A i \in 1 .. n : ms[i].cves \in Seq(Record)
  <2>1. ASSUME NEW i \in 1 .. Len(ms) PROVE ms[i].cves \in Seq(Record)
    <3>1. ms[i] \in ComponentMatch
      BY ElementOfSeq
    <3> QED BY ONLY <3>1 DEF ComponentMatch
  <2> QED BY <2>1, LenProperties
<1>2. upTo = [i \in 0 .. n |-> IF i = 0 THEN <<>> ELSE upTo[i - 1] \o ms[i].cves]
  <2>1. FiniteNatInductiveDefHypothesis(upTo, <<>>, LAMBDA v, i : v \o ms[i].cves, 0, n)
    BY DEF FiniteNatInductiveDefHypothesis
  <2>2. FiniteNatInductiveDefConclusion(upTo, <<>>, LAMBDA v, i : v \o ms[i].cves, 0, n)
    BY ONLY <1>1, <2>1, FiniteNatInductiveDef, 0 \in Nat
  <2> QED BY ONLY <2>2 DEF FiniteNatInductiveDefConclusion
<1>3. Records(ms) = upTo[n]
    BY DEF Records
<1> HIDE DEF upTo, n
<1>4. 0 \in S
  <2>1. upTo[0] = <<>> /\ <<>> \in Seq(Record) /\ SX!ToSet(<<>>) = {}
    BY <1>1, <1>2, EmptySeq, LenProperties DEF SX!ToSet
  <2>2. Before(0) = {}
    BY <1>1 DEF Places
  <2>3. 0 \in 0 .. n
    BY <1>1
  <2> HIDE DEF Before
  <2> QED BY ONLY <2>1, <2>2, <2>3
<1>5. ASSUME NEW i \in 1 .. n, i - 1 \in S PROVE i \in S
  <2>1. i \in 0 .. n /\ i # 0 /\ ms[i].cves \in Seq(Record)
    BY <1>1
  <2> DEFINE c == ms[i].cves
  <2>2. upTo[i] = upTo[i - 1] \o c
    BY ONLY <1>2, <2>1
  <2>3. upTo[i - 1] \in Seq(Record) /\ SX!ToSet(upTo[i - 1]) = Before(i - 1)
    BY <1>5
  <2> HIDE DEF c, Before
  <2>4. upTo[i] \in Seq(Record) /\ SX!ToSet(upTo[i]) = Before(i - 1) \cup SX!ToSet(c)
    BY <2>1, <2>2, <2>3, SetOfConcat, ConcatProperties DEF c
  <2>5. Before(i) = Before(i - 1) \cup SX!ToSet(ms[i].cves)
    <3>1. \A p \in Places(ms) : p[1] \in 1 .. n /\ (p[1] <= i <=> p[1] <= i - 1 \/ p[1] = i)
      BY <1>1 DEF Places
    <3>2. {RecordAt(ms, p) : p \in {q \in Places(ms) : q[1] = i}} = SX!ToSet(ms[i].cves)
      <4>1. ASSUME NEW p \in Places(ms), p[1] = i PROVE RecordAt(ms, p) \in SX!ToSet(ms[i].cves)
        BY <4>1 DEF Places, RecordAt, SX!ToSet
      <4>2. ASSUME NEW k \in DOMAIN ms[i].cves
            PROVE  /\ <<i, k>> \in Places(ms) /\ <<i, k>>[1] = i
                   /\ RecordAt(ms, <<i, k>>) = ms[i].cves[k]
        BY <1>1 DEF Places, RecordAt
      <4> QED BY <4>1, <4>2 DEF SX!ToSet
    <3> QED BY <3>1, <3>2 DEF Before
  <2> QED BY ONLY <2>1, <2>4, <2>5 DEF c
<1>6. n \in S
  <2> HIDE DEF S
  <2>1. n \in 0 .. n
    BY <1>1
  <2> QED BY ONLY <1>1, <1>4, <1>5, <2>1, UpToInduction
<1>7. Before(n) = RecordsOf(ms)
  <2>1. \A p \in Places(ms) : p[1] <= n
    BY <1>1 DEF Places
  <2> QED BY <2>1 DEF RecordsOf
<1> QED BY <1>3, <1>6, <1>7

\* No element stands twice in the list.
Distinct(s) == \A i, j \in DOMAIN s : s[i] = s[j] => i = j

\* dict.fromkeys has what the list has, once.
LEMMA NormalizedOnce ==
    ASSUME NEW cves \in Seq(Cve)
    PROVE  /\ Normalized(cves) \in Seq(Cve)
           /\ SX!ToSet(Normalized(cves)) = SX!ToSet(cves)
           /\ Distinct(Normalized(cves))
<1> DEFINE n == Len(cves)
           seen[i \in 0 .. n] == IF i = 0 THEN <<>> ELSE Noticed(seen[i - 1], cves[i])
           Before(i) == {cves[j] : j \in 1 .. i}
           S == {i \in 0 .. n : /\ seen[i] \in Seq(Cve) /\ Distinct(seen[i])
                                /\ SX!ToSet(seen[i]) = Before(i)}
<1>1. n \in Nat /\ DOMAIN cves = 1 .. n /\ \A i \in 1 .. n : cves[i] \in Cve
    BY LenProperties
<1>2. seen = [i \in 0 .. n |-> IF i = 0 THEN <<>> ELSE Noticed(seen[i - 1], cves[i])]
  <2>1. FiniteNatInductiveDefHypothesis(seen, <<>>, LAMBDA v, i : Noticed(v, cves[i]), 0, n)
    BY DEF FiniteNatInductiveDefHypothesis
  <2>2. FiniteNatInductiveDefConclusion(seen, <<>>, LAMBDA v, i : Noticed(v, cves[i]), 0, n)
    BY ONLY <1>1, <2>1, FiniteNatInductiveDef, 0 \in Nat
  <2> QED BY ONLY <2>2 DEF FiniteNatInductiveDefConclusion
<1>3. Normalized(cves) = seen[n]
    BY DEF Normalized
<1> HIDE DEF seen, n
<1>4. 0 \in S
  <2>1. seen[0] = <<>> /\ <<>> \in Seq(Cve) /\ SX!ToSet(<<>>) = {} /\ Distinct(<<>>)
    BY <1>1, <1>2, EmptySeq, LenProperties DEF SX!ToSet, Distinct
  <2>2. Before(0) = {}
    OBVIOUS
  <2>3. 0 \in 0 .. n
    BY <1>1
  <2> HIDE DEF Before
  <2> QED BY ONLY <2>1, <2>2, <2>3
<1>5. ASSUME NEW i \in 1 .. n, i - 1 \in S PROVE i \in S
  <2>1. seen[i] = Noticed(seen[i - 1], cves[i]) /\ cves[i] \in Cve
    BY <1>1, <1>2
  <2>2. Before(i) = Before(i - 1) \cup {cves[i]}
    <3>1. \A j \in Nat : j \in 1 .. i <=> j \in 1 .. i - 1 \/ j = i
      BY <1>1
    <3> QED BY <3>1, <1>1
  <2>3. seen[i - 1] \in Seq(Cve) /\ Distinct(seen[i - 1]) /\ SX!ToSet(seen[i - 1]) = Before(i - 1)
    BY <1>5
  <2> HIDE DEF Before
  <2>4. CASE cves[i] \in SX!ToSet(seen[i - 1])
    <3>1. seen[i] = seen[i - 1] /\ Before(i) = Before(i - 1)
      BY <2>1, <2>2, <2>3, <2>4 DEF Noticed
    <3> QED BY <3>1, <2>3, <1>1
  <2>5. CASE cves[i] \notin SX!ToSet(seen[i - 1])
    <3> DEFINE s == seen[i - 1]
    <3>1. seen[i] = Append(s, cves[i])
      BY <2>1, <2>5 DEF Noticed
    <3>2. Append(s, cves[i]) \in Seq(Cve) /\ SX!ToSet(Append(s, cves[i])) = Before(i)
      BY <2>1, <2>2, <2>3, SetOfAppend, AppendProperties
    <3>3. Distinct(Append(s, cves[i]))
      <4>1. /\ Len(s) \in Nat /\ DOMAIN s = 1 .. Len(s)
            /\ DOMAIN Append(s, cves[i]) = 1 .. Len(s) + 1
            /\ \A j \in 1 .. Len(s) : Append(s, cves[i])[j] = s[j]
            /\ Append(s, cves[i])[Len(s) + 1] = cves[i]
        BY <2>1, <2>3, <3>2, AppendProperties, LenProperties
      <4>2. \A j \in 1 .. Len(s) : s[j] # cves[i]
        BY <2>5, <4>1 DEF SX!ToSet
      <4> HIDE DEF s
      <4>3. \A j \in 1 .. Len(s) + 1 : j \in 1 .. Len(s) \/ j = Len(s) + 1
        BY <4>1
      <4> QED BY <4>1, <4>2, <4>3, <2>3 DEF Distinct, s
    <3>4. i \in 0 .. n
      BY <1>1
    <3> QED BY ONLY <3>1, <3>2, <3>3, <3>4
  <2> QED BY <2>4, <2>5
<1>6. n \in S
  <2> HIDE DEF S
  <2>1. n \in 0 .. n
    BY <1>1
  <2> QED BY ONLY <1>1, <1>4, <1>5, <2>1, UpToInduction
<1>7. Before(n) = SX!ToSet(cves)
    BY <1>1 DEF SX!ToSet
<1> QED BY <1>3, <1>6, <1>7

\* The length of a query is a number.
LEMMA QueryLengthType ==
    ASSUME NEW cves \in Seq(Cve)
    PROVE  QueryLength(cves) \in Int
<1> DEFINE n == Len(cves)
           length[i \in 0 .. n] == IF i = 0 THEN -1 ELSE length[i - 1] + Length[cves[i]] + 1
           S == {i \in 0 .. n : length[i] \in Int}
<1>1. n \in Nat /\ \A i \in 1 .. n : Length[cves[i]] \in Int
  <2>1. \A i \in 1 .. Len(cves) : cves[i] \in Cve
    BY LenProperties
  <2> QED BY <2>1, LenProperties, EnrichmentAssumption
<1>2. length = [i \in 0 .. n |-> IF i = 0 THEN -1 ELSE length[i - 1] + Length[cves[i]] + 1]
  <2>1. FiniteNatInductiveDefHypothesis(length, -1, LAMBDA v, i : v + Length[cves[i]] + 1, 0, n)
    BY DEF FiniteNatInductiveDefHypothesis
  <2>2. FiniteNatInductiveDefConclusion(length, -1, LAMBDA v, i : v + Length[cves[i]] + 1, 0, n)
    BY ONLY <1>1, <2>1, FiniteNatInductiveDef, 0 \in Nat
  <2> QED BY ONLY <2>2 DEF FiniteNatInductiveDefConclusion
<1>3. QueryLength(cves) = length[n]
    BY DEF QueryLength
<1> HIDE DEF length, n
<1>4. 0 \in S
    BY <1>1, <1>2
<1>5. ASSUME NEW i \in 1 .. n, i - 1 \in S PROVE i \in S
  <2>1. i \in 0 .. n /\ i # 0
    BY <1>1
  <2>2. length[i] = length[i - 1] + Length[cves[i]] + 1
    BY <1>2, <2>1
  <2> QED BY <1>1, <1>5, <2>1, <2>2
<1>6. n \in S
  <2> HIDE DEF S
  <2>1. n \in 0 .. n
    BY <1>1
  <2> QED BY ONLY <1>1, <1>4, <1>5, <2>1, UpToInduction
<1> QED BY <1>3, <1>6

-----------------------------------------------------------------------------
(* The queries for a list of CVEs.                                          *)

Asked(all) == UNION {{c} \X DOMAIN all[c] : c \in DOMAIN all}
CveAt(all, place) == all[place[1]][place[2]]

\* All of S is asked for, and once.
AskedOnce(all, S) ==
    /\ {CveAt(all, place) : place \in Asked(all)} = S
    /\ \A p, q \in Asked(all) : CveAt(all, p) = CveAt(all, q) => p = q

NotTooLong(query) == Len(query) > 1 => QueryLength(query) <= MaxChars

Chunking(all, S) ==
    /\ all \in Seq(Seq(Cve))
    /\ AskedOnce(all, S)
    /\ \A c \in DOMAIN all : NotTooLong(all[c])

\* A CVE that was not asked for, at a place of its own.
LEMMA OneMoreAsked ==
    ASSUME NEW S, NEW all, AskedOnce(all, S), NEW new, NEW place, NEW cve, cve \notin S,
           Asked(new) = Asked(all) \cup {place}, CveAt(new, place) = cve,
           \A q \in Asked(all) : CveAt(new, q) = CveAt(all, q)
    PROVE  AskedOnce(new, S \cup {cve})
<1>1. \A q \in Asked(all) : CveAt(new, q) \in S
    BY DEF AskedOnce
<1>2. {CveAt(new, q) : q \in Asked(new)} = S \cup {cve}
    BY DEF AskedOnce
<1>3. ASSUME NEW p \in Asked(new), NEW q \in Asked(new), CveAt(new, p) = CveAt(new, q)
      PROVE  p = q
    BY <1>1, <1>3 DEF AskedOnce
<1> QED BY <1>2, <1>3 DEF AskedOnce

\* What a list with one query more asks for.
LEMMA AskedByAppended ==
    ASSUME NEW all \in Seq(Seq(Cve)), NEW query \in Seq(Cve)
    PROVE  /\ Append(all, query) \in Seq(Seq(Cve))
           /\ DOMAIN Append(all, query) = DOMAIN all \cup {Len(all) + 1}
           /\ Len(all) + 1 \notin DOMAIN all
           /\ Append(all, query)[Len(all) + 1] = query
           /\ \A c \in DOMAIN all : Append(all, query)[c] = all[c]
           /\ Asked(Append(all, query)) = Asked(all) \cup ({Len(all) + 1} \X (1 .. Len(query)))
<1> DEFINE new == Append(all, query)
           l == Len(all)
<1>1. /\ l \in Nat /\ DOMAIN all = 1 .. l /\ DOMAIN query = 1 .. Len(query)
      /\ new \in Seq(Seq(Cve)) /\ DOMAIN new = 1 .. l + 1
      /\ new[l + 1] = query /\ \A c \in 1 .. l : new[c] = all[c]
    BY AppendProperties, LenProperties
<1>2. DOMAIN new = DOMAIN all \cup {l + 1} /\ l + 1 \notin DOMAIN all
  <2> HIDE DEF l, new
  <2>1. 1 .. l + 1 = (1 .. l) \cup {l + 1}
    BY <1>1
  <2> QED BY <1>1, <2>1
<1>3. Asked(new) = Asked(all) \cup ({l + 1} \X (1 .. Len(query)))
  <2> HIDE DEF new, l
  <2> QED BY <1>1, <1>2 DEF Asked
<1> QED BY <1>1, <1>2, <1>3

\* A query of its own is not too long.
LEMMA ChunkAppended ==
    ASSUME NEW S, NEW all, Chunking(all, S), NEW cve \in Cve, cve \notin S
    PROVE  Chunking(Append(all, <<cve>>), S \cup {cve})
<1> DEFINE new == Append(all, <<cve>>)
           place == <<Len(all) + 1, 1>>
<1>1. all \in Seq(Seq(Cve)) /\ <<cve>> \in Seq(Cve) /\ Len(<<cve>>) = 1 /\ <<cve>>[1] = cve
    BY DEF Chunking
<1>2. /\ new \in Seq(Seq(Cve)) /\ DOMAIN new = DOMAIN all \cup {Len(all) + 1}
      /\ new[Len(all) + 1] = <<cve>> /\ \A c \in DOMAIN all : new[c] = all[c]
      /\ Asked(new) = Asked(all) \cup ({Len(all) + 1} \X (1 .. 1))
    BY <1>1, AskedByAppended
<1> HIDE DEF new
<1>3. Asked(new) = Asked(all) \cup {place}
  <2>1. 1 .. 1 = {1}
    OBVIOUS
  <2> QED BY <1>2, <2>1
<1>4. CveAt(new, place) = cve
    BY <1>1, <1>2 DEF CveAt
<1>5. \A q \in Asked(all) : CveAt(new, q) = CveAt(all, q)
    BY <1>2 DEF CveAt, Asked
<1> HIDE DEF place
<1>6. AskedOnce(new, S \cup {cve})
    BY <1>3, <1>4, <1>5, OneMoreAsked DEF Chunking
<1>7. \A c \in DOMAIN new : NotTooLong(new[c])
  <2>1. NotTooLong(<<cve>>)
    BY <1>1 DEF NotTooLong
  <2>2. \A c \in DOMAIN all : NotTooLong(all[c])
    BY DEF Chunking
  <2> QED BY ONLY <1>2, <2>1, <2>2
<1> QED BY <1>2, <1>6, <1>7 DEF Chunking, new

\* A CVE more in the last query, as long as that is not too long.
LEMMA ChunkExtended ==
    ASSUME NEW S, NEW done \in Seq(Seq(Cve)), NEW query \in Seq(Cve),
           Chunking(Append(done, query), S), NEW cve \in Cve, cve \notin S,
           NotTooLong(Append(query, cve))
    PROVE  Chunking(Append(done, Append(query, cve)), S \cup {cve})
<1> DEFINE all == Append(done, query)
           longer == Append(query, cve)
           new == Append(done, longer)
           place == <<Len(done) + 1, Len(query) + 1>>
<1>1. /\ longer \in Seq(Cve) /\ Len(longer) = Len(query) + 1 /\ Len(query) \in Nat
      /\ longer[Len(query) + 1] = cve /\ \A k \in 1 .. Len(query) : longer[k] = query[k]
    BY AppendProperties, LenProperties
<1> HIDE DEF longer
<1>2. /\ new \in Seq(Seq(Cve)) /\ DOMAIN new = DOMAIN done \cup {Len(done) + 1}
      /\ Len(done) + 1 \notin DOMAIN done
      /\ new[Len(done) + 1] = longer /\ \A c \in DOMAIN done : new[c] = done[c]
      /\ Asked(new) = Asked(done) \cup ({Len(done) + 1} \X (1 .. Len(query) + 1))
    BY <1>1, AskedByAppended
<1>3. /\ DOMAIN all = DOMAIN done \cup {Len(done) + 1}
      /\ all[Len(done) + 1] = query /\ \A c \in DOMAIN done : all[c] = done[c]
      /\ Asked(all) = Asked(done) \cup ({Len(done) + 1} \X (1 .. Len(query)))
    BY AskedByAppended
<1> HIDE DEF new, all
<1>4. Asked(new) = Asked(all) \cup {place}
  <2>1. 1 .. Len(query) + 1 = (1 .. Len(query)) \cup {Len(query) + 1}
    BY <1>1
  <2> QED BY <1>2, <1>3, <2>1
<1>5. CveAt(new, place) = cve
    BY <1>1, <1>2 DEF CveAt
<1>6. ASSUME NEW q \in Asked(all) PROVE CveAt(new, q) = CveAt(all, q)
  <2>1. CASE q \in Asked(done)
    BY <2>1, <1>2, <1>3 DEF CveAt, Asked
  <2>2. CASE q \in {Len(done) + 1} \X (1 .. Len(query))
    BY <2>2, <1>1, <1>2, <1>3 DEF CveAt
  <2> QED BY <1>3, <2>1, <2>2
<1> HIDE DEF place
<1>7. AskedOnce(new, S \cup {cve})
    BY <1>4, <1>5, <1>6, OneMoreAsked DEF Chunking, all
<1>8. \A c \in DOMAIN new : NotTooLong(new[c])
    BY <1>2, <1>3 DEF Chunking, all, longer
<1> QED BY <1>2, <1>7, <1>8 DEF Chunking, new, longer

\* An empty query asks for nothing.
LEMMA ChunkDropped ==
    ASSUME NEW S, NEW done \in Seq(Seq(Cve)), Chunking(Append(done, <<>>), S)
    PROVE  Chunking(done, S)
<1> DEFINE all == Append(done, <<>>)
<1>1. <<>> \in Seq(Cve) /\ Len(<<>>) = 0
    OBVIOUS
<1>2. /\ DOMAIN all = DOMAIN done \cup {Len(done) + 1} /\ \A c \in DOMAIN done : all[c] = done[c]
      /\ Asked(all) = Asked(done) \cup ({Len(done) + 1} \X (1 .. 0))
    BY <1>1, AskedByAppended
<1> HIDE DEF all
<1>3. Asked(all) = Asked(done)
    BY <1>2
<1>4. \A q \in Asked(done) : CveAt(all, q) = CveAt(done, q)
    BY <1>2 DEF CveAt, Asked
<1>5. AskedOnce(done, S)
    BY <1>3, <1>4 DEF Chunking, AskedOnce, all
<1>6. \A c \in DOMAIN done : NotTooLong(done[c])
    BY <1>2 DEF Chunking, all
<1> QED BY <1>5, <1>6 DEF Chunking

\* epss_scores asks for every CVE once, and for no other.
LEMMA QueryChunksAsk ==
    ASSUME NEW cves \in Seq(Cve), Distinct(cves)
    PROVE  Chunking(QueryChunks(cves), SX!ToSet(cves))
<1> DEFINE n == Len(cves)
           start == [chunks |-> <<>>, current |-> <<>>]
           built[i \in 0 .. n] == IF i = 0 THEN start ELSE Extend(built[i - 1], cves[i])
           Before(i) == {cves[j] : j \in 1 .. i}
           Builds == [chunks : Seq(Seq(Cve)), current : Seq(Cve)]
           All(build) == Append(build.chunks, build.current)
           S == {i \in 0 .. n : built[i] \in Builds /\ Chunking(All(built[i]), Before(i))}
<1>1. n \in Nat /\ DOMAIN cves = 1 .. n /\ \A i \in 1 .. n : cves[i] \in Cve
    BY LenProperties
<1>2. built = [i \in 0 .. n |-> IF i = 0 THEN start ELSE Extend(built[i - 1], cves[i])]
  <2>1. FiniteNatInductiveDefHypothesis(built, start, LAMBDA v, i : Extend(v, cves[i]), 0, n)
    BY DEF FiniteNatInductiveDefHypothesis
  <2>2. FiniteNatInductiveDefConclusion(built, start, LAMBDA v, i : Extend(v, cves[i]), 0, n)
    BY ONLY <1>1, <2>1, FiniteNatInductiveDef, 0 \in Nat
  <2> QED BY ONLY <2>2 DEF FiniteNatInductiveDefConclusion
<1>3. QueryChunks(cves) = IF built[n].current = <<>> THEN built[n].chunks ELSE All(built[n])
    BY DEF QueryChunks
<1> HIDE DEF built, n
<1>4. 0 \in S
  <2>1. built[0] = start /\ 0 \in 0 .. n
    BY <1>1, <1>2
  <2>2. start \in Builds /\ start.chunks = <<>> /\ start.current = <<>>
    OBVIOUS
  <2>3. Chunking(Append(<<>>, <<>>), Before(0))
    <3> DEFINE all == Append(<<>>, <<>>)
    <3>1. all \in Seq(Seq(Cve)) /\ DOMAIN all = {1} /\ all[1] = <<>>
      <4>1. Append(<<>>, <<>>) = << <<>> >>
        OBVIOUS
      <4> QED BY <4>1
    <3> HIDE DEF all
    <3>2. DOMAIN <<>> = {} /\ Len(<<>>) = 0
      OBVIOUS
    <3>3. Asked(all) = {}
      BY <3>1, <3>2 DEF Asked
    <3>4. Before(0) = {}
      OBVIOUS
    <3> QED BY <3>1, <3>2, <3>3, <3>4 DEF Chunking, AskedOnce, NotTooLong, all
  <2> HIDE DEF Builds, start, Before
  <2> QED BY <2>1, <2>2, <2>3
<1>5. ASSUME NEW i \in 1 .. n, i - 1 \in S PROVE i \in S
  <2> DEFINE old == built[i - 1]
             cve == cves[i]
  <2>1. built[i] = Extend(old, cve) /\ cve \in Cve /\ i \in 0 .. n
    BY <1>1, <1>2
  <2>2. Before(i) = Before(i - 1) \cup {cve}
    <3>1. \A j \in Nat : j \in 1 .. i <=> j \in 1 .. i - 1 \/ j = i
      BY <1>1
    <3> QED BY <3>1, <1>1
  <2>3. cve \notin Before(i - 1)
    <3>1. \A j \in 1 .. i - 1 : j \in DOMAIN cves /\ j # i /\ i \in DOMAIN cves
      BY <1>1
    <3> QED BY <3>1 DEF Distinct
  <2>4. /\ old.chunks \in Seq(Seq(Cve)) /\ old.current \in Seq(Cve) /\ old \in Builds
        /\ Chunking(Append(old.chunks, old.current), Before(i - 1))
    BY <1>5
  <2> HIDE DEF old, cve, Before
  <2>5. CASE old.current # <<>> /\ QueryLength(Append(old.current, cve)) > MaxChars
    <3>1. built[i] = [chunks |-> Append(old.chunks, old.current), current |-> <<cve>>]
      BY <2>1, <2>5 DEF Extend
    <3>2. Append(old.chunks, old.current) \in Seq(Seq(Cve)) /\ <<cve>> \in Seq(Cve)
      BY <2>1, <2>4, AppendProperties
    <3>3. Chunking(Append(Append(old.chunks, old.current), <<cve>>), Before(i))
      BY <2>1, <2>2, <2>3, <2>4, ChunkAppended
    <3>4. built[i] \in Builds
      BY <3>1, <3>2
    <3>5. Chunking(All(built[i]), Before(i))
      BY <3>1, <3>3
    <3> HIDE DEF Builds, All
    <3> QED BY <2>1, <3>4, <3>5
  <2>6. CASE ~(old.current # <<>> /\ QueryLength(Append(old.current, cve)) > MaxChars)
    <3>1. Append(old.current, cve) \in Seq(Cve)
      BY <2>1, <2>4, AppendProperties
    <3>2. built[i] = [chunks |-> old.chunks, current |-> Append(old.current, cve)]
      BY <2>1, <2>4, <2>6 DEF Extend
    <3>3. NotTooLong(Append(old.current, cve))
      <4>1. CASE old.current = <<>>
        <5>1. Len(Append(old.current, cve)) = 1
          BY <4>1
        <5> QED BY <5>1 DEF NotTooLong
      <4>2. CASE old.current # <<>>
        <5>1. QueryLength(Append(old.current, cve)) \in Int
          BY ONLY <3>1, QueryLengthType
        <5>2. MaxChars \in Int
          BY ONLY EnrichmentAssumption
        <5> QED BY <4>2, <5>1, <5>2, <2>6 DEF NotTooLong
      <4> QED BY <4>1, <4>2
    <3>4. Chunking(Append(old.chunks, Append(old.current, cve)), Before(i))
      BY <2>1, <2>2, <2>3, <2>4, <3>3, ChunkExtended
    <3>5. built[i] \in Builds
      BY <3>1, <3>2, <2>4
    <3>6. Chunking(All(built[i]), Before(i))
      BY <3>2, <3>4
    <3> HIDE DEF Builds, All
    <3> QED BY <2>1, <3>5, <3>6
  <2> QED BY <2>5, <2>6
<1>6. n \in S
  <2> HIDE DEF S
  <2>1. n \in 0 .. n
    BY <1>1
  <2> QED BY ONLY <1>1, <1>4, <1>5, <2>1, UpToInduction
<1>7. Before(n) = SX!ToSet(cves)
    BY <1>1 DEF SX!ToSet
<1> HIDE DEF Before, All
<1>8. built[n].chunks \in Seq(Seq(Cve)) /\ Chunking(All(built[n]), SX!ToSet(cves))
    BY <1>6, <1>7
<1> QED BY <1>3, <1>8, ChunkDropped DEF All

\* The CVEs of the list that is enriched.
LEMMA CvesOfMatches ==
    ASSUME NEW ms \in Seq(ComponentMatch)
    PROVE  /\ Cves(ms) \in Seq(Cve) /\ Distinct(Cves(ms))
           /\ SX!ToSet(Cves(ms)) = {record.cve : record \in RecordsOf(ms)}
<1> DEFINE records == Records(ms)
           ids == [i \in DOMAIN records |-> records[i].cve]
<1>1. records \in Seq(Record) /\ SX!ToSet(records) = RecordsOf(ms)
    BY RecordsOfAll
<1> HIDE DEF records
<1>2. Len(records) \in Nat /\ DOMAIN records = 1 .. Len(records)
    BY <1>1, LenProperties
<1>3. \A i \in 1 .. Len(records) : records[i].cve \in Cve
  <2>1. \A i \in 1 .. Len(records) : records[i] \in Record
    BY <1>1, LenProperties
  <2> QED BY <2>1 DEF Record
<1>4. ids \in Seq(Cve)
  <2>1. ids \in [1 .. Len(records) -> Cve]
    BY <1>2, <1>3
  <2> HIDE DEF ids
  <2> QED BY <1>2, <2>1, SeqDef
<1>5. SX!ToSet(ids) = {record.cve : record \in RecordsOf(ms)}
  <2>1. \A i \in DOMAIN records : records[i] \in RecordsOf(ms)
    BY <1>1 DEF SX!ToSet
  <2>2. \A r \in RecordsOf(ms) : \E i \in DOMAIN records : r = records[i]
    BY <1>1 DEF SX!ToSet
  <2> QED BY <2>1, <2>2 DEF SX!ToSet
<1>6. Cves(ms) = Normalized(ids)
    BY DEF Cves, records
<1> HIDE DEF ids
<1> QED BY <1>4, <1>5, <1>6, NormalizedOnce

CvesOf(ms) == {record.cve : record \in RecordsOf(ms)}

\* The CVEs of a list are those of the one it was made from by enriching.
LEMMA CvesKept ==
    ASSUME NEW ms, NEW ns, PlainKept(ms, ns)
    PROVE  CvesOf(ms) \subseteq CvesOf(ns)
<1> SUFFICES ASSUME NEW i \in DOMAIN ms, NEW k \in DOMAIN ms[i].cves
             PROVE  \E record \in RecordsOf(ns) : ms[i].cves[k].cve = record.cve
    BY DEF CvesOf, RecordsOf, RecordAt, Places
<1> DEFINE mine == [j \in DOMAIN ms[i].cves |-> ms[i].cves[j].cve]
           its == [j \in DOMAIN ns[i].cves |-> ns[i].cves[j].cve]
<1>1. i \in DOMAIN ns /\ Plain(ms[i]) = Plain(ns[i])
    BY DEF PlainKept
<1>2. Plain(ms[i]).cves = mine /\ Plain(ns[i]).cves = its
    BY DEF Plain
<1>3. mine = its
    BY ONLY <1>1, <1>2
<1>4. DOMAIN mine = DOMAIN ms[i].cves /\ DOMAIN its = DOMAIN ns[i].cves
    OBVIOUS
<1>5. k \in DOMAIN ns[i].cves /\ mine[k] = ms[i].cves[k].cve /\ its[k] = ns[i].cves[k].cve
    BY ONLY <1>3, <1>4, k \in DOMAIN ms[i].cves
<1>6. <<i, k>> \in Places(ns) /\ RecordAt(ns, <<i, k>>) = ns[i].cves[k]
    BY <1>1, <1>5 DEF Places, RecordAt
<1> HIDE DEF mine, its
<1> QED BY <1>3, <1>5, <1>6 DEF RecordsOf

\* A record after the join is one the enricher returned.
LEMMA RecordsAfterJoin ==
    ASSUME NEW ms \in Seq(ComponentMatch), NEW enriched,
           NEW record \in RecordsOf(Reenriched(ms, enriched))
    PROVE  \E r \in RecordsOf(ms) : record = enriched[r]
<1> DEFINE ns == Reenriched(ms, enriched)
<1>1. PICK i \in DOMAIN ns : \E k \in DOMAIN ns[i].cves : record = ns[i].cves[k]
    BY DEF RecordsOf, RecordAt, Places
<1>2. i \in DOMAIN ms
    BY DEF Reenriched
<1>3. ms[i] \in ComponentMatch
    BY <1>2, ElementOfSeq, LenProperties
<1> DEFINE cves == [k \in DOMAIN ms[i].cves |-> enriched[LastOf(ms, ms[i].cves[k].cve)]]
<1>4. ns[i] = [ms[i] EXCEPT !.cves = cves]
    BY <1>2 DEF Reenriched
<1>5. DOMAIN cves = DOMAIN ms[i].cves
    OBVIOUS
<1>6. ns[i].cves = cves
  <2> HIDE DEF cves, ns
  <2> QED BY <1>3, <1>4 DEF ComponentMatch
<1>7. PICK k \in DOMAIN ms[i].cves : record = enriched[LastOf(ms, ms[i].cves[k].cve)]
    BY <1>1, <1>5, <1>6
<1>8. <<i, k>> \in Places(ms) /\ RecordAt(ms, <<i, k>>) = ms[i].cves[k]
    BY <1>2 DEF Places, RecordAt
<1> QED BY <1>7, <1>8, LastOfIsOne

-----------------------------------------------------------------------------
(* What every step of the lookup of scores keeps.                           *)

\* The queries ask for what was matched, and the first of them have been made.
Asking ==
    /\ pc = "match" => ~useEpss /\ chunks = <<>> /\ chunk = 1 /\ failed = {}
    /\ useEpss => Chunking(chunks, CvesOf(first))
    /\ ~useEpss => chunks = <<>>
    /\ chunk \in Nat \ {0} /\ failed \subseteq {c \in DOMAIN chunks : c < chunk}
    /\ pc # "epss" => ~MoreChunks

Answered == {c \in DOMAIN chunks : c < chunk /\ c \notin failed}

\* The dictionary has what those that did not fail have brought.
HasAnswers ==
    /\ DOMAIN scores = {cve \in Cve : /\ Published[cve] # NoScore
                                      /\ \E c \in Answered : cve \in SX!ToSet(chunks[c])}
    /\ \A cve \in DOMAIN scores : scores[cve] = Published[cve]

\* After the join every record has its score.
Joined ==
    useEpss /\ pc \notin {"match", "epss"} =>
        \A record \in RecordsOf(matches) : record.epss = ScoreOf(record.cve)

LookupInv == Asking /\ HasAnswers /\ Joined

\* The chunks are lists of CVEs, by their numbers.
LEMMA ChunksAreLists ==
    ASSUME Asking
    PROVE  /\ chunks \in Seq(Seq(Cve)) /\ Len(chunks) \in Nat
           /\ DOMAIN chunks = 1 .. Len(chunks)
           /\ \A c \in DOMAIN chunks : SX!ToSet(chunks[c]) \subseteq Cve
<1>1. chunks \in Seq(Seq(Cve))
    BY EmptySeq DEF Asking, Chunking
<1>2. Len(chunks) \in Nat /\ DOMAIN chunks = 1 .. Len(chunks)
    BY <1>1, LenProperties
<1>3. ASSUME NEW c \in DOMAIN chunks PROVE SX!ToSet(chunks[c]) \subseteq Cve
  <2>1. chunks[c] \in Seq(Cve)
    BY <1>1, <1>2, ElementOfSeq
  <2> QED BY <2>1, LenProperties, ElementOfSeq DEF SX!ToSet
<1> QED BY <1>1, <1>2, <1>3

\* A CVE stands in one chunk only, so what the dictionary has is what can be expected.
LEMMA DictionaryTells ==
    ASSUME useEpss, Asking, HasAnswers, ~MoreChunks, NEW cve \in CvesOf(first)
    PROVE  (IF cve \in DOMAIN scores THEN scores[cve] ELSE 0) = ScoreOf(cve)
<1>1. /\ DOMAIN chunks = 1 .. Len(chunks) /\ Len(chunks) \in Nat /\ chunk \in Nat
      /\ \A c \in DOMAIN chunks : SX!ToSet(chunks[c]) \subseteq Cve
    BY ChunksAreLists DEF Asking
<1>2. AskedOnce(chunks, CvesOf(first))
    BY DEF Asking, Chunking
<1>3. PICK c \in DOMAIN chunks : \E k \in DOMAIN chunks[c] : cve = chunks[c][k]
    BY <1>2 DEF AskedOnce, Asked, CveAt
<1>4. cve \in SX!ToSet(chunks[c]) /\ cve \in Cve
    BY <1>1, <1>3 DEF SX!ToSet
<1>5. c < chunk
    BY <1>1 DEF MoreChunks
<1>6. \A d \in DOMAIN chunks : cve \in SX!ToSet(chunks[d]) => d = c
  <2> SUFFICES ASSUME NEW d \in DOMAIN chunks, NEW l \in DOMAIN chunks[d], chunks[d][l] = cve
               PROVE  d = c
    BY DEF SX!ToSet
  <2>1. PICK k \in DOMAIN chunks[c] : cve = chunks[c][k]
    BY <1>3
  <2>2. <<c, k>> \in Asked(chunks) /\ <<d, l>> \in Asked(chunks)
    BY DEF Asked
  <2>3. CveAt(chunks, <<c, k>>) = CveAt(chunks, <<d, l>>)
    BY <2>1 DEF CveAt
  <2>4. <<c, k>> = <<d, l>>
    BY <1>2, <2>2, <2>3 DEF AskedOnce
  <2> QED BY <2>4
<1>7. (\E d \in failed : cve \in SX!ToSet(chunks[d])) <=> c \in failed
    BY <1>4, <1>6 DEF Asking
<1>8. cve \in DOMAIN scores <=> Published[cve] # NoScore /\ c \notin failed
    BY <1>3, <1>4, <1>5, <1>6 DEF HasAnswers, Answered
<1>9. cve \in DOMAIN scores => scores[cve] = Published[cve]
    BY DEF HasAnswers
<1> QED BY ONLY <1>7, <1>8, <1>9 DEF ScoreOf

\* A step that keeps the chunks and what came of them, and the scores of the records.
LEMMA LaterSteps ==
    ASSUME LookupInv, pc \notin {"match", "epss"}, pc' \notin {"match", "epss"},
           UNCHANGED <<useEpss, chunks, chunk, scores, failed, first>>,
           \A record \in RecordsOf(matches') : \E r \in RecordsOf(matches) :
                record.cve = r.cve /\ record.epss = r.epss
    PROVE  LookupInv'
<1>1. Asking'
    BY DEF LookupInv, Asking, MoreChunks
<1>2. HasAnswers'
    BY DEF LookupInv, HasAnswers, Answered
<1>3. ASSUME useEpss', NEW record \in RecordsOf(matches)' PROVE record.epss = ScoreOf(record.cve)'
  <2>1. PICK r \in RecordsOf(matches) : record.cve = r.cve /\ record.epss = r.epss
    OBVIOUS
  <2>2. r.epss = ScoreOf(r.cve)
    BY <1>3 DEF LookupInv, Joined
  <2>3. ScoreOf(record.cve)' = ScoreOf(record.cve)
    BY DEF ScoreOf
  <2> QED BY <2>1, <2>2, <2>3
<1> QED BY <1>1, <1>2, <1>3 DEF LookupInv, Joined

\* What every step of the analysis keeps of the lookup.
LEMMA EnrichmentKeepsLookup ==
    ASSUME LookupInv, AnalysisInv, MatchComponents \/ EnrichmentStep
    PROVE  LookupInv'
<1>1. CASE MatchComponents
  <2>1. /\ pc = "match" /\ pc' = "epss" /\ first' \in Seq(ComponentMatch)
        /\ chunks' = IF useEpss' THEN QueryChunks(Cves(first')) ELSE <<>>
        /\ chunk' = 1 /\ failed' = {} /\ scores' = scores /\ useEpss' \in BOOLEAN
    BY <1>1, EnrichmentAssumption DEF MatchComponents, LookupInv, Asking
  <2>2. useEpss' => Chunking(chunks', CvesOf(first'))
    BY <2>1, CvesOfMatches, QueryChunksAsk DEF CvesOf
  <2>3. Asking'
    BY <2>1, <2>2 DEF Asking
  <2>4. DOMAIN scores = {} /\ Answered' = {}
    <3>1. chunks = <<>> /\ DOMAIN <<>> = {}
      BY <2>1 DEF LookupInv, Asking
    <3>2. Answered = {}
      BY <3>1 DEF Answered
    <3>3. DOMAIN scores = {}
      BY <3>2 DEF LookupInv, HasAnswers
    <3>4. DOMAIN chunks' \subseteq Nat \ {0}
      <4>1. Asking' => DOMAIN chunks' = 1 .. Len(chunks') /\ Len(chunks') \in Nat
        BY ChunksAreLists
      <4> QED BY <4>1, <2>3
    <3>5. Answered' = {}
      BY <2>1, <3>4 DEF Answered
    <3> QED BY <3>3, <3>5
  <2>5. HasAnswers'
    BY <2>1, <2>4 DEF HasAnswers
  <2>6. Joined'
    BY <2>1 DEF Joined
  <2> QED BY <2>3, <2>5, <2>6 DEF LookupInv
<1>2. CASE ChunkAnswered
  <2> DEFINE held == {cve \in SX!ToSet(chunks[chunk]) : Published[cve] # NoScore}
  <2>1. /\ pc = "epss" /\ pc' = "epss" /\ chunk <= Len(chunks) /\ chunk' = chunk + 1
        /\ UNCHANGED <<useEpss, chunks, failed, first>>
        /\ scores' = [cve \in held \cup DOMAIN scores |->
                        IF cve \in held THEN Published[cve] ELSE scores[cve]]
    BY <1>2 DEF ChunkAnswered, MoreChunks
  <2>2. /\ chunk \in Nat \ {0} /\ DOMAIN chunks = 1 .. Len(chunks) /\ Len(chunks) \in Nat
        /\ \A c \in DOMAIN chunks : SX!ToSet(chunks[c]) \subseteq Cve
    BY ChunksAreLists DEF LookupInv, Asking
  <2>3. Asking'
    BY <2>1, <2>2 DEF LookupInv, Asking
  <2>4. chunk \in DOMAIN chunks /\ chunk \notin failed
    BY <2>1, <2>2 DEF LookupInv, Asking
  <2>5. Answered' = Answered \cup {chunk}
    <3>1. \A c \in DOMAIN chunks : c < chunk + 1 <=> c < chunk \/ c = chunk
      BY <2>2
    <3> QED BY <2>1, <2>4, <3>1 DEF Answered
  <2>6. DOMAIN scores' = held \cup DOMAIN scores
    BY <2>1
  <2>7. held = {cve \in Cve : Published[cve] # NoScore /\ cve \in SX!ToSet(chunks[chunk])}
    BY <2>2, <2>4
  <2>8. \A cve \in DOMAIN scores' : scores'[cve] = Published[cve]
    BY <2>1 DEF LookupInv, HasAnswers
  <2> HIDE DEF held
  <2>9. HasAnswers'
    BY <2>1, <2>5, <2>6, <2>7, <2>8 DEF LookupInv, HasAnswers
  <2>10. Joined'
    BY <2>1 DEF Joined
  <2> QED BY <2>3, <2>9, <2>10 DEF LookupInv
<1>3. CASE ChunkFails
  <2>1. /\ pc = "epss" /\ pc' = "epss" /\ chunk <= Len(chunks) /\ chunk' = chunk + 1
        /\ failed' = failed \cup {chunk}
        /\ UNCHANGED <<useEpss, chunks, scores, first>>
    BY <1>3 DEF ChunkFails, NextChunk, MoreChunks
  <2>2. chunk \in Nat \ {0} /\ DOMAIN chunks = 1 .. Len(chunks) /\ Len(chunks) \in Nat
    BY ChunksAreLists DEF LookupInv, Asking
  <2>3. Asking'
    <3>1. chunk \in DOMAIN chunks
      BY <2>1, <2>2 DEF LookupInv, Asking
    <3> QED BY <2>1, <2>2, <3>1 DEF LookupInv, Asking
  <2>4. Answered' = Answered
    <3>1. \A c \in DOMAIN chunks : c < chunk + 1 /\ c # chunk <=> c < chunk
      BY <2>2
    <3> QED BY <2>1, <3>1 DEF Answered
  <2>5. HasAnswers' /\ Joined'
    BY <2>1, <2>4 DEF LookupInv, HasAnswers, Joined
  <2> QED BY <2>3, <2>5 DEF LookupInv
<1>4. CASE EnrichWithEpss
  <2> DEFINE enriched == [r \in RecordsOf(matches) |-> WithEpss(r)]
  <2>1. /\ pc = "epss" /\ pc' = "kev" /\ ~MoreChunks
        /\ UNCHANGED <<useEpss, chunks, chunk, scores, failed, first>>
        /\ useEpss => matches' = Reenriched(matches, enriched)
    BY <1>4 DEF EnrichWithEpss
  <2>2. Asking' /\ HasAnswers'
    BY <2>1 DEF LookupInv, Asking, HasAnswers, Answered, MoreChunks
  <2>3. ASSUME useEpss, NEW record \in RecordsOf(matches')
        PROVE  record.epss = ScoreOf(record.cve)
    <3>1. matches \in Seq(ComponentMatch) /\ PlainKept(matches, first)
      BY <2>1 DEF AnalysisInv, Scored, Ordered, Late
    <3>2. PICK r \in RecordsOf(matches) : record = enriched[r]
      <4> HIDE DEF enriched
      <4> QED BY <2>1, <2>3, <3>1, RecordsAfterJoin
    <3>3. record = WithEpss(r)
      BY <3>2
    <3>4. r \in Record
      BY <3>1, RecordsAreRecords
    <3> DEFINE score == IF r.cve \in DOMAIN scores THEN scores[r.cve] ELSE 0
    <3>5. record = [r EXCEPT !.epss = score]
      BY <3>3 DEF WithEpss
    <3>6. record.epss = score /\ record.cve = r.cve
      <4> HIDE DEF score
      <4> QED BY ONLY <3>4, <3>5 DEF Record
    <3>7. r.cve \in CvesOf(first)
      <4>1. r.cve \in CvesOf(matches)
        BY DEF CvesOf
      <4> QED BY <3>1, <4>1, CvesKept
    <3>8. score = ScoreOf(r.cve)
      BY <2>1, <2>3, <3>7, DictionaryTells DEF LookupInv
    <3> QED BY ONLY <3>6, <3>8
  <2>4. \A cve : ScoreOf(cve)' = ScoreOf(cve)
    BY <2>1 DEF ScoreOf
  <2>5. Joined'
    BY <2>1, <2>3, <2>4 DEF Joined
  <2> QED BY <2>2, <2>5 DEF LookupInv
<1>5. CASE EnrichWithKev
  <2>1. /\ pc \notin {"match", "epss"} /\ pc' \notin {"match", "epss"}
        /\ UNCHANGED <<useEpss, chunks, chunk, scores, failed, first>>
    BY <1>5 DEF EnrichWithKev
  <2>2. ASSUME NEW catalog, NEW record \in RecordsOf(matches'),
               matches' = Reenriched(matches, [r \in RecordsOf(matches) |-> WithKev(r, catalog)])
        PROVE  \E r \in RecordsOf(matches) : record.cve = r.cve /\ record.epss = r.epss
    <3> DEFINE enriched == [r \in RecordsOf(matches) |-> WithKev(r, catalog)]
    <3>1. matches \in Seq(ComponentMatch) /\ matches' = Reenriched(matches, enriched)
      BY <2>2 DEF AnalysisInv, Scored
    <3>2. PICK r \in RecordsOf(matches) : record = enriched[r]
      <4> HIDE DEF enriched
      <4> QED BY <3>1, RecordsAfterJoin
    <3> DEFINE marked == r.cve \in catalog
    <3>3. record = [r EXCEPT !.kev = marked]
      BY <3>2 DEF WithKev
    <3>4. r \in Record
      BY <3>1, RecordsAreRecords
    <3> HIDE DEF marked
    <3>5. record.cve = r.cve /\ record.epss = r.epss
      BY ONLY <3>3, <3>4 DEF Record
    <3> QED BY <3>5
  <2>3. \A record \in RecordsOf(matches') : \E r \in RecordsOf(matches) :
            record.cve = r.cve /\ record.epss = r.epss
    BY <1>5, <2>2 DEF EnrichWithKev
  <2> QED BY <2>1, <2>3, LaterSteps
<1>6. CASE Rank
  <2>1. /\ pc \notin {"match", "epss"} /\ pc' \notin {"match", "epss"}
        /\ UNCHANGED <<useEpss, chunks, chunk, scores, failed, first>>
        /\ matches' = Ranked(matches) /\ matches \in Seq(ComponentMatch)
    BY <1>6 DEF Rank, AnalysisInv, Scored
  <2>2. PICK order \in [DOMAIN matches -> DOMAIN matches] :
            Ranked(matches) = [i \in DOMAIN matches |-> matches[order[i]]]
    BY <2>1, RankedSorts
  <2>3. ASSUME NEW i \in DOMAIN matches', NEW k \in DOMAIN matches'[i].cves
        PROVE  matches'[i].cves[k] \in RecordsOf(matches)
    <3>1. matches'[i] = matches[order[i]] /\ order[i] \in DOMAIN matches
      BY <2>1, <2>2
    <3>2. <<order[i], k>> \in Places(matches)
      BY <3>1 DEF Places
    <3>3. RecordAt(matches, <<order[i], k>>) = matches'[i].cves[k]
      BY <3>1 DEF RecordAt
    <3> QED BY <3>2, <3>3 DEF RecordsOf
  <2>4. RecordsOf(matches') \subseteq RecordsOf(matches)
    BY <2>3 DEF RecordsOf, RecordAt, Places
  <2> QED BY <2>1, <2>4, LaterSteps
<1>7. CASE Narrate
  <2>1. /\ pc \notin {"match", "epss"} /\ pc' \notin {"match", "epss"}
        /\ UNCHANGED <<useEpss, chunks, chunk, scores, failed, first, matches>>
    BY <1>7 DEF Narrate
  <2> QED BY <2>1, LaterSteps
<1> QED BY <1>1, <1>2, <1>3, <1>4, <1>5, <1>6, <1>7 DEF EnrichmentStep

\* A scan starts with nothing to ask.
LEMMA LookupInitHolds == Init => LookupInv
<1> SUFFICES ASSUME Init PROVE LookupInv
    OBVIOUS
<1>1. /\ pc = "match" /\ useEpss = FALSE /\ chunks = <<>> /\ chunk = 1 /\ failed = {}
      /\ DOMAIN scores = {}
    BY DEF Init, EnrichmentInit
<1>2. DOMAIN <<>> = {} /\ Len(<<>>) = 0
    OBVIOUS
<1>3. Answered = {}
    BY <1>1, <1>2 DEF Answered
<1> QED BY <1>1, <1>2, <1>3 DEF LookupInv, Asking, HasAnswers, Joined, MoreChunks

\* And asks as said along all of it, whichever queries fail.
LEMMA StepKeepsLookup ==
    ASSUME LookupInv, AnalysisInv, [Next]_vars
    PROVE  LookupInv'
<1>1. CASE MatchComponents \/ EnrichmentStep
    BY <1>1, EnrichmentKeepsLookup
<1>2. CASE UNCHANGED enrichmentVars
    BY <1>2 DEF enrichmentVars, LookupInv, Asking, HasAnswers, Answered, Joined, MoreChunks, ScoreOf
<1> QED BY <1>1, <1>2, StepOfEnrichment

\* The invariant of the lookup holds along every scan.
LEMMA LookupInvariant == Spec => []LookupInv
<1>1. Init => LookupInv
    BY LookupInitHolds
<1>2. AnalysisInv /\ LookupInv /\ [Next]_vars => LookupInv'
    BY StepKeepsLookup
<1>3. QED
    BY <1>1, <1>2, AnalysisInvariant, PTL DEF Spec

LEMMA LookupSays ==
    ASSUME LookupInv
    PROVE  EpssOfItsCve
<1> SUFFICES ASSUME useEpss PROVE EpssOfItsCve
    BY DEF EpssOfItsCve
<1>1. pc # "match" /\ Chunking(chunks, CvesOf(first))
    BY DEF LookupInv, Asking
<1>2. Queried = Asked(chunks)
    BY DEF Queried, Asked
<1>3. pc # "epss" => \A record \in RecordsOf(matches) : record.epss = ScoreOf(record.cve)
    BY <1>1 DEF LookupInv, Joined
<1> QED BY <1>1, <1>2, <1>3 DEF EpssOfItsCve, Chunking, AskedOnce, CveAt, CvesOf, NotTooLong

\* Every CVE of the match is asked for once, in queries that are not too long, and every
\* record ends with the score of its own CVE, wherever it stands, whichever queries fail
\* (eps.py epss_scores, cli.py _reenrich).
THEOREM ScanEpssOfItsCve == Spec => []EpssOfItsCve
<1>1. LookupInv => EpssOfItsCve
    BY LookupSays
<1>2. QED
    BY <1>1, LookupInvariant, PTL

-----------------------------------------------------------------------------
(* Zero-day candidates.                                                     *)

\* A set of scores has a highest one, and Max is it.
LEMMA HighestScore ==
    ASSUME NEW n \in Nat, NEW S \in SUBSET (0 .. n), S # {}
    PROVE  Extreme!Max(S) \in S /\ \A y \in S : Extreme!Max(S) >= y
<1> DEFINE T == {y + 1 : y \in S}
<1>1. T \in SUBSET (1 .. n + 1) /\ T # {} /\ n + 1 \in Nat
  <2>1. \A y \in S : y + 1 \in 1 .. n + 1
    OBVIOUS
  <2>2. PICK x \in S : TRUE
    OBVIOUS
  <2>3. x + 1 \in T /\ n + 1 \in Nat
    OBVIOUS
  <2>4. T \in SUBSET (1 .. n + 1)
    BY ONLY <2>1
  <2> QED BY ONLY <2>3, <2>4
<1>2. PICK m \in T : \A k \in T : k <= m
  <2> HIDE DEF T
  <2> QED BY ONLY <1>1, Greatest
<1>3. PICK x \in S : m = x + 1
    OBVIOUS
<1>4. \A y \in S : x >= y
  <2>1. ASSUME NEW y \in S PROVE x >= y
    <3>1. y + 1 <= x + 1
      BY <1>2, <1>3
    <3> QED BY <3>1
  <2> QED BY <2>1
<1> QED BY <1>4 DEF Extreme!Max

LEMMA LesserOfTwo ==
    ASSUME NEW a \in Int, NEW b \in Int
    PROVE  Extreme!Min({a, b}) = IF a <= b THEN a ELSE b
<1>1. \E x \in {a, b} : \A y \in {a, b} : x <= y
    OBVIOUS
<1> DEFINE m == CHOOSE x \in {a, b} : \A y \in {a, b} : x <= y
<1>2. m \in {a, b} /\ \A y \in {a, b} : m <= y
    BY <1>1
<1>3. Extreme!Min({a, b}) = m
    BY DEF Extreme!Min
<1> HIDE DEF m
<1> QED BY <1>2, <1>3

\* The numbers of a version, by induction over its runs.
LEMMA PartsType ==
    ASSUME NEW version \in Release
    PROVE  VersionParts(version) \in Seq(Run)
<1> DEFINE n == Len(version)
           next(v, i) == IF version[i][1] = 0 /\ Len(v) < 4 THEN Append(v, version[i]) ELSE v
           parts[i \in 0 .. n] ==
              IF i = 0 THEN <<>>
              ELSE IF version[i][1] = 0 /\ Len(parts[i - 1]) < 4
                   THEN Append(parts[i - 1], version[i]) ELSE parts[i - 1]
           S == {i \in 0 .. n : parts[i] \in Seq(Run)}
<1>1. n \in Nat /\ \A i \in 1 .. n : version[i] \in Run
    BY LenProperties, ElementOfSeq DEF Release
<1>2. parts = [i \in 0 .. n |-> IF i = 0 THEN <<>> ELSE next(parts[i - 1], i)]
  <2>1. FiniteNatInductiveDefHypothesis(parts, <<>>, next, 0, n)
    BY DEF FiniteNatInductiveDefHypothesis
  <2>2. FiniteNatInductiveDefConclusion(parts, <<>>, next, 0, n)
    BY ONLY <1>1, <2>1, FiniteNatInductiveDef, 0 \in Nat
  <2> QED BY ONLY <2>2 DEF FiniteNatInductiveDefConclusion
<1>3. VersionParts(version) = parts[n]
    BY DEF VersionParts
<1> HIDE DEF parts, n
<1>4. 0 \in S
    BY <1>1, <1>2, EmptySeq
<1>5. ASSUME NEW i \in 1 .. n, i - 1 \in S PROVE i \in S
  <2>1. parts[i] = next(parts[i - 1], i) /\ i \in 0 .. n
    <3> HIDE DEF next
    <3> QED BY <1>1, <1>2
  <2>2. parts[i - 1] \in Seq(Run) /\ version[i] \in Run
    BY <1>1, <1>5
  <2>3. next(parts[i - 1], i) \in Seq(Run)
    BY <2>2, AppendProperties
  <2> HIDE DEF next
  <2> QED BY <2>1, <2>3
<1>6. n \in S
  <2> HIDE DEF S
  <2>1. n \in 0 .. n
    BY <1>1
  <2> QED BY ONLY <1>1, <1>4, <1>5, <2>1, UpToInduction
<1> QED BY <1>3, <1>6

\* What similarity is and says.
LEMMA SimilarityTells ==
    ASSUME NEW v \in Release, NEW w \in Release
    PROVE  /\ Similarity(v, w) \in 0 .. 100
           /\ Similarity(v, w) > 0 => Major(w) \cap Major(v) # {}
           /\ VersionParts(v) # <<>> /\ VersionParts(w) = VersionParts(v) => Similarity(v, w) = 100
<1> DEFINE left == VersionParts(v)
           right == VersionParts(w)
<1>1. left \in Seq(Run) /\ right \in Seq(Run)
    BY PartsType
<1>2. /\ Similarity(v, w) \in {0, 58, 78, 100}
      /\ Similarity(v, w) # 0 => left # <<>> /\ right # <<>> /\ left[1] = right[1]
      /\ left # <<>> /\ right = left => Similarity(v, w) = 100
  <2> DEFINE twofold == Len(left) >= 2 /\ Len(right) >= 2 /\ left[2] = right[2]
  <2>1. Similarity(v, w) =
            IF left = <<>> \/ right = <<>> \/ left[1] # right[1] THEN 0
            ELSE IF left = right THEN 100
            ELSE IF twofold THEN 78 ELSE 58
    BY DEF Similarity
  <2> HIDE DEF left, right, twofold
  <2> QED BY <2>1
<1>3. Major(v) = {left[i] : i \in {1} \cap DOMAIN left} /\ Major(w) = {right[i] : i \in {1} \cap DOMAIN right}
    BY DEF Major
<1> HIDE DEF left, right
<1>4. ASSUME left # <<>>, right # <<>>, left[1] = right[1] PROVE Major(w) \cap Major(v) # {}
  <2>1. 1 \in DOMAIN left /\ 1 \in DOMAIN right
    BY <1>1, <1>4, EmptySeq, LenProperties
  <2> QED BY <1>3, <1>4, <2>1
<1>5. Similarity(v, w) \in 0 .. 100 /\ (Similarity(v, w) > 0 => Similarity(v, w) # 0)
    BY <1>2
<1> QED BY <1>2, <1>4, <1>5 DEF left, right

\* A pattern of a list of matches.
Pattern == [component : Nat, known_version : Release, cve : Nat, cvss : 0 .. 100, mentions : SUBSET Release]

LEMMA PatternType ==
    ASSUME NEW given \in Seq(KnownMatch), NEW p \in PatternsFromMatches(given)
    PROVE  KnownPattern(given, p) \in Pattern
<1>1. PICK i \in DOMAIN given : \E k \in DOMAIN given[i].cves : p = <<i, k>>
    BY DEF PatternsFromMatches
<1>2. PICK k \in DOMAIN given[i].cves : p = <<i, k>>
    BY <1>1
<1>3. given[i] \in KnownMatch
    BY ElementOfSeq, LenProperties
<1>4. given[i].name \in Nat /\ given[i].version \in Release /\ given[i].cves \in Seq(Mentioning)
    BY ONLY <1>3 DEF KnownMatch
<1>5. given[i].cves[k] \in Mentioning
    BY <1>4, ElementOfSeq, LenProperties
<1> QED BY <1>2, <1>4, <1>5 DEF KnownPattern, Pattern, Mentioning

LEMMA NearnessTells ==
    ASSUME NEW v \in Release, NEW pattern \in Pattern
    PROVE  /\ Nearness(v, pattern) \in 0 .. 100
           /\ \A w \in VersionsOf(pattern) : w \in Release /\ Nearness(v, pattern) >= Similarity(v, w)
           /\ \E w \in VersionsOf(pattern) : Nearness(v, pattern) = Similarity(v, w)
<1> DEFINE S == {Similarity(v, w) : w \in VersionsOf(pattern)}
<1>1. VersionsOf(pattern) \in SUBSET Release /\ VersionsOf(pattern) # {}
    BY DEF Pattern, VersionsOf
<1>2. S \in SUBSET (0 .. 100) /\ S # {} /\ 100 \in Nat
  <2>1. \A w \in VersionsOf(pattern) : Similarity(v, w) \in 0 .. 100
    BY <1>1, SimilarityTells
  <2> QED BY <1>1, <2>1
<1>3. Nearness(v, pattern) = Extreme!Max(S)
    BY DEF Nearness
<1>4. Nearness(v, pattern) \in S /\ \A y \in S : Nearness(v, pattern) >= y
  <2> HIDE DEF S
  <2> QED BY ONLY <1>2, <1>3, HighestScore
<1> QED BY <1>1, <1>2, <1>4

\* There are finitely many patterns.
LEMMA PatternsFinite ==
    ASSUME NEW given \in Seq(KnownMatch)
    PROVE  IsFiniteSet(PatternsFromMatches(given))
<1> DEFINE Of(i) == {<<i, k>> : k \in DOMAIN given[i].cves}
           Parts == {Of(i) : i \in DOMAIN given}
<1>1. ASSUME NEW i \in DOMAIN given PROVE IsFiniteSet(Of(i))
  <2>1. given[i] \in KnownMatch
    BY ElementOfSeq, LenProperties
  <2>2. given[i].cves \in Seq(Mentioning)
    BY ONLY <2>1 DEF KnownMatch
  <2> DEFINE K == DOMAIN given[i].cves
             f == [k \in K |-> <<i, k>>]
  <2>3. IsFiniteSet(K)
    <3>1. K = 1 .. Len(given[i].cves) /\ Len(given[i].cves) \in Int /\ 1 \in Int
      BY <2>2, LenProperties
    <3> QED BY ONLY <3>1, FS_Interval
  <2>4. f \in Surjection(K, Of(i))
    BY DEF Surjection
  <2> HIDE DEF f, K, Of
  <2> QED BY ONLY <2>3, <2>4, FS_Surjection
<1>2. IsFiniteSet(Parts)
  <2> DEFINE D == DOMAIN given
             g == [i \in D |-> Of(i)]
  <2>1. IsFiniteSet(D)
    <3>1. D = 1 .. Len(given) /\ Len(given) \in Int /\ 1 \in Int
      BY LenProperties
    <3> QED BY ONLY <3>1, FS_Interval
  <2>2. g \in Surjection(D, Parts)
    <3> HIDE DEF Of
    <3> QED BY DEF Surjection
  <2> HIDE DEF g, D, Parts
  <2> QED BY ONLY <2>1, <2>2, FS_Surjection
<1>3. \A T \in Parts : IsFiniteSet(T)
    BY <1>1
<1>4. PatternsFromMatches(given) = UNION Parts
    BY DEF PatternsFromMatches
<1> HIDE DEF Parts
<1> QED BY ONLY <1>2, <1>3, <1>4, FS_UNION

\* How sure a candidate is that has some analogues: the nearest counts most, their
\* number a little.
MadeSure(component, given, analogues, near) ==
    /\ \E p \in analogues : Nearness(component.version, KnownPattern(given, p)) = near
    /\ \A p \in analogues : Nearness(component.version, KnownPattern(given, p)) <= near
    /\ Cardinality(analogues) \in Nat \ {0}
    /\ LET more == 4 * (Cardinality(analogues) - 1)
           sure == near + (IF 12 <= more THEN 12 ELSE more)
       IN CandidateFinding(component, given, analogues).confidence = IF 95 <= sure THEN 95 ELSE sure

LEMMA SureTells ==
    ASSUME NEW given \in Seq(KnownMatch), NEW component \in Suspect,
           NEW analogues \in SUBSET PatternsFromMatches(given), analogues # {}
    PROVE  \E near \in 0 .. 100 : MadeSure(component, given, analogues, near)
<1> DEFINE Near(p) == Nearness(component.version, KnownPattern(given, p))
           S == {Near(p) : p \in analogues}
           n == Cardinality(analogues)
           more == 4 * (n - 1)
           near == Extreme!Max(S)
           plus == Extreme!Min({12, more})
<1>1. S \in SUBSET (0 .. 100) /\ S # {} /\ 100 \in Nat
  <2>1. component.version \in Release
    BY DEF Suspect
  <2>2. \A p \in analogues : Near(p) \in 0 .. 100
    BY <2>1, PatternType, NearnessTells
  <2> HIDE DEF Near
  <2> QED BY <2>2
<1>2. near \in S /\ \A y \in S : near >= y
  <2> HIDE DEF S
  <2> QED BY ONLY <1>1, HighestScore
<1>3. n \in Nat \ {0}
  <2>1. IsFiniteSet(analogues)
    BY PatternsFinite, FS_Subset
  <2> QED BY <2>1, FS_CardinalityType, FS_EmptySet
<1>4. near \in 0 .. 100
    BY <1>1, <1>2
<1>5. CandidateFinding(component, given, analogues).confidence = Extreme!Min({95, near + plus})
    BY DEF CandidateFinding
<1>6. (\E p \in analogues : Near(p) = near) /\ \A p \in analogues : Near(p) <= near
  <2>1. \A p \in analogues : Near(p) \in S
    OBVIOUS
  <2>2. near \in Int /\ \A y \in S : y \in Int
    <3> HIDE DEF near, S
    <3> QED BY ONLY <1>1, <1>4
  <2>3. \E p \in analogues : Near(p) = near
    BY <1>2
  <2> HIDE DEF near, S, Near
  <2> QED BY <1>2, <2>1, <2>2, <2>3
<1> HIDE DEF n, near
<1>7. more \in Int /\ 12 \in Int /\ 95 \in Int
    BY <1>3
<1>8. plus = IF 12 <= more THEN 12 ELSE more
  <2> HIDE DEF more
  <2> QED BY ONLY <1>7, LesserOfTwo
<1>9. near + plus \in Int
    BY <1>4, <1>7, <1>8
<1>10. CandidateFinding(component, given, analogues).confidence = IF 95 <= near + plus THEN 95 ELSE near + plus
  <2> HIDE DEF plus
  <2> QED BY ONLY <1>5, <1>7, <1>9, LesserOfTwo
<1>11. MadeSure(component, given, analogues, near)
    BY <1>3, <1>6, <1>8, <1>10 DEF n, MadeSure
<1> QED BY <1>4, <1>11

\* With more analogues a candidate is as sure, and names their CVEs as well.
LEMMA FindingGrows ==
    ASSUME NEW given \in Seq(KnownMatch), NEW component \in Suspect,
           NEW B \in SUBSET PatternsFromMatches(given), NEW A \in SUBSET B, A # {}
    PROVE  /\ CandidateFinding(component, given, A).confidence \in Int
           /\ CandidateFinding(component, given, B).confidence
                >= CandidateFinding(component, given, A).confidence
           /\ CandidateFinding(component, given, A).cves \subseteq CandidateFinding(component, given, B).cves
<1>1. Cardinality(A) <= Cardinality(B)
    BY PatternsFinite, FS_Subset
<1> DEFINE Near(p) == Nearness(component.version, KnownPattern(given, p))
           Sure(near, n) == near + (IF 12 <= 4 * (n - 1) THEN 12 ELSE 4 * (n - 1))
           a == CandidateFinding(component, given, A).confidence
           b == CandidateFinding(component, given, B).confidence
           m == Cardinality(A)
           n == Cardinality(B)
<1>2a. PICK s \in 0 .. 100 : MadeSure(component, given, A, s)
    BY SureTells
<1>2. (\E p \in A : Near(p) = s) /\ m \in Nat \ {0} /\ a = IF 95 <= Sure(s, m) THEN 95 ELSE Sure(s, m)
    BY <1>2a DEF MadeSure
<1>3a. PICK t \in 0 .. 100 : MadeSure(component, given, B, t)
    BY SureTells
<1>3. (\A p \in B : Near(p) <= t) /\ n \in Nat \ {0} /\ b = IF 95 <= Sure(t, n) THEN 95 ELSE Sure(t, n)
    BY <1>3a DEF MadeSure
<1>4. s <= t
    BY <1>2, <1>3
<1>5. CandidateFinding(component, given, A).cves \subseteq CandidateFinding(component, given, B).cves
    BY DEF CandidateFinding
<1>6. m <= n
    BY <1>1
<1> HIDE DEF a, b, m, n, Near
<1>7. a \in Int /\ b >= a
    BY ONLY <1>2, <1>3, <1>4, <1>6
<1> QED BY <1>5, <1>7 DEF a, b

\* The surest come first, and nothing is lost or added.
LEMMA SurestSorted ==
    ASSUME NEW T, NEW found \in Seq(T), \A c \in T : c.confidence \in Int
    PROVE  /\ SurestFirst(found) \in Seq(T)
           /\ DOMAIN SurestFirst(found) = DOMAIN found
           /\ \A i \in DOMAIN found : \E j \in DOMAIN found : SurestFirst(found)[j] = found[i]
           /\ \A i, j \in DOMAIN found :
                 i < j => SurestFirst(found)[i].confidence >= SurestFirst(found)[j].confidence
<1> DEFINE I == DOMAIN found
           R == {p \in I \X I : Surer(found, p[1], p[2])}
           Fits(o) == \A i, j \in I : i < j => Surer(found, o[i], o[j])
           order == CHOOSE o \in [I -> I] : Fits(o)
<1>1. I = 1 .. Len(found) /\ Len(found) \in Nat /\ \A i \in I : found[i] \in T /\ found[i].confidence \in Int
    BY LenProperties, ElementOfSeq
<1>2. \A i, j \in I : <<i, j>> \in R <=> Surer(found, i, j)
    OBVIOUS
<1>3. \E o \in [I -> I] : \A i, j \in I : i < j => <<o[i], o[j]>> \in R
  <2>0. \A i, j \in I : i # j => Surer(found, i, j) \/ Surer(found, j, i)
    BY <1>1 DEF Surer
  <2>1. /\ \A i, j \in I : ~(<<i, j>> \in R /\ <<j, i>> \in R)
        /\ \A i, j, k \in I : <<i, j>> \in R /\ <<j, k>> \in R => <<i, k>> \in R
        /\ \A i, j \in I : i # j => <<i, j>> \in R \/ <<j, i>> \in R
    <3>1. \A i, j \in I : ~(Surer(found, i, j) /\ Surer(found, j, i))
      BY <1>1 DEF Surer
    <3>2. \A i, j, k \in I : Surer(found, i, j) /\ Surer(found, j, k) => Surer(found, i, k)
      BY <1>1 DEF Surer
    <3> HIDE DEF R
    <3> QED BY ONLY <1>2, <2>0, <3>1, <3>2
  <2> HIDE DEF I, R
  <2> QED BY ONLY <1>1, <2>1, OrderListed
<1>4. \E o \in [I -> I] : Fits(o)
    BY <1>3, <1>2
<1>5. order \in [I -> I] /\ Fits(order)
    BY <1>4
<1>6. SurestFirst(found) = [i \in I |-> found[order[i]]]
    BY DEF SurestFirst
<1> HIDE DEF order, R
<1>7. \A i, j \in I : order[i] = order[j] => i = j
  <2> SUFFICES ASSUME NEW i \in I, NEW j \in I, order[i] = order[j], i < j PROVE FALSE
    BY <1>1
  <2>1. Surer(found, order[i], order[i])
    BY <1>5
  <2> QED BY <1>1, <1>5, <2>1 DEF Surer
<1>8. \A i \in I : \E j \in I : order[j] = i
  <2>1. order \in Injection(I, I)
    BY ONLY <1>5, <1>7, Fun_IsInj
  <2>2. IsFiniteSet(I)
    BY ONLY <1>1, FS_Interval, 1 \in Int, Nat \subseteq Int
  <2>3. order \in Surjection(I, I)
    BY ONLY <2>1, <2>2, FS_Injection
  <2> QED BY ONLY <2>3, Fun_SurjectionProperties
<1>9. \A i, j \in I : i < j => found[order[i]].confidence >= found[order[j]].confidence
  <2> SUFFICES ASSUME NEW i \in I, NEW j \in I, i < j
               PROVE  found[order[i]].confidence >= found[order[j]].confidence
    OBVIOUS
  <2>1. Surer(found, order[i], order[j]) /\ order[i] \in I /\ order[j] \in I
    BY <1>5
  <2> QED BY <1>1, <2>1 DEF Surer
<1>10. SurestFirst(found) \in Seq(T)
  <2>1. \A i \in I : found[order[i]] \in T
    BY <1>1, <1>5
  <2> QED BY <1>1, <1>6, <2>1, IsASeq
<1> QED BY <1>5, <1>6, <1>8, <1>9, <1>10

\* What a component is a candidate with, if it is one.
Eligible(component, given, least) ==
    ~ExplicitlyKnown(component, given) /\ Analogues(component, given, least) # {}

Finding(component, given, least) == CandidateFinding(component, given, Analogues(component, given, least))

Findings(given, least) ==
    {Finding(component, given, least) : component \in {c \in Suspect : Eligible(c, given, least)}}

\* The findings so far are those of the suspects so far.
Predictions ==
    /\ predicted \in Seq(Findings(matched, threshold))
    /\ \A i \in 1 .. suspect - 1 : Eligible(suspects[i], matched, threshold) =>
          \E j \in DOMAIN predicted : predicted[j] = Finding(suspects[i], matched, threshold)

TriageInv ==
    /\ suspects \in Seq(Suspect) /\ matched \in Seq(KnownMatch) /\ threshold \in Int
    /\ triage \in {"predicting", "ranked", "raised"}
    /\ suspect \in 1 .. Len(suspects) + 1
    /\ Predictions
    /\ triage = "ranked" =>
          /\ threshold \in 0 .. 100 /\ suspect = Len(suspects) + 1
          /\ \A i, j \in DOMAIN predicted :
                i < j => predicted[i].confidence >= predicted[j].confidence

LEMMA FindingTypes ==
    ASSUME NEW given \in Seq(KnownMatch), NEW least \in Int, NEW finding \in Findings(given, least)
    PROVE  /\ finding.component \in Suspect /\ finding.confidence \in Int
           /\ Eligible(finding.component, given, least)
           /\ finding = Finding(finding.component, given, least)
<1>1. PICK component \in Suspect : Eligible(component, given, least) /\ finding = Finding(component, given, least)
    BY DEF Findings
<1>2. finding.component = component
    BY <1>1 DEF Finding, CandidateFinding
<1>3. Analogues(component, given, least) \in SUBSET PatternsFromMatches(given)
    BY DEF Analogues, Relevant
<1>4. Analogues(component, given, least) # {}
    BY <1>1 DEF Eligible
<1>5. CandidateFinding(component, given, Analogues(component, given, least)).confidence \in Int
    BY <1>3, <1>4, FindingGrows
<1> QED BY <1>1, <1>2, <1>5 DEF Finding

LEMMA TriageStarts == TriageInit => TriageInv
<1> SUFFICES ASSUME TriageInit PROVE TriageInv
    OBVIOUS
<1>1. suspects \in Seq(Suspect) /\ matched \in Seq(KnownMatch) /\ threshold \in Int
    BY TriageAssumption DEF TriageInit
<1>2. triage = "predicting" /\ suspect = 1 /\ predicted = <<>>
    BY DEF TriageInit, NothingPredicted
<1>3. Len(suspects) \in Nat
    BY <1>1, LenProperties
<1>4. Predictions
    BY <1>2, EmptySeq DEF Predictions
<1> QED BY <1>1, <1>2, <1>3, <1>4 DEF TriageInv

LEMMA TriageKeeps ==
    ASSUME TriageInv, [TriageNext]_triageVars
    PROVE  TriageInv'
<1> USE DEF TriageInv
<1>1. CASE RefuseThreshold
    BY <1>1 DEF RefuseThreshold, Predictions
<1>2. CASE Predict
  <2> DEFINE component == suspects[suspect]
             analogues == Analogues(component, matched, threshold)
             finding == Finding(component, matched, threshold)
  <2>1. /\ triage = "predicting" /\ suspect <= Len(suspects) /\ suspect' = suspect + 1
        /\ triage' = triage /\ suspects' = suspects /\ matched' = matched /\ threshold' = threshold
        /\ predicted' = IF Eligible(component, matched, threshold) THEN Append(predicted, finding) ELSE predicted
    BY <1>2 DEF Predict, Eligible, Finding
  <2>2. Len(suspects) \in Nat /\ component \in Suspect /\ suspect \in Int
    BY <2>1, LenProperties, ElementOfSeq
  <2>3. predicted \in Seq(Findings(matched, threshold)) /\ DOMAIN predicted = 1 .. Len(predicted) /\ Len(predicted) \in Nat
    BY LenProperties DEF Predictions
  <2>4. suspect' \in 1 .. Len(suspects') + 1
    BY <2>1, <2>2
  <2>5. \A i \in 1 .. suspect' - 1 : i \in 1 .. suspect - 1 \/ i = suspect
    BY <2>1, <2>2
  <2> HIDE DEF finding
  <2>6. CASE Eligible(component, matched, threshold)
    <3>1. finding \in Findings(matched, threshold)
      BY <2>2, <2>6 DEF Findings, finding
    <3>2. /\ predicted' \in Seq(Findings(matched, threshold))
          /\ DOMAIN predicted' = 1 .. Len(predicted) + 1
          /\ \A j \in 1 .. Len(predicted) : predicted'[j] = predicted[j]
          /\ predicted'[Len(predicted) + 1] = finding
      <4>1. predicted' = Append(predicted, finding)
        BY <2>1, <2>6
      <4> QED BY ONLY <4>1, <2>3, <3>1, AppendProperties, LenProperties
    <3>3. ASSUME NEW i \in 1 .. suspect' - 1, Eligible(suspects[i], matched, threshold)
          PROVE  \E j \in DOMAIN predicted' : predicted'[j] = Finding(suspects[i], matched, threshold)
      <4>1. CASE i \in 1 .. suspect - 1
        <5>1. PICK j \in DOMAIN predicted : predicted[j] = Finding(suspects[i], matched, threshold)
          BY <3>3, <4>1 DEF Predictions
        <5> QED BY <2>3, <3>2, <5>1
      <4>2. CASE i = suspect
        BY <2>3, <3>2, <4>2 DEF finding
      <4> QED BY <2>5, <4>1, <4>2
    <3>4. Predictions'
      BY <2>1, <3>2, <3>3 DEF Predictions
    <3> QED BY <2>1, <2>4, <3>4
  <2>7. CASE ~Eligible(component, matched, threshold)
    <3>1. predicted' = predicted
      BY <2>1, <2>7
    <3>2. Predictions'
      BY <2>1, <2>5, <2>7, <3>1 DEF Predictions
    <3> QED BY <2>1, <2>4, <3>2
  <2> QED BY <2>6, <2>7
<1>3. CASE RankCandidates
  <2>1. /\ threshold \in 0 .. 100 /\ suspect > Len(suspects) /\ suspect' = suspect /\ triage' = "ranked"
        /\ suspects' = suspects /\ matched' = matched /\ threshold' = threshold
        /\ predicted' = SurestFirst(predicted)
    BY <1>3 DEF RankCandidates
  <2>2. Len(suspects) \in Nat
    BY LenProperties
  <2>3. \A c \in Findings(matched, threshold) : c.confidence \in Int
    BY FindingTypes
  <2>4. predicted \in Seq(Findings(matched, threshold))
    BY DEF Predictions
  <2>5. /\ predicted' \in Seq(Findings(matched, threshold))
        /\ DOMAIN predicted' = DOMAIN predicted
        /\ \A i \in DOMAIN predicted : \E j \in DOMAIN predicted : predicted'[j] = predicted[i]
        /\ \A i, j \in DOMAIN predicted :
              i < j => predicted'[i].confidence >= predicted'[j].confidence
    BY ONLY <2>1, <2>3, <2>4, SurestSorted
  <2>6. Predictions'
    BY <2>1, <2>5 DEF Predictions
  <2> QED BY <2>1, <2>2, <2>5, <2>6
<1>4. CASE UNCHANGED triageVars
    BY <1>4 DEF triageVars, Predictions
<1> QED BY <1>1, <1>2, <1>3, <1>4 DEF TriageNext, TriageOver

LEMMA VulnerableTells ==
    ASSUME matched \in Seq(KnownMatch), NEW component \in Suspect
    PROVE  /\ VulnerableOf(component.name) =
                UNION {VersionsOf(KnownPattern(matched, p)) : p \in Relevant(component, matched)}
           /\ component.version \in VulnerableOf(component.name) <=> ExplicitlyKnown(component, matched)
           /\ \A p \in Relevant(component, matched) :
                p \in PatternsFromMatches(matched) /\ KnownPattern(matched, p) \in Pattern
<1>1. VulnerableOf(component.name) =
                UNION {VersionsOf(KnownPattern(matched, p)) : p \in Relevant(component, matched)}
    BY DEF VulnerableOf, Relevant
<1>2. \A p \in Relevant(component, matched) :
         p \in PatternsFromMatches(matched) /\ KnownPattern(matched, p) \in Pattern
    BY PatternType DEF Relevant
<1> QED BY <1>1, <1>2 DEF ExplicitlyKnown

\* An analogue of similarity above nothing shares the major number.
LEMMA CandidateNear ==
    ASSUME TriageInv, NEW candidate \in Findings(matched, threshold)
    PROVE  NearKnown(candidate)
<1> DEFINE component == candidate.component
<1>1. component \in Suspect /\ Eligible(component, matched, threshold)
    BY FindingTypes DEF TriageInv
<1>2. PICK p \in Analogues(component, matched, threshold) : TRUE
    BY <1>1 DEF Eligible
<1>3. p \in Relevant(component, matched) /\ Nearness(component.version, KnownPattern(matched, p)) >= threshold
    BY <1>2 DEF Analogues
<1>4. component.version \in Release
    BY <1>1 DEF Suspect
<1>5. component.version \notin VulnerableOf(component.name)
    BY <1>1, VulnerableTells DEF Eligible, TriageInv
<1> DEFINE pattern == KnownPattern(matched, p)
<1>6. pattern \in Pattern
    BY <1>1, <1>3, VulnerableTells DEF TriageInv
<1>7. PICK w \in VersionsOf(pattern) : Nearness(component.version, pattern) = Similarity(component.version, w)
    BY <1>4, <1>6, NearnessTells
<1>8. w \in Release /\ w \in VulnerableOf(component.name)
    BY <1>1, <1>3, <1>4, <1>6, NearnessTells, VulnerableTells DEF TriageInv
<1>9. ASSUME threshold > 0 PROVE Major(w) \cap Major(component.version) # {}
  <2>1. Similarity(component.version, w) \in Int /\ Similarity(component.version, w) > 0
    <3>1. Similarity(component.version, w) \in 0 .. 100 /\ threshold \in Int
      BY <1>4, <1>8, SimilarityTells DEF TriageInv
    <3>2. Similarity(component.version, w) >= threshold
      BY <1>3, <1>7
    <3> QED BY ONLY <1>9, <3>1, <3>2
  <2> QED BY <1>4, <1>8, <2>1, SimilarityTells
<1> QED BY <1>5, <1>8, <1>9 DEF NearKnown

LEMMA CandidateStays ==
    ASSUME TriageInv, NEW candidate \in Findings(matched, threshold)
    PROVE  StaysCandidate(candidate)
<1> DEFINE component == candidate.component
           A == Analogues(component, matched, threshold)
<1>1. /\ component \in Suspect /\ A # {}
      /\ candidate = CandidateFinding(component, matched, A)
    BY FindingTypes DEF TriageInv, Eligible, Finding
<1>2. ASSUME NEW least \in Thresholds \cap 0 .. threshold
      PROVE  LET analogues == Analogues(component, matched, least)
                 finding == CandidateFinding(component, matched, analogues)
             IN /\ analogues # {}
                /\ finding.confidence >= candidate.confidence
                /\ candidate.cves \subseteq finding.cves
  <2> DEFINE B == Analogues(component, matched, least)
  <2>1. B \in SUBSET PatternsFromMatches(matched)
    BY DEF Analogues, Relevant
  <2>2. A \in SUBSET B
    <3>1. ASSUME NEW p \in A PROVE p \in B
      <4>1. p \in Relevant(component, matched) /\ Nearness(component.version, KnownPattern(matched, p)) >= threshold
        BY <3>1 DEF Analogues
      <4>2. Nearness(component.version, KnownPattern(matched, p)) \in 0 .. 100
        <5>1. component.version \in Release
          BY <1>1 DEF Suspect
        <5> QED BY <1>1, <4>1, <5>1, VulnerableTells, NearnessTells DEF TriageInv
      <4>3. Nearness(component.version, KnownPattern(matched, p)) >= least
        <5>1. threshold \in Int /\ least \in 0 .. threshold
          BY DEF TriageInv
        <5> QED BY ONLY <4>1, <4>2, <5>1
      <4> QED BY <4>1, <4>3 DEF Analogues
    <3> QED BY <3>1
  <2>3. B # {}
    BY <1>1, <2>2
  <2> HIDE DEF A, B
  <2>4. matched \in Seq(KnownMatch)
    BY DEF TriageInv
  <2>5. /\ CandidateFinding(component, matched, B).confidence >= CandidateFinding(component, matched, A).confidence
        /\ CandidateFinding(component, matched, A).cves \subseteq CandidateFinding(component, matched, B).cves
    BY <1>1, <2>1, <2>2, <2>4, FindingGrows
  <2> QED BY <1>1, <2>3, <2>5 DEF B
<1> HIDE DEF component
<1> QED BY <1>2 DEF StaysCandidate, component

\* The same numbers are as near as can be.
LEMMA SuffixesAre ==
    ASSUME TriageInv, triage = "ranked" PROVE SuffixesFound
<1> SUFFICES ASSUME NEW i \in DOMAIN suspects,
                    suspects[i].version \notin VulnerableOf(suspects[i].name),
                    VersionParts(suspects[i].version) # <<>>,
                    \E release \in VulnerableOf(suspects[i].name) :
                        VersionParts(release) = VersionParts(suspects[i].version)
             PROVE  \E j \in DOMAIN predicted :
                        predicted[j].component = suspects[i] /\ predicted[j].confidence = 95
    BY DEF SuffixesFound
<1> DEFINE component == suspects[i]
           A == Analogues(component, matched, threshold)
<1>1. component \in Suspect /\ i \in 1 .. suspect - 1 /\ matched \in Seq(KnownMatch) /\ threshold \in 0 .. 100
    BY LenProperties, ElementOfSeq DEF TriageInv
<1>2. component.version \in Release
    BY <1>1 DEF Suspect
<1>3. PICK p \in Relevant(component, matched) :
         \E w \in VersionsOf(KnownPattern(matched, p)) : VersionParts(w) = VersionParts(component.version)
  <2>1. \E w \in UNION {VersionsOf(KnownPattern(matched, p)) : p \in Relevant(component, matched)} :
           VersionParts(w) = VersionParts(component.version)
    BY <1>1, VulnerableTells
  <2> QED BY ONLY <2>1
<1>4. PICK w \in VersionsOf(KnownPattern(matched, p)) : VersionParts(w) = VersionParts(component.version)
    BY <1>3
<1>5. KnownPattern(matched, p) \in Pattern /\ p \in PatternsFromMatches(matched)
    BY <1>1, VulnerableTells
<1>6. w \in Release /\ Nearness(component.version, KnownPattern(matched, p)) \in 0 .. 100
      /\ Nearness(component.version, KnownPattern(matched, p)) >= Similarity(component.version, w)
    BY <1>2, <1>5, NearnessTells
<1>7. Similarity(component.version, w) = 100
    BY <1>2, <1>4, <1>6, SimilarityTells
<1>8. Nearness(component.version, KnownPattern(matched, p)) = 100
    BY ONLY <1>6, <1>7
<1>9. p \in A /\ A \in SUBSET PatternsFromMatches(matched) /\ A # {}
    BY <1>1, <1>8 DEF Analogues, Relevant
<1>10. CandidateFinding(component, matched, A).confidence = 95
  <2> DEFINE n == Cardinality(A)
             more == 4 * (n - 1)
             Near(q) == Nearness(component.version, KnownPattern(matched, q))
  <2>1a. PICK near \in 0 .. 100 : MadeSure(component, matched, A, near)
    <3> HIDE DEF A, component
    <3> QED BY ONLY <1>1, <1>9, SureTells
  <2>1. /\ \A q \in A : Near(q) <= near
        /\ n \in Nat \ {0}
        /\ LET sure == near + (IF 12 <= more THEN 12 ELSE more)
           IN CandidateFinding(component, matched, A).confidence = IF 95 <= sure THEN 95 ELSE sure
    <3> HIDE DEF A, component
    <3> QED BY <2>1a DEF MadeSure
  <2>2. near = 100
    <3>1. Near(p) <= near /\ Near(p) = 100
      BY <1>8, <1>9, <2>1
    <3> QED BY ONLY <3>1, near \in 0 .. 100
  <2> HIDE DEF n, Near, A, component
  <2> QED BY ONLY <2>1, <2>2
<1>11. Eligible(component, matched, threshold)
    BY <1>1, <1>9, VulnerableTells DEF Eligible
<1>12. PICK j \in DOMAIN predicted : predicted[j] = Finding(component, matched, threshold)
    BY <1>1, <1>11 DEF TriageInv, Predictions
<1>13. predicted[j].component = component
    BY <1>12 DEF Finding, CandidateFinding
<1> QED BY <1>10, <1>12, <1>13 DEF Finding

\* A zero-day candidate is near a version known to be vulnerable, and not one; a lower
\* threshold keeps it; one that only differs in its suffix is found; the surest come
\* first: for any components, matches and thresholds.
THEOREM CandidatesNearKnown == TriageSpec => []CandidatesAdjacent
<1>1. TriageInit => TriageInv
    BY TriageStarts
<1>2. TriageInv /\ [TriageNext]_triageVars => TriageInv'
    BY TriageKeeps
<1>3. TriageInv => CandidatesAdjacent
  <2> SUFFICES ASSUME TriageInv, triage = "ranked" PROVE CandidatesAdjacent
    BY DEF CandidatesAdjacent
  <2>1. ASSUME NEW i \in DOMAIN predicted PROVE predicted[i] \in Findings(matched, threshold)
    BY ElementOfSeq, LenProperties DEF TriageInv, Predictions
  <2>2. \A i \in DOMAIN predicted : NearKnown(predicted[i]) /\ StaysCandidate(predicted[i])
    BY <2>1, CandidateNear, CandidateStays
  <2>3. \A i, j \in DOMAIN predicted : i < j => predicted[i].confidence >= predicted[j].confidence
    BY DEF TriageInv
  <2> QED BY <2>2, <2>3, SuffixesAre DEF CandidatesAdjacent
<1>4. QED
    BY <1>1, <1>2, <1>3, PTL DEF TriageSpec
-----------------------------------------------------------------------------
(* The SBOM.                                                                *)

\* Every finite set that is ordered strictly and totally can be listed in that order.
LEMMA OrderListedIn ==
    ASSUME NEW T, IsFiniteSet(T), NEW R,
           \A i, j \in T : ~(<<i, j>> \in R /\ <<j, i>> \in R),
           \A i, j, k \in T : <<i, j>> \in R /\ <<j, k>> \in R => <<i, k>> \in R,
           \A i, j \in T : i # j => <<i, j>> \in R \/ <<j, i>> \in R
    PROVE  /\ Cardinality(T) \in Nat
           /\ \E order \in [1 .. Cardinality(T) -> T] :
                 \A i, j \in 1 .. Cardinality(T) : i < j => <<order[i], order[j]>> \in R
<1> DEFINE n == Cardinality(T)
           I == 1 .. n
<1>1. n \in Nat /\ ExistsBijection(I, T)
    BY FS_CardinalityType
<1>2. PICK f \in Bijection(I, T) : TRUE
    BY <1>1 DEF ExistsBijection
<1>3. f \in [I -> T] /\ (\A a, b \in I : f[a] = f[b] => a = b)
    BY Fun_BijectionProperties
<1> DEFINE Q == {p \in I \X I : <<f[p[1]], f[p[2]]>> \in R}
<1>4. \A a, b \in I : <<a, b>> \in Q <=> <<f[a], f[b]>> \in R
    OBVIOUS
<1> HIDE DEF Q, n
<1>5. PICK o \in [I -> I] : \A i, j \in I : i < j => <<o[i], o[j]>> \in Q
  <2>1. /\ \A i, j \in I : ~(<<i, j>> \in Q /\ <<j, i>> \in Q)
        /\ \A i, j, k \in I : <<i, j>> \in Q /\ <<j, k>> \in Q => <<i, k>> \in Q
        /\ \A i, j \in I : i # j => <<i, j>> \in Q \/ <<j, i>> \in Q
    BY <1>3, <1>4
  <2> QED BY ONLY <1>1, <2>1, OrderListed
<1> DEFINE order == [i \in I |-> f[o[i]]]
<1>6. order \in [I -> T] /\ \A i, j \in I : i < j => <<order[i], order[j]>> \in R
    BY <1>3, <1>4, <1>5
<1> QED BY <1>1, <1>6 DEF n

LEMMA BeforeOrders ==
    /\ \A c \in Listable : c.name \in Int /\ c.version \in Int
    /\ \A c, d \in Listable : ~(ListedBefore(c, d) /\ ListedBefore(d, c))
    /\ \A c, d \in Listable : ListedBefore(c, d) \/ ListedBefore(d, c) \/ <<c.name, c.version>> = <<d.name, d.version>>
<1>1. \A c \in Listable : c.name \in Int /\ c.version \in Int
    BY BomAssumption
<1> QED BY <1>1 DEF ListedBefore

LEMMA EarlierOrders ==
    ASSUME NEW cs \in Seq(Listable)
    PROVE  /\ \A i, j \in DOMAIN cs : ~(Earlier(cs, i, j) /\ Earlier(cs, j, i))
           /\ \A i, j, k \in DOMAIN cs : Earlier(cs, i, j) /\ Earlier(cs, j, k) => Earlier(cs, i, k)
           /\ \A i, j \in DOMAIN cs : i # j => Earlier(cs, i, j) \/ Earlier(cs, j, i)
<1>1. \A i \in DOMAIN cs : i \in Int /\ cs[i] \in Listable
    BY LenProperties, ElementOfSeq
<1>2. \A i \in DOMAIN cs : i \in Int /\ cs[i].name \in Int /\ cs[i].version \in Int
    BY <1>1, BomAssumption
<1>3. ASSUME NEW i \in DOMAIN cs, NEW j \in DOMAIN cs
      PROVE  /\ ~(Earlier(cs, i, j) /\ Earlier(cs, j, i))
             /\ i # j => Earlier(cs, i, j) \/ Earlier(cs, j, i)
    BY <1>2 DEF Earlier, ListedBefore
<1>4. ASSUME NEW i \in DOMAIN cs, NEW j \in DOMAIN cs, NEW k \in DOMAIN cs,
             Earlier(cs, i, j), Earlier(cs, j, k)
      PROVE  Earlier(cs, i, k)
    BY <1>2, <1>4 DEF Earlier, ListedBefore
<1> QED BY <1>3, <1>4

\* The components of a document: those with a name, each place once, in order.
WithNameIn(cs) == {i \in DOMAIN cs : ~Nameless(cs[i])}

LEMMA SortedTells ==
    ASSUME NEW cs \in Seq(Listable)
    PROVE  \E n \in Nat : \E order \in [1 .. n -> WithNameIn(cs)] :
              /\ SortedComponents(cs) = [i \in 1 .. n |-> cs[order[i]]]
              /\ \A i, j \in 1 .. n : i < j => Earlier(cs, order[i], order[j])
              /\ \A place \in WithNameIn(cs) : \E i \in 1 .. n : order[i] = place
<1> DEFINE T == WithNameIn(cs)
           n == Cardinality(T)
           I == 1 .. n
           R == {p \in T \X T : Earlier(cs, p[1], p[2])}
           Fits(o) == \A i, j \in DOMAIN o : i < j => Earlier(cs, o[i], o[j])
           order == CHOOSE o \in [I -> T] : Fits(o)
<1>1. IsFiniteSet(T)
  <2>1. Len(cs) \in Int /\ 1 \in Int /\ T \in SUBSET (1 .. Len(cs))
    BY LenProperties DEF WithNameIn
  <2> QED BY ONLY <2>1, FS_Interval, FS_Subset
<1>2. \A i, j \in T : <<i, j>> \in R <=> Earlier(cs, i, j)
    OBVIOUS
<1>3. n \in Nat /\ \E o \in [I -> T] : \A i, j \in I : i < j => <<o[i], o[j]>> \in R
  <2>1. T \subseteq DOMAIN cs
    BY DEF WithNameIn
  <2>2. /\ \A i, j \in T : ~(<<i, j>> \in R /\ <<j, i>> \in R)
        /\ \A i, j, k \in T : <<i, j>> \in R /\ <<j, k>> \in R => <<i, k>> \in R
        /\ \A i, j \in T : i # j => <<i, j>> \in R \/ <<j, i>> \in R
    <3> HIDE DEF R, T
    <3> QED BY ONLY <1>2, <2>1, EarlierOrders, cs \in Seq(Listable)
  <2> HIDE DEF T, R
  <2> QED BY ONLY <1>1, <2>2, OrderListedIn
<1>4. \E o \in [I -> T] : Fits(o)
  <2>1. PICK o \in [I -> T] : \A i, j \in I : i < j => <<o[i], o[j]>> \in R
    BY <1>3
  <2> HIDE DEF R, T, n
  <2>2. Fits(o)
    BY <1>2, <2>1
  <2> QED BY <2>2
<1>5. order \in [I -> T] /\ Fits(order)
    BY <1>4
<1>6. SortedComponents(cs) = [i \in I |-> cs[order[i]]]
    BY DEF SortedComponents, WithNameIn
<1> HIDE DEF order
<1>7. \A i, j \in I : i < j => Earlier(cs, order[i], order[j])
    BY <1>5
<1>8. \A i, j \in I : order[i] = order[j] => i = j
  <2> SUFFICES ASSUME NEW i \in I, NEW j \in I, order[i] = order[j], i < j PROVE FALSE
    BY <1>3
  <2>1. order[i] \in DOMAIN cs
    BY <1>5 DEF WithNameIn
  <2>2. Earlier(cs, order[i], order[i])
    BY <1>7
  <2> QED BY <2>1, <2>2, EarlierOrders
<1>9. \A place \in T : \E i \in I : order[i] = place
  <2>1. order \in Injection(I, T)
    BY ONLY <1>5, <1>8, Fun_IsInj
  <2>2. IsFiniteSet(I) /\ Cardinality(I) = n
    <3>1. 1 \in Int /\ n \in Int
      BY <1>3
    <3>2. IsFiniteSet(1 .. n) /\ Cardinality(1 .. n) = IF 1 > n THEN 0 ELSE n - 1 + 1
      BY ONLY <3>1, FS_Interval
    <3> HIDE DEF n
    <3> QED BY ONLY <1>3, <3>2
  <2>3. order \in Surjection(I, T)
    BY ONLY <1>1, <2>1, <2>2, FS_Injection
  <2> HIDE DEF I, T
  <2> QED BY ONLY <2>3, Fun_SurjectionProperties
<1> HIDE DEF n, T
<1> QED BY <1>3, <1>5, <1>6, <1>7, <1>9 DEF T

\* Where two lists that ascend part, the second has something smaller.
LEMMA PartsBelow ==
    ASSUME NEW m \in Nat, NEW n \in Nat,
           NEW s \in [1 .. m -> Listable], NEW t \in [1 .. n -> Listable],
           \A i, j \in 1 .. m : i < j => ListedBefore(s[i], s[j]),
           \A i, j \in 1 .. n : i < j => ListedBefore(t[i], t[j]),
           \A i \in 1 .. m : \E j \in 1 .. n : s[i] = t[j],
           NEW d \in 1 .. m, \A k \in 1 .. d - 1 : k \in 1 .. n /\ s[k] = t[k]
    PROVE  d \in 1 .. n /\ (t[d] = s[d] \/ ListedBefore(t[d], s[d]))
<1>1. PICK j \in 1 .. n : s[d] = t[j]
    OBVIOUS
<1>2. j >= d
  <2> SUFFICES ASSUME j < d PROVE FALSE
    OBVIOUS
  <2>1. j \in 1 .. d - 1 /\ j \in 1 .. m
    OBVIOUS
  <2>2. ListedBefore(s[j], s[d]) /\ s[j] = s[d]
    BY <1>1, <2>1
  <2> QED BY <2>1, <2>2, BeforeOrders
<1>3. d \in 1 .. n
    BY <1>2
<1> QED BY <1>1, <1>2, <1>3

\* A set can ascend in one way.
LEMMA AscendsOnce ==
    ASSUME NEW m \in Nat, NEW n \in Nat,
           NEW s \in [1 .. m -> Listable], NEW t \in [1 .. n -> Listable],
           \A i, j \in 1 .. m : i < j => ListedBefore(s[i], s[j]),
           \A i, j \in 1 .. n : i < j => ListedBefore(t[i], t[j]),
           \A i \in 1 .. m : \E j \in 1 .. n : s[i] = t[j],
           \A j \in 1 .. n : \E i \in 1 .. m : s[i] = t[j]
    PROVE  s = t
<1> DEFINE D == {i \in (1 .. m) \cup (1 .. n) : ~(i \in 1 .. m /\ i \in 1 .. n /\ s[i] = t[i])}
<1>1. ASSUME D # {} PROVE FALSE
  <2>1. D \in SUBSET Nat
    OBVIOUS
  <2>2. PICK d \in D : \A k \in D : d <= k
    <3> HIDE DEF D
    <3> QED BY <1>1, <2>1, Least
  <2>3. ASSUME NEW k \in 1 .. d - 1 PROVE k \in 1 .. m /\ k \in 1 .. n /\ s[k] = t[k]
    <3>1. d \in 1 .. m \/ d \in 1 .. n
      OBVIOUS
    <3>2. k \in (1 .. m) \cup (1 .. n) /\ ~(d <= k)
      BY <3>1
    <3> QED BY <2>2, <3>2
  <2>4. CASE d \in 1 .. m
    <3>1. d \in 1 .. n /\ (t[d] = s[d] \/ ListedBefore(t[d], s[d]))
      <4> HIDE DEF D
      <4> QED BY <2>3, <2>4, PartsBelow
    <3>2. d \in 1 .. m /\ (s[d] = t[d] \/ ListedBefore(s[d], t[d]))
      <4> HIDE DEF D
      <4>1. \A j \in 1 .. n : \E i \in 1 .. m : t[j] = s[i]
        OBVIOUS
      <4>2. \A k \in 1 .. d - 1 : k \in 1 .. m /\ t[k] = s[k]
        BY <2>3
      <4> QED BY <3>1, <4>1, <4>2, PartsBelow
    <3> QED BY <3>1, <3>2, BeforeOrders
  <2>5. CASE d \in 1 .. n /\ d \notin 1 .. m
    <3>1. d \in 1 .. m
      <4> HIDE DEF D
      <4>1. \A j \in 1 .. n : \E i \in 1 .. m : t[j] = s[i]
        OBVIOUS
      <4>2. \A k \in 1 .. d - 1 : k \in 1 .. m /\ t[k] = s[k]
        BY <2>3
      <4>3. d \in 1 .. n
        BY <2>5
      <4>4. d \in 1 .. m /\ (s[d] = t[d] \/ ListedBefore(s[d], t[d]))
        BY ONLY m \in Nat, n \in Nat, s \in [1 .. m -> Listable], t \in [1 .. n -> Listable],
                \A i, j \in 1 .. m : i < j => ListedBefore(s[i], s[j]),
                \A i, j \in 1 .. n : i < j => ListedBefore(t[i], t[j]),
                <4>1, <4>2, <4>3, PartsBelow
      <4> QED BY <4>4
    <3> QED BY <2>5, <3>1
  <2> QED BY <2>4, <2>5
<1>2. (1 .. m) = (1 .. n) /\ \A i \in 1 .. m : s[i] = t[i]
    BY <1>1
<1>3. s = [i \in 1 .. m |-> s[i]] /\ t = [i \in 1 .. n |-> t[i]]
    OBVIOUS
<1> HIDE DEF D
<1> QED BY ONLY <1>2, <1>3

\* A document has the components with a name, and no order of the inventory changes it.
LEMMA EntriesOfNamed ==
    ASSUME NEW cs \in Seq(Listable)
    PROVE  {Entries(cs)[i].ref : i \in DOMAIN Entries(cs)} = {Ref(cs[i]) : i \in WithNameIn(cs)}
<1>1. PICK n \in Nat : \E order \in [1 .. n -> WithNameIn(cs)] :
              /\ SortedComponents(cs) = [i \in 1 .. n |-> cs[order[i]]]
              /\ \A place \in WithNameIn(cs) : \E i \in 1 .. n : order[i] = place
    BY SortedTells
<1>2. PICK order \in [1 .. n -> WithNameIn(cs)] :
              /\ SortedComponents(cs) = [i \in 1 .. n |-> cs[order[i]]]
              /\ \A place \in WithNameIn(cs) : \E i \in 1 .. n : order[i] = place
    BY <1>1
<1>3. DOMAIN Entries(cs) = 1 .. n /\ \A i \in 1 .. n : Entries(cs)[i].ref = Ref(cs[order[i]])
    BY <1>2 DEF Entries, ComponentEntry
<1>4. \A place \in WithNameIn(cs) : \E i \in 1 .. n : order[i] = place
    BY <1>2
<1> DEFINE es == Entries(cs)
           refs == {es[i].ref : i \in 1 .. n}
           named == {Ref(cs[i]) : i \in WithNameIn(cs)}
<1>5. \A r \in refs : r \in named
    BY ONLY <1>3, order \in [1 .. n -> WithNameIn(cs)]
<1>6. ASSUME NEW place \in WithNameIn(cs) PROVE Ref(cs[place]) \in refs
  <2>1. PICK i \in 1 .. n : order[i] = place
    BY ONLY <1>4
  <2>2. es[i].ref = Ref(cs[place])
    BY ONLY <1>3, <2>1
  <2> QED BY ONLY <2>2
<1>7. refs = named
    BY ONLY <1>5, <1>6
<1> QED BY ONLY <1>3, <1>7

LEMMA OrderDoesNotMatter ==
    ASSUME NEW cs \in Seq(Listable),
           \A i, j \in WithNameIn(cs) :
              i # j => <<cs[i].name, cs[i].version>> # <<cs[j].name, cs[j].version>>,
           NEW p \in [DOMAIN cs -> DOMAIN cs], \A i, j \in DOMAIN cs : p[i] = p[j] => i = j
    PROVE  Entries([i \in DOMAIN cs |-> cs[p[i]]]) = Entries(cs)
<1> DEFINE D == DOMAIN cs
           ds == [i \in D |-> cs[p[i]]]
<1>1. D = 1 .. Len(cs) /\ Len(cs) \in Nat /\ \A i \in D : cs[i] \in Listable
    BY LenProperties, ElementOfSeq
<1>2. ds \in Seq(Listable) /\ DOMAIN ds = D
  <2>1. \A i \in D : cs[p[i]] \in Listable
    BY <1>1
  <2> QED BY <1>1, <2>1, IsASeq
<1>3. \A k \in D : \E i \in D : p[i] = k
  <2>1. IsFiniteSet(D)
    BY ONLY <1>1, FS_Interval, 1 \in Int, Nat \subseteq Int
  <2>2. p \in Injection(D, D)
    BY Fun_IsInj
  <2>3. p \in Surjection(D, D)
    BY ONLY <2>1, <2>2, FS_Injection
  <2> QED BY ONLY <2>3, Fun_SurjectionProperties
<1>4. ASSUME NEW es \in Seq(Listable),
             \A i, j \in WithNameIn(es) :
                i # j => <<es[i].name, es[i].version>> # <<es[j].name, es[j].version>>
      PROVE  \E n \in Nat : \E s \in [1 .. n -> Listable] :
                /\ SortedComponents(es) = s
                /\ \A i, j \in 1 .. n : i < j => ListedBefore(s[i], s[j])
                /\ {s[i] : i \in 1 .. n} = {es[k] : k \in WithNameIn(es)}
  <2>1. PICK n \in Nat : \E order \in [1 .. n -> WithNameIn(es)] :
              /\ SortedComponents(es) = [i \in 1 .. n |-> es[order[i]]]
              /\ \A i, j \in 1 .. n : i < j => Earlier(es, order[i], order[j])
              /\ \A place \in WithNameIn(es) : \E i \in 1 .. n : order[i] = place
    BY SortedTells
  <2>2. PICK order \in [1 .. n -> WithNameIn(es)] :
              /\ SortedComponents(es) = [i \in 1 .. n |-> es[order[i]]]
              /\ \A i, j \in 1 .. n : i < j => Earlier(es, order[i], order[j])
              /\ \A place \in WithNameIn(es) : \E i \in 1 .. n : order[i] = place
    BY <2>1
  <2> DEFINE s == [i \in 1 .. n |-> es[order[i]]]
  <2>3. \A k \in WithNameIn(es) : k \in DOMAIN es /\ es[k] \in Listable
    BY LenProperties, ElementOfSeq DEF WithNameIn
  <2>4. s \in [1 .. n -> Listable]
    BY <2>3
  <2>5. ASSUME NEW i \in 1 .. n, NEW j \in 1 .. n, i < j PROVE ListedBefore(s[i], s[j])
    <3>1. Earlier(es, order[i], order[j]) /\ order[i] \in WithNameIn(es) /\ order[j] \in WithNameIn(es)
      BY <2>2, <2>5
    <3>2. order[i] # order[j]
      BY <2>3, <3>1, EarlierOrders
    <3>3. ListedBefore(es[order[i]], es[order[j]]) \/ ~ListedBefore(es[order[j]], es[order[i]])
      BY <3>1 DEF Earlier
    <3>4. <<es[order[i]].name, es[order[i]].version>> # <<es[order[j]].name, es[order[j]].version>>
      BY <1>4, <3>1, <3>2
    <3>5. ListedBefore(es[order[i]], es[order[j]])
      BY <2>3, <3>1, <3>3, <3>4, BeforeOrders
    <3> QED BY <3>5
  <2>6. {s[i] : i \in 1 .. n} = {es[k] : k \in WithNameIn(es)}
    BY <2>2
  <2> HIDE DEF s
  <2> QED BY <2>2, <2>4, <2>5, <2>6 DEF s
<1>5. \A i \in D : i \in WithNameIn(ds) <=> p[i] \in WithNameIn(cs)
    BY <1>2 DEF WithNameIn
<1>6. \A i, j \in WithNameIn(ds) :
         i # j => <<ds[i].name, ds[i].version>> # <<ds[j].name, ds[j].version>>
  <2>1. WithNameIn(ds) \subseteq D
    BY <1>2 DEF WithNameIn
  <2>2. \A i \in D : ds[i] = cs[p[i]]
    OBVIOUS
  <2> HIDE DEF ds
  <2> QED BY <1>5, <2>1, <2>2
<1>7. {cs[k] : k \in WithNameIn(cs)} = {ds[k] : k \in WithNameIn(ds)}
  <2>1. WithNameIn(ds) \subseteq D /\ WithNameIn(cs) \subseteq D
    BY <1>2 DEF WithNameIn
  <2>2. \A i \in D : ds[i] = cs[p[i]]
    OBVIOUS
  <2> HIDE DEF ds, D
  <2>3. ASSUME NEW k \in WithNameIn(cs) PROVE \E i \in WithNameIn(ds) : ds[i] = cs[k]
    <3>1. PICK i \in D : p[i] = k
      BY <1>3, <2>1
    <3> QED BY <1>5, <2>2, <3>1
  <2>4. ASSUME NEW i \in WithNameIn(ds) PROVE \E k \in WithNameIn(cs) : ds[i] = cs[k]
    BY <1>5, <2>1, <2>2
  <2> QED BY <2>3, <2>4
<1> HIDE DEF ds
<1>8a. PICK m \in Nat : \E s \in [1 .. m -> Listable] :
                /\ SortedComponents(cs) = s
                /\ \A i, j \in 1 .. m : i < j => ListedBefore(s[i], s[j])
                /\ {s[i] : i \in 1 .. m} = {cs[k] : k \in WithNameIn(cs)}
    BY <1>4
<1>8. PICK s \in [1 .. m -> Listable] :
                /\ SortedComponents(cs) = s
                /\ \A i, j \in 1 .. m : i < j => ListedBefore(s[i], s[j])
                /\ {s[i] : i \in 1 .. m} = {cs[k] : k \in WithNameIn(cs)}
    BY <1>8a
<1>9a. PICK n \in Nat : \E t \in [1 .. n -> Listable] :
                /\ SortedComponents(ds) = t
                /\ \A i, j \in 1 .. n : i < j => ListedBefore(t[i], t[j])
                /\ {t[i] : i \in 1 .. n} = {ds[k] : k \in WithNameIn(ds)}
    BY <1>2, <1>4, <1>6
<1>9. PICK t \in [1 .. n -> Listable] :
                /\ SortedComponents(ds) = t
                /\ \A i, j \in 1 .. n : i < j => ListedBefore(t[i], t[j])
                /\ {t[i] : i \in 1 .. n} = {ds[k] : k \in WithNameIn(ds)}
    BY <1>9a
<1>10. s = t
  <2>1. {s[i] : i \in 1 .. m} = {t[i] : i \in 1 .. n}
    BY <1>7, <1>8, <1>9
  <2>2. /\ \A i \in 1 .. m : \E j \in 1 .. n : s[i] = t[j]
        /\ \A j \in 1 .. n : \E i \in 1 .. m : s[i] = t[j]
    <3>1. ASSUME NEW i \in 1 .. m PROVE \E j \in 1 .. n : s[i] = t[j]
      <4>1. s[i] \in {s[k] : k \in 1 .. m}
        OBVIOUS
      <4>2. s[i] \in {t[k] : k \in 1 .. n}
        BY ONLY <2>1, <4>1
      <4> QED BY ONLY <4>2
    <3>2. ASSUME NEW j \in 1 .. n PROVE \E i \in 1 .. m : s[i] = t[j]
      <4>1. t[j] \in {t[k] : k \in 1 .. n}
        OBVIOUS
      <4>2. t[j] \in {s[k] : k \in 1 .. m}
        BY ONLY <2>1, <4>1
      <4> QED BY ONLY <4>2
    <3> QED BY <3>1, <3>2
  <2> QED BY ONLY <1>8, <1>9, <2>2, AscendsOnce
<1> QED BY <1>8, <1>9, <1>10 DEF Entries, ds

\* The pairs ps there are when the first n of the components cs have been looked up.
PairOf(cs, i, k) == <<cs[i], RecordsFor(cs[i])[k]>>

PairsOf(cs, ps, n) ==
    /\ \A j \in DOMAIN ps : \E i \in 1 .. n : \E k \in DOMAIN RecordsFor(cs[i]) : ps[j] = PairOf(cs, i, k)
    /\ \A i \in 1 .. n : \A k \in DOMAIN RecordsFor(cs[i]) : \E j \in DOMAIN ps : ps[j] = PairOf(cs, i, k)

\* What is grouped when the first m of the pairs ps have been read.
RefsTo(ps, m, cve) == {Ref(ps[j][1]) : j \in {j \in 1 .. m : ps[j][2].cve = cve}}

GroupedTo(ps, groups, m) ==
    /\ DOMAIN groups = {ps[j][2].cve : j \in 1 .. m} \ {BlankCve}
    /\ \A cve \in DOMAIN groups : \E j \in 1 .. m :
          groups[cve] = [record |-> ps[j][2], refs |-> RefsTo(ps, m, cve)] /\ ps[j][2].cve = cve

BomInv ==
    /\ listed \in Seq(Listable) /\ pairs \in Seq(Listable \X CveRecords)
    /\ building \in {"resolving", "grouping", "built"} /\ turn \in Nat \ {0}
    /\ building = "resolving" =>
          turn <= Len(listed) + 1 /\ PairsOf(listed, pairs, turn - 1) /\ GroupedTo(pairs, byCve, 0)
    /\ building # "resolving" =>
          PairsOf(listed, pairs, Len(listed)) /\ turn <= Len(pairs) + 1 /\ GroupedTo(pairs, byCve, turn - 1)
    /\ building = "built" =>
          /\ turn = Len(pairs) + 1
          /\ bom = [components |-> Entries(listed),
                    vulnerabilities |-> {VulnerabilityEntry(byCve[cve].record, byCve[cve].refs) :
                                            cve \in DOMAIN byCve}]

LEMMA BomStarts == BomInit => BomInv
<1> SUFFICES ASSUME BomInit PROVE BomInv
    OBVIOUS
<1>1. /\ listed \in Seq(Listable) /\ building = "resolving" /\ turn = 1 /\ pairs = <<>>
      /\ DOMAIN byCve = {}
    BY BomAssumption DEF BomInit, NothingListed
<1>2. pairs \in Seq(Listable \X CveRecords) /\ DOMAIN pairs = {} /\ Len(listed) \in Nat
    BY <1>1, EmptySeq, LenProperties
<1>3. PairsOf(listed, pairs, 0) /\ GroupedTo(pairs, byCve, 0)
    BY <1>1, <1>2 DEF PairsOf, GroupedTo
<1> QED BY <1>1, <1>2, <1>3 DEF BomInv

\* A component is looked up.
LEMMA ResolveKeeps == ASSUME BomInv, Resolve PROVE BomInv'
<1> DEFINE component == listed[turn]
           records == RecordsFor(component)
           more == [k \in DOMAIN records |-> <<component, records[k]>>]
           P == Listable \X CveRecords
<1>1. /\ building = "resolving" /\ building' = building /\ turn <= Len(listed) /\ turn' = turn + 1
      /\ listed' = listed /\ byCve' = byCve
      /\ pairs' = pairs \o more
    BY DEF Resolve
<1>2. /\ listed \in Seq(Listable) /\ pairs \in Seq(P) /\ turn \in Nat \ {0}
      /\ PairsOf(listed, pairs, turn - 1) /\ GroupedTo(pairs, byCve, 0)
    BY <1>1 DEF BomInv
<1>3. Len(listed) \in Nat /\ component \in Listable /\ turn \in 1 .. Len(listed)
    BY <1>1, <1>2, LenProperties, ElementOfSeq
<1>4. records \in Seq(CveRecords)
    BY <1>3, BomAssumption
<1>5. DOMAIN records = 1 .. Len(records) /\ Len(records) \in Nat /\ \A k \in DOMAIN records : records[k] \in CveRecords
    BY <1>4, LenProperties, ElementOfSeq
<1> HIDE DEF component, records
<1>6. more \in Seq(P) /\ Len(more) = Len(records) /\ \A k \in DOMAIN records : more[k] = <<component, records[k]>>
  <2>1. \A k \in 1 .. Len(records) : <<component, records[k]>> \in P
    BY <1>3, <1>5
  <2>2. more \in Seq(P)
    BY <1>5, <2>1, IsASeq
  <2>3. DOMAIN more = 1 .. Len(more) /\ Len(more) \in Nat
    BY <2>2, LenProperties
  <2>4. DOMAIN more = 1 .. Len(records)
    BY <1>5
  <2>5. Len(more) = Len(records)
    <3>1. ASSUME NEW a \in Nat, NEW b \in Nat, 1 .. a = 1 .. b PROVE a = b
      <4>1. a \in 1 .. a <=> a \in 1 .. b
        BY <3>1
      <4>2. b \in 1 .. a <=> b \in 1 .. b
        BY <3>1
      <4> QED BY <4>1, <4>2
    <3> HIDE DEF more
    <3>2. (1 .. Len(more)) = (1 .. Len(records))
      BY <2>3, <2>4
    <3> QED BY ONLY <1>5, <2>3, <3>1, <3>2
  <2> QED BY <2>2, <2>5
<1> HIDE DEF more
<1> DEFINE n == Len(pairs)
           m == Len(records)
<1>7. n \in Nat /\ m \in Nat /\ DOMAIN pairs = 1 .. n
    BY <1>2, <1>5, LenProperties
<1>8. pairs' \in Seq(P) /\ DOMAIN pairs' = 1 .. n + m
      /\ \A j \in 1 .. n + m : pairs'[j] = IF j <= n THEN pairs[j] ELSE more[j - n]
  <2>1. pairs \o more \in Seq(P) /\ Len(pairs \o more) = n + m
        /\ \A j \in 1 .. n + m : (pairs \o more)[j] = IF j <= n THEN pairs[j] ELSE more[j - n]
    <3>1. pairs \in Seq(P) /\ more \in Seq(P) /\ Len(more) = Len(records)
      BY ONLY <1>2, <1>6
    <3>2. /\ pairs \o more \in Seq(P) /\ Len(pairs \o more) = Len(pairs) + Len(more)
          /\ \A j \in 1 .. Len(pairs) + Len(more) :
                (pairs \o more)[j] = IF j <= Len(pairs) THEN pairs[j] ELSE more[j - Len(pairs)]
      <4> HIDE DEF P
      <4> QED BY ONLY <3>1, ConcatProperties
    <3> QED BY ONLY <3>1, <3>2
  <2>2. DOMAIN (pairs \o more) = 1 .. n + m
    BY <2>1, LenProperties
  <2> QED BY ONLY <1>1, <2>1, <2>2
<1> HIDE DEF n, m
<1>9. PairsOf(listed, pairs', turn)
  <2>2. ASSUME NEW j \in 1 .. n + m
        PROVE  \E i \in 1 .. turn : \E k \in DOMAIN RecordsFor(listed[i]) : pairs'[j] = PairOf(listed, i, k)
    <3>1. CASE j <= n
      <4>1. pairs'[j] = pairs[j] /\ j \in DOMAIN pairs
        BY <1>7, <1>8, <3>1
      <4>2. PICK i \in 1 .. turn - 1 : \E k \in DOMAIN RecordsFor(listed[i]) : pairs[j] = PairOf(listed, i, k)
        <5>1. PairsOf(listed, pairs, turn - 1)
          BY <1>2
        <5> QED BY ONLY <4>1, <5>1 DEF PairsOf
      <4>3. i \in 1 .. turn
        BY <1>2
      <4> QED BY ONLY <4>1, <4>2, <4>3
    <3>2. CASE j > n
      <4>1. j - n \in DOMAIN records /\ pairs'[j] = more[j - n]
        BY <1>5, <1>7, <1>8, <3>2 DEF m
      <4>2. pairs'[j] = PairOf(listed, turn, j - n) /\ j - n \in DOMAIN RecordsFor(listed[turn])
        BY <1>6, <4>1 DEF PairOf, component, records
      <4> QED BY <1>2, <4>2
    <3> QED BY <1>7, <3>1, <3>2
  <2>3. ASSUME NEW i \in 1 .. turn, NEW k \in DOMAIN RecordsFor(listed[i])
        PROVE  \E j \in 1 .. n + m : pairs'[j] = PairOf(listed, i, k)
    <3>1. CASE i \in 1 .. turn - 1
      <4>1. PICK j \in DOMAIN pairs : pairs[j] = PairOf(listed, i, k)
        BY <1>2, <3>1 DEF PairsOf
      <4>2. j \in 1 .. n + m /\ pairs'[j] = pairs[j]
        BY <1>7, <1>8, <4>1
      <4> QED BY <4>1, <4>2
    <3>2. CASE i = turn
      <4>1. k \in 1 .. m /\ more[k] = PairOf(listed, i, k)
        BY <1>5, <1>6, <3>2 DEF PairOf, component, records, m
      <4>2. n + k \in 1 .. n + m /\ ~(n + k <= n) /\ (n + k) - n = k
        BY <1>7, <4>1
      <4>3. pairs'[n + k] = more[(n + k) - n]
        BY <1>8, <4>2
      <4> QED BY <4>1, <4>2, <4>3
    <3> QED BY <1>2, <3>1, <3>2
  <2> QED BY <1>8, <2>2, <2>3 DEF PairsOf
<1>10. GroupedTo(pairs', byCve', 0)
    BY <1>1, <1>2 DEF GroupedTo
<1>11. turn' - 1 = turn /\ turn' \in Nat \ {0} /\ turn' <= Len(listed) + 1
    BY <1>1, <1>3
<1> QED BY <1>1, <1>2, <1>8, <1>9, <1>10, <1>11 DEF BomInv

\* A pair is grouped.
LEMMA GroupKeeps == ASSUME BomInv, GroupPair PROVE BomInv'
<1> DEFINE component == pairs[turn][1]
           record == pairs[turn][2]
           cve == record.cve
<1>1. /\ building = "grouping" /\ building' = building /\ turn <= Len(pairs) /\ turn' = turn + 1
      /\ listed' = listed /\ pairs' = pairs
    BY DEF GroupPair
<1>2. /\ listed \in Seq(Listable) /\ pairs \in Seq(Listable \X CveRecords) /\ turn \in Nat \ {0}
      /\ PairsOf(listed, pairs, Len(listed)) /\ GroupedTo(pairs, byCve, turn - 1) /\ Len(pairs) \in Nat
    BY <1>1, LenProperties DEF BomInv
<1>3. \A j : j \in 1 .. turn <=> j \in 1 .. turn - 1 \/ j = turn
    BY <1>2
<1>4. GroupedTo(pairs, byCve', turn)
  <2>1. CASE cve = BlankCve
    <3>1. byCve' = byCve
      BY <2>1 DEF GroupPair
    <3>2. {pairs[j][2].cve : j \in 1 .. turn} \ {BlankCve} = {pairs[j][2].cve : j \in 1 .. turn - 1} \ {BlankCve}
      BY <1>3, <2>1
    <3>3. \A c \in DOMAIN byCve : c # BlankCve /\ RefsTo(pairs, turn, c) = RefsTo(pairs, turn - 1, c)
      BY <1>2, <1>3, <2>1 DEF GroupedTo, RefsTo
    <3>4. GroupedTo(pairs, byCve, turn)
      BY <1>2, <1>3, <3>2, <3>3 DEF GroupedTo
    <3> QED BY <3>1, <3>4
  <2>2. CASE cve # BlankCve
    <3> DEFINE held == IF cve \in DOMAIN byCve THEN byCve[cve] ELSE [record |-> record, refs |-> {}]
    <3>1. byCve' = [c \in DOMAIN byCve \cup {cve} |->
                      IF c = cve THEN [held EXCEPT !.refs = Affected(@, component)] ELSE byCve[c]]
      BY <2>2 DEF GroupPair
    <3>2. DOMAIN byCve' = DOMAIN byCve \cup {cve}
      BY <3>1
    <3>3. DOMAIN byCve' = {pairs[j][2].cve : j \in 1 .. turn} \ {BlankCve}
      BY <1>2, <1>3, <2>2, <3>2 DEF GroupedTo
    <3> HIDE DEF held
    <3>4. ASSUME NEW c \in DOMAIN byCve'
          PROVE  \E j \in 1 .. turn :
                    byCve'[c] = [record |-> pairs[j][2], refs |-> RefsTo(pairs, turn, c)] /\ pairs[j][2].cve = c
      <4>1. CASE c # cve
        <5>1. byCve'[c] = byCve[c] /\ c \in DOMAIN byCve
          BY <3>1, <3>2, <4>1
        <5>2. RefsTo(pairs, turn, c) = RefsTo(pairs, turn - 1, c)
          BY <1>3, <4>1 DEF RefsTo
        <5>3. PICK j \in 1 .. turn - 1 : /\ byCve[c] = [record |-> pairs[j][2], refs |-> RefsTo(pairs, turn - 1, c)]
                                         /\ pairs[j][2].cve = c
          BY <1>2, <5>1 DEF GroupedTo
        <5> QED BY <1>3, <5>1, <5>2, <5>3
      <4>2. CASE c = cve
        <5>1. byCve'[c] = [held EXCEPT !.refs = Affected(@, component)]
          BY <3>1, <3>2, <4>2
        <5>2. RefsTo(pairs, turn, c) = RefsTo(pairs, turn - 1, c) \cup {Ref(component)}
          BY <1>3, <4>2 DEF RefsTo
        <5>3. CASE cve \in DOMAIN byCve
          <6>1. held = byCve[cve]
            BY <5>3 DEF held
          <6>2. PICK j \in 1 .. turn - 1 : /\ byCve[cve] = [record |-> pairs[j][2], refs |-> RefsTo(pairs, turn - 1, cve)]
                                           /\ pairs[j][2].cve = cve
            BY <1>2, <5>3 DEF GroupedTo
          <6>3. byCve'[c] = [record |-> pairs[j][2], refs |-> RefsTo(pairs, turn - 1, cve) \cup {Ref(component)}]
            <7>1. ASSUME NEW a, NEW b
                  PROVE  [[record |-> a, refs |-> b] EXCEPT !.refs = Affected(@, component)]
                         = [record |-> a, refs |-> b \cup {Ref(component)}]
              BY DEF Affected
            <7>2. held = [record |-> pairs[j][2], refs |-> RefsTo(pairs, turn - 1, cve)]
              BY <6>1, <6>2
            <7>3. [held EXCEPT !.refs = Affected(@, component)]
                  = [record |-> pairs[j][2], refs |-> RefsTo(pairs, turn - 1, cve) \cup {Ref(component)}]
              BY ONLY <7>1, <7>2
            <7> QED BY ONLY <5>1, <7>3
          <6> HIDE DEF component, record
          <6> QED BY <1>3, <4>2, <5>2, <6>2, <6>3
        <5>4. CASE cve \notin DOMAIN byCve
          <6>1. held = [record |-> record, refs |-> {}]
            BY <5>4 DEF held
          <6>2. RefsTo(pairs, turn - 1, cve) = {}
            BY <1>2, <2>2, <5>4 DEF GroupedTo, RefsTo
          <6>3. byCve'[c] = [record |-> record, refs |-> {Ref(component)}]
            BY <5>1, <6>1 DEF Affected
          <6> QED BY <1>3, <4>2, <5>2, <6>2, <6>3
        <5> QED BY <5>3, <5>4
      <4> QED BY <4>1, <4>2
    <3> HIDE DEF component, record, cve
    <3> QED BY <3>3, <3>4 DEF GroupedTo
  <2> QED BY <2>1, <2>2
<1>5. PairsOf(listed', pairs', Len(listed'))
  <2>1. listed' = listed /\ pairs' = pairs /\ PairsOf(listed, pairs, Len(listed))
    BY <1>1, <1>2
  <2> QED BY ONLY <2>1
<1>6. turn' - 1 = turn /\ turn' \in Nat \ {0} /\ turn' <= Len(pairs) + 1
    BY <1>1, <1>2
<1> QED BY <1>1, <1>2, <1>4, <1>5, <1>6 DEF BomInv

LEMMA BomKeeps == ASSUME BomInv, [BomNext]_bomVars PROVE BomInv'
<1>1. CASE Resolve
    BY <1>1, ResolveKeeps
<1>2. CASE Resolved
  <2>1. /\ building = "resolving" /\ building' = "grouping" /\ turn > Len(listed) /\ turn' = 1
        /\ listed' = listed /\ pairs' = pairs /\ byCve' = byCve
    BY <1>2 DEF Resolved
  <2>2. /\ listed \in Seq(Listable) /\ pairs \in Seq(Listable \X CveRecords) /\ turn \in Nat \ {0}
        /\ turn <= Len(listed) + 1 /\ PairsOf(listed, pairs, turn - 1) /\ GroupedTo(pairs, byCve, 0)
        /\ Len(listed) \in Nat /\ Len(pairs) \in Nat
    BY <2>1, LenProperties DEF BomInv
  <2>3. turn - 1 = Len(listed)
    BY <2>1, <2>2
  <2>4. PairsOf(listed', pairs', Len(listed')) /\ GroupedTo(pairs', byCve', 0)
    BY <2>1, <2>2, <2>3
  <2> QED BY <2>1, <2>2, <2>4 DEF BomInv
<1>3. CASE GroupPair
    BY <1>3, GroupKeeps
<1>4. CASE BuildDocument
  <2>1. /\ building = "grouping" /\ building' = "built" /\ turn > Len(pairs)
        /\ UNCHANGED <<listed, turn, pairs, byCve>>
        /\ bom' = [components |-> Entries(listed),
                   vulnerabilities |-> {VulnerabilityEntry(byCve[cve].record, byCve[cve].refs) :
                                            cve \in DOMAIN byCve}]
    BY <1>4 DEF BuildDocument
  <2>2. Len(pairs) \in Nat /\ turn \in Nat /\ turn <= Len(pairs) + 1
    BY <2>1, LenProperties DEF BomInv
  <2>3. turn = Len(pairs) + 1
    BY <2>1, <2>2
  <2>4. BomInv /\ building = "grouping"
    BY <2>1
  <2> QED BY <2>1, <2>3, <2>4 DEF BomInv
<1>5. CASE UNCHANGED bomVars
    BY <1>5 DEF bomVars, BomInv
<1> QED BY <1>1, <1>2, <1>3, <1>4, <1>5 DEF BomNext, BomOver

LEMMA VulnerabilitiesAre ==
    ASSUME BomInv, building = "built"
    PROVE  VulnerabilitiesOfInventory
<1> DEFINE Holds(i, k) == i \in DOMAIN listed /\ k \in DOMAIN RecordsFor(listed[i])
<1>1. /\ listed \in Seq(Listable) /\ pairs \in Seq(Listable \X CveRecords)
      /\ DOMAIN listed = 1 .. Len(listed) /\ DOMAIN pairs = 1 .. Len(pairs)
      /\ PairsOf(listed, pairs, Len(listed)) /\ GroupedTo(pairs, byCve, Len(pairs))
      /\ bom.vulnerabilities = {VulnerabilityEntry(byCve[cve].record, byCve[cve].refs) : cve \in DOMAIN byCve}
  <2>1. Len(pairs) \in Nat /\ turn = Len(pairs) + 1 /\ GroupedTo(pairs, byCve, turn - 1)
    BY LenProperties DEF BomInv
  <2>2. turn - 1 = Len(pairs)
    BY <2>1
  <2> QED BY <2>1, <2>2, LenProperties DEF BomInv
<1>2. ASSUME NEW j \in DOMAIN pairs
      PROVE  \E i, k : Holds(i, k) /\ pairs[j][1] = listed[i] /\ pairs[j][2] = RecordsFor(listed[i])[k]
  <2>1. PICK i \in 1 .. Len(listed) : \E k \in DOMAIN RecordsFor(listed[i]) : pairs[j] = PairOf(listed, i, k)
    BY <1>1 DEF PairsOf
  <2>2. PICK k \in DOMAIN RecordsFor(listed[i]) : pairs[j] = PairOf(listed, i, k)
    BY <2>1
  <2>3. Holds(i, k) /\ pairs[j][1] = listed[i] /\ pairs[j][2] = RecordsFor(listed[i])[k]
    BY <1>1, <2>1, <2>2 DEF PairOf
  <2> HIDE DEF Holds
  <2> QED BY <2>3
<1>3. ASSUME NEW i, NEW k, Holds(i, k)
      PROVE  \E j \in DOMAIN pairs : pairs[j][1] = listed[i] /\ pairs[j][2] = RecordsFor(listed[i])[k]
  <2>1. PICK j \in DOMAIN pairs : pairs[j] = PairOf(listed, i, k)
    BY <1>1, <1>3 DEF PairsOf
  <2> QED BY <2>1 DEF PairOf
<1>4. ASSUME NEW cve PROVE RefsTo(pairs, Len(pairs), cve) = RefsWith(cve)
  <2>1. ASSUME NEW r \in RefsTo(pairs, Len(pairs), cve) PROVE r \in RefsWith(cve)
    <3>1. PICK j \in DOMAIN pairs : pairs[j][2].cve = cve /\ r = Ref(pairs[j][1])
      BY <1>1 DEF RefsTo
    <3>2. PICK i, k : Holds(i, k) /\ pairs[j][1] = listed[i] /\ pairs[j][2] = RecordsFor(listed[i])[k]
      BY <1>2
    <3> QED BY <3>1, <3>2 DEF RefsWith
  <2>2. ASSUME NEW r \in RefsWith(cve) PROVE r \in RefsTo(pairs, Len(pairs), cve)
    <3>1. PICK i \in DOMAIN listed : /\ r = Ref(listed[i])
                                     /\ \E k \in DOMAIN RecordsFor(listed[i]) : RecordsFor(listed[i])[k].cve = cve
      BY DEF RefsWith
    <3>2. PICK k \in DOMAIN RecordsFor(listed[i]) : RecordsFor(listed[i])[k].cve = cve
      BY <3>1
    <3>3. PICK j \in DOMAIN pairs : pairs[j][1] = listed[i] /\ pairs[j][2] = RecordsFor(listed[i])[k]
      BY <1>3, <3>1, <3>2
    <3> QED BY <1>1, <3>1, <3>2, <3>3 DEF RefsTo
  <2> QED BY <2>1, <2>2
<1>5. ASSUME NEW cve \in DOMAIN byCve
      PROVE  /\ byCve[cve].record \in RecordsOfListed /\ byCve[cve].record.cve = cve /\ cve # BlankCve
             /\ byCve[cve].refs = RefsWith(cve)
  <2>1. PICK j \in 1 .. Len(pairs) : /\ byCve[cve] = [record |-> pairs[j][2], refs |-> RefsTo(pairs, Len(pairs), cve)]
                                     /\ pairs[j][2].cve = cve
    BY <1>1 DEF GroupedTo
  <2>2. PICK i, k : Holds(i, k) /\ pairs[j][2] = RecordsFor(listed[i])[k]
    <3>1. j \in DOMAIN pairs
      BY <1>1, <2>1
    <3>2. PICK i, k : Holds(i, k) /\ pairs[j][1] = listed[i] /\ pairs[j][2] = RecordsFor(listed[i])[k]
      <4> HIDE DEF Holds
      <4> QED BY <1>2, <3>1
    <3> HIDE DEF Holds
    <3> QED BY <3>2
  <2>3. pairs[j][2] \in RecordsOfListed
    BY <2>2 DEF RecordsOfListed
  <2>4. cve # BlankCve
    BY <1>1 DEF GroupedTo
  <2> QED BY <1>4, <2>1, <2>3, <2>4
<1>6. ASSUME NEW v \in bom.vulnerabilities
      PROVE  \E cve \in DOMAIN byCve : v.id = cve /\ v = VulnerabilityEntry(byCve[cve].record, RefsWith(cve))
  <2>1. PICK cve \in DOMAIN byCve : v = VulnerabilityEntry(byCve[cve].record, byCve[cve].refs)
    BY <1>1
  <2>2. v.id = byCve[cve].record.cve
    BY <2>1 DEF VulnerabilityEntry
  <2> QED BY <1>5, <2>1, <2>2
<1>7. \A v \in bom.vulnerabilities : \E record \in RecordsOfListed :
          record.cve # BlankCve /\ v = VulnerabilityEntry(record, RefsWith(record.cve))
    BY <1>5, <1>6
<1>8. ASSUME NEW record \in RecordsOfListed, record.cve # BlankCve
      PROVE  \E v \in bom.vulnerabilities : v.id = record.cve
  <2>1. PICK i \in DOMAIN listed : \E k \in DOMAIN RecordsFor(listed[i]) : record = RecordsFor(listed[i])[k]
    BY DEF RecordsOfListed
  <2>2. PICK k \in DOMAIN RecordsFor(listed[i]) : record = RecordsFor(listed[i])[k]
    BY <2>1
  <2>3. PICK j \in DOMAIN pairs : pairs[j][2] = record
    BY <1>3, <2>2
  <2>4. record.cve \in DOMAIN byCve
    BY <1>1, <1>8, <2>3 DEF GroupedTo
  <2> DEFINE v == VulnerabilityEntry(byCve[record.cve].record, byCve[record.cve].refs)
  <2>5. v \in bom.vulnerabilities
    BY <1>1, <2>4
  <2>6. v.id = record.cve
    BY <1>5, <2>4 DEF VulnerabilityEntry
  <2> QED BY <2>5, <2>6
<1>9. \A v, w \in bom.vulnerabilities : v.id = w.id => v = w
    BY <1>6
<1>10. ASSUME \A i \in DOMAIN listed \ WithName : RecordsFor(listed[i]) = <<>>,
              NEW v \in bom.vulnerabilities
       PROVE  v.affects \subseteq {bom.components[i].ref : i \in DOMAIN bom.components}
  <2>1. PICK cve : v.affects = RefsWith(cve)
    BY <1>6 DEF VulnerabilityEntry
  <2>2. bom.components = Entries(listed)
    BY DEF BomInv
  <2>3. {bom.components[i].ref : i \in DOMAIN bom.components} = {Ref(listed[i]) : i \in WithNameIn(listed)}
    <3>1. {Entries(listed)[i].ref : i \in DOMAIN Entries(listed)} = {Ref(listed[i]) : i \in WithNameIn(listed)}
      BY ONLY <1>1, EntriesOfNamed
    <3> QED BY ONLY <2>2, <3>1
  <2>4. ASSUME NEW i \in DOMAIN listed, NEW k \in DOMAIN RecordsFor(listed[i]) PROVE i \in WithNameIn(listed)
    <3>1. RecordsFor(listed[i]) # <<>>
      BY <2>4
    <3> QED BY <1>10, <3>1 DEF WithName, WithNameIn
  <2> QED BY <2>1, <2>3, <2>4 DEF RefsWith
<1> HIDE DEF Holds
<1> QED BY <1>7, <1>8, <1>9, <1>10 DEF VulnerabilitiesOfInventory

LEMMA ComponentsAre ==
    ASSUME BomInv, building = "built"
    PROVE  ComponentsOfInventory
<1>1. listed \in Seq(Listable) /\ bom.components = Entries(listed) /\ WithName = WithNameIn(listed)
    BY DEF BomInv, WithName, WithNameIn
<1>2. {bom.components[i].ref : i \in DOMAIN bom.components} = {Ref(listed[i]) : i \in WithName}
    BY <1>1, EntriesOfNamed
<1>3. ASSUME \A i, j \in WithName : i # j =>
                    <<listed[i].name, listed[i].version>> # <<listed[j].name, listed[j].version>>,
             NEW order \in [DOMAIN listed -> DOMAIN listed],
             \A i, j \in DOMAIN listed : order[i] = order[j] => i = j
      PROVE  Entries([i \in DOMAIN listed |-> listed[order[i]]]) = bom.components
    BY <1>1, <1>3, OrderDoesNotMatter
<1> QED BY <1>2, <1>3 DEF ComponentsOfInventory

\* The SBOM has every component that has a name, in an order that does not depend on
\* that of the inventory when no two have the same name and version, and one entry for
\* each CVE with all the components that have it: for any inventory and any source.
THEOREM BomHasInventory == BomSpec => []BomOfInventory
<1>1. BomInit => BomInv
    BY BomStarts
<1>2. BomInv /\ [BomNext]_bomVars => BomInv'
    BY BomKeeps
<1>3. BomInv => BomOfInventory
    BY VulnerabilitiesAre, ComponentsAre DEF BomOfInventory
<1>4. QED
    BY <1>1, <1>2, <1>3, PTL DEF BomSpec
=============================================================================
