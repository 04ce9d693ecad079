---------------------------- MODULE ScannerProofs ----------------------------
(***************************************************************************)
(* For any set of components and any list of providers, a scan of          *)
(* scanner.py explains how it ends, its result is true to the evidence,    *)
(* no tool writes the tree it reads, and no tool it leaves running is      *)
(* passed over.  The properties speak of the end of a scan; the invariants *)
(* below say what they rest on before: the stage fits the place, a stage   *)
(* that is left has said why, evidence is that of the stage and of the     *)
(* providers in use, a child that nobody waits for belongs to a stage that *)
(* is over, and its failure is on its way into the result.                 *)
(*                                                                         *)
(* The second half is about the merges of EvidenceMerge: for any lists and *)
(* any number of providers, an entry says what was said of its component,  *)
(* through both merges as far as the sources go.  The invariant relates    *)
(* the groups to the part of the lists that has been read, and the list    *)
(* the second merge is given to the outcome of the first.                  *)
(***************************************************************************)
EXTENDS Scanner, EvidenceMerge, FiniteSetTheorems, NaturalsInduction, WellFoundedInduction, TLAPS

Reasons == {"dry run", "availability failed", "unavailable", "extraction failed",
            "no inventory", "tool", "cap"}

ToolPlaces == {"available", "directory", "extract", "extracting", "parse", "inventory",
               "inventorying"}

\* The place in the code fits the stage, and so do the directories made so far.
StageFits ==
    /\ pc = "start" => stage = "binwalk"
    /\ pc = "mock" => stage = "mock"
    /\ pc \in ToolPlaces => stage \in {"binwalk", "unblob"}
    /\ pc \in {"start", "available", "directory"} => stage \notin tempDirs
    /\ stage = "binwalk" => "unblob" \notin tempDirs
    /\ pc = "directory" => ~dirGiven
    /\ pc = "raised" => stage = "mock" \/ (~dirGiven /\ stage \notin tempDirs)

\* Whatever made the scan leave binwalk is among the errors.
Explained == stage # "binwalk" => \E kind \in Reasons : <<"binwalk", kind>> \in errors

\* What was found was found by the stage or by a provider in use, and at the end of
\* a stage becomes the result, with their names.
Evidence ==
    /\ pc \notin {"inventory", "inventorying", "lookup", "returned", "cancelled"} => found = {}
    /\ pc \in {"inventory", "inventorying"} =>
          \A pair \in found : pair[2] \in {stage} \cup used
    /\ pc \in {"lookup", "returned"} =>
          /\ stage \in providers
          /\ components = Found
          /\ \A pair \in found : pair[2] \in providers

\* Every component of the result is looked up or still to be.
Lookups ==
    /\ pc \notin {"lookup", "returned", "cancelled"} => looked = {} /\ pending = {}
    /\ pc \in {"lookup", "returned"} => components = looked \cup pending
    /\ pc = "returned" => pending = {}

\* The stage in course has left no child behind, and neither have those after it.
Behind ==
    pc # "cancelled" =>
        /\ <<stage, "child">> \notin left /\ <<"mock", "child">> \notin left
        /\ stage = "binwalk" => <<"unblob", "child">> \notin left

Failures == {"extraction failed", "tool", "failed", "inventory failed"}

\* What is left running is told of: by an error already, by a warning or a failure of
\* the stage that becomes one when the stage is over, or by the extraction.
Telling ==
    \A process \in left :
       \/ pc = "cancelled"
       \/ \E kind \in Failures : <<process[1], kind>> \in errors
       \/ /\ pc \in {"inventory", "inventorying"}
          /\ \/ \E kind \in Failures : <<process[1], kind>> \in warnings
             \/ process[1] = stage /\ failure = "tool"
       \/ pc \in {"lookup", "returned"} /\ process[1] = extraction /\ failure = "tool"

-----------------------------------------------------------------------------

\* There is a first position, also when no provider is configured.
LEMMA ProvidersCounted == Len(Providers) \in Nat /\ 1 \in 1 .. Len(Providers) + 1
<1>1. Len(Providers) \in Nat
    BY ScannerAssumption
<1>2. QED
    BY <1>1

\* The provider at a position has a name, and another position comes after it.
LEMMA NextProvider ==
    ASSUME provider \in Nat, 1 <= provider, provider <= Len(Providers)
    PROVE  Name \in ProviderNames /\ provider + 1 \in 1 .. Len(Providers) + 1
<1>1. provider \in DOMAIN Providers
    BY ScannerAssumption
<1>2. QED
    BY <1>1, ProvidersCounted DEF Name, ProviderNames

\* The position never passes the end of the providers by more than one.
LEMMA PositionCounted ==
    ASSUME TypeOK
    PROVE  provider \in Nat /\ 1 <= provider
<1>1. provider \in 1 .. Len(Providers) + 1
    BY Zenon DEF TypeOK
<1>2. QED
    BY <1>1, ProvidersCounted

\* A step keeps the types; a position counts one provider at a time.
LEMMA StepKeepsTypes ==
    ASSUME TypeOK, StageFits, Lookups, [Next]_vars
    PROVE  TypeOK'
<1>1. CASE Begin
    BY <1>1, NextProvider, ProvidersCounted, ZenonT(60) DEF Begin, Report, inputs, staged, result, history, TypeOK, Stages, Source, ProviderNames
<1>2. CASE ToolAvailable
    BY <1>2, NextProvider, ProvidersCounted DEF ToolAvailable, inputs, staged, result, history, TypeOK, Stages, Source, ProviderNames
<1>3. CASE ToolMissing
  <2>1. provider' \in 1 .. Len(Providers) + 1
    BY <1>3, ProvidersCounted DEF ToolMissing, NextStage
  <2>2. QED
    BY <1>3, <2>1 DEF ToolMissing, NextStage, Following, inputs, staged, result, history, TypeOK, Stages, Source
<1>4. CASE MakeTempDir
  <2>1. tempDirs' \subseteq Stages
    BY <1>4 DEF MakeTempDir, TypeOK
  <2>2. QED
    BY <1>4, <2>1 DEF MakeTempDir, inputs, staged, result, TypeOK
<1>5. CASE ExtractRefused
    BY <1>5, NextProvider, ProvidersCounted DEF ExtractRefused, inputs, staged, result, history, TypeOK, Stages, Source, ProviderNames
<1>6. CASE StartTool
    BY <1>6, NextProvider, ProvidersCounted DEF StartTool, inputs, staged, result, history, TypeOK, Stages, Source, ProviderNames
<1>7. CASE ToolExits
    BY <1>7, NextProvider, ProvidersCounted DEF ToolExits, inputs, staged, result, history, TypeOK, Stages, Source, ProviderNames
<1>8. CASE ToolTimesOut
    BY <1>8, NextProvider, ProvidersCounted DEF ToolTimesOut, inputs, staged, result, history, TypeOK, Stages, Source, ProviderNames
<1>9. CASE ReadTree
    BY <1>9, NextProvider, ProvidersCounted DEF ReadTree, inputs, staged, result, history, TypeOK, Stages, Source, ProviderNames
<1>10. CASE StageRaises
  <2>1. provider' \in 1 .. Len(Providers) + 1
    BY <1>10, ProvidersCounted DEF StageRaises, NextStage
  <2>3. left' \subseteq Source \X {"child", "descendants"}
    <3>1. left' = left \/ left' = left \cup {<<stage, "child">>}
      BY <1>10 DEF StageRaises
    <3>2. stage \in Source /\ left \subseteq Source \X {"child", "descendants"}
      BY DEF TypeOK, Source
    <3>3. QED
      BY <3>1, <3>2
  <2>2. QED
    BY <1>10, <2>1, <2>3 DEF StageRaises, NextStage, Following, inputs, staged, result, history, TypeOK, Stages, Source
<1>11. CASE SkipProvider
  <2>1. provider' \in 1 .. Len(Providers) + 1
    <3>1. provider <= Len(Providers)
      BY <1>11, Zenon DEF SkipProvider, MoreProviders
    <3>2. provider' = provider + 1
      BY <1>11 DEF SkipProvider
    <3>3. QED
      BY <3>1, <3>2, PositionCounted, NextProvider
  <2>2. QED
    BY <1>11, <2>1 DEF SkipProvider, MoreProviders, inputs, staged, result, history, TypeOK
<1>12. CASE StartProvider
    BY <1>12, NextProvider, ProvidersCounted DEF StartProvider, MoreProviders, Name, inputs, staged, result, history, TypeOK, Stages, Source, ProviderNames
<1>13. CASE ProviderRefused
    BY <1>13, NextProvider, ProvidersCounted DEF ProviderRefused, MoreProviders, Name, inputs, staged, result, history, TypeOK, Stages, Source, ProviderNames
<1>14. CASE ProviderEnds
    BY <1>14, NextProvider, ProvidersCounted DEF ProviderEnds, Name, inputs, staged, result, history, TypeOK, Stages, Source, ProviderNames
<1>15. CASE ProviderRaises
  <2>1. provider' \in 1 .. Len(Providers) + 1
    <3>1. provider <= Len(Providers)
      BY <1>15, Zenon DEF ProviderRaises, TypeOK
    <3>2. provider' = provider + 1
      BY <1>15 DEF ProviderRaises
    <3>3. QED
      BY <3>1, <3>2, PositionCounted, NextProvider
  <2>3. left' \subseteq Source \X {"child", "descendants"}
    <3>1. left' = left \/ left' = left \cup {<<Name, "child">>}
      BY <1>15 DEF ProviderRaises
    <3>2. Name \in Source /\ left \subseteq Source \X {"child", "descendants"}
      BY <1>15, PositionCounted, NextProvider DEF ProviderRaises, TypeOK, Source
    <3>3. QED
      BY <3>1, <3>2
  <2>2. QED
    BY <1>15, <2>1, <2>3 DEF ProviderRaises, inputs, staged, result, history, TypeOK
<1>16. CASE StageSucceeds
  <2>1. Found \subseteq Component
    BY DEF Found, TypeOK
  <2>2. Contributors \subseteq Source
    BY DEF Contributors, TypeOK, Source
  <2>3. extraction' \in {"none", "binwalk", "unblob"}
    BY <1>16 DEF StageSucceeds, TypeOK, StageFits, ToolPlaces
  <2>4. looked = {}
    BY <1>16 DEF StageSucceeds, Lookups
  <2>5. QED
    BY <1>16, <2>1, <2>2, <2>3, <2>4 DEF StageSucceeds, EnterLookups, inputs, staged, result, history, TypeOK
<1>17. CASE StageEmpty
  <2>1. provider' \in 1 .. Len(Providers) + 1
    BY <1>17, ProvidersCounted DEF StageEmpty, NextStage
  <2>2. extraction' \in {"none", "binwalk", "unblob"}
    BY <1>17 DEF StageEmpty, TypeOK, StageFits, ToolPlaces
  <2>3. QED
    BY <1>17, <2>1, <2>2 DEF StageEmpty, NextStage, Following, inputs, staged, result, history, TypeOK, Stages, Source
<1>18. CASE MockParses
  <2>1. looked = {}
    BY <1>18 DEF MockParses, Lookups
  <2>2. /\ components' \subseteq Component /\ pending' = components'
        /\ providers' = {"mock"} /\ pc' = "lookup"
    BY <1>18 DEF MockParses, EnterLookups
  <2>3. found' \subseteq Component \X Source
    BY <1>18 DEF MockParses, TypeOK, Source, Stages
  <2>4. QED
    BY <1>18, <2>1, <2>2, <2>3 DEF MockParses, inputs, staged, result, history, TypeOK, Source, Stages
<1>19. CASE MockRaises
    BY <1>19, NextProvider, ProvidersCounted DEF MockRaises, inputs, staged, result, history, TypeOK, Stages, Source, ProviderNames
<1>20. ASSUME NEW c \in Component, LookUp(c) PROVE TypeOK'
    BY <1>20, NextProvider, ProvidersCounted, ZenonT(60) DEF LookUp, inputs, staged, result, history, TypeOK, Stages, Source, ProviderNames
<1>21. CASE Return
    BY <1>21, NextProvider, ProvidersCounted DEF Return, inputs, staged, result, history, TypeOK, Stages, Source, ProviderNames
<1>22. CASE UNCHANGED vars
    BY <1>22 DEF vars, inputs, staged, result, history, TypeOK, Stages, Source, ProviderNames
<1>24. CASE Cancel
  <2>1. pc \in {"extracting", "inventorying", "lookup"} /\ UNCHANGED <<inputs, stage, staged, result, pending, looked, history>>
    BY <1>24 DEF Cancel
  <2>2. left' \subseteq Source \X {"child", "descendants"}
    <3>1. CASE pc = "extracting"
        BY <1>24, <3>1 DEF Cancel, TypeOK, Source
    <3>2. CASE pc = "inventorying"
      <4>1. Name \in Source
        BY <3>2, PositionCounted, NextProvider DEF TypeOK, Source
      <4>2. QED
        BY <1>24, <3>2, <4>1 DEF Cancel, TypeOK
    <3>3. CASE pc = "lookup"
        BY <1>24, <3>3 DEF Cancel, TypeOK
    <3>4. QED
        BY <2>1, <3>1, <3>2, <3>3
  <2>3. QED
    BY <1>24, <2>1, <2>2 DEF Cancel, inputs, staged, result, history, TypeOK
<1>23. QED
    BY <1>1, <1>2, <1>3, <1>4, <1>5, <1>6, <1>7, <1>8, <1>9, <1>10, <1>11, <1>12, <1>13, <1>14, <1>15, <1>16, <1>17, <1>18, <1>19, <1>20, <1>21, <1>22, <1>24 DEF Next, Step, Ended

\* A step keeps the stage and its directories in line with the place in the code.
LEMMA StepKeepsStage ==
    ASSUME TypeOK, StageFits, [Next]_vars
    PROVE  StageFits'
<1>1. CASE Begin
    BY <1>1 DEF Begin, Report, inputs, staged, result, history, StageFits, ToolPlaces, TypeOK, Stages
<1>2. CASE ToolAvailable
    BY <1>2 DEF ToolAvailable, inputs, staged, result, history, StageFits, ToolPlaces, TypeOK, Stages
<1>3. CASE ToolMissing
    BY <1>3 DEF ToolMissing, NextStage, Following, MissingKinds, inputs, staged, result, history, StageFits, ToolPlaces, TypeOK, Stages
<1>4. CASE MakeTempDir
    BY <1>4 DEF MakeTempDir, inputs, staged, result, history, StageFits, ToolPlaces, TypeOK, Stages
<1>5. CASE ExtractRefused
    BY <1>5 DEF ExtractRefused, inputs, staged, result, history, StageFits, ToolPlaces, TypeOK, Stages
<1>6. CASE StartTool
    BY <1>6 DEF StartTool, inputs, staged, result, history, StageFits, ToolPlaces, TypeOK, Stages
<1>7. CASE ToolExits
    BY <1>7 DEF ToolExits, inputs, staged, result, history, StageFits, ToolPlaces, TypeOK, Stages
<1>8. CASE ToolTimesOut
    BY <1>8 DEF ToolTimesOut, inputs, staged, result, history, StageFits, ToolPlaces, TypeOK, Stages
<1>9. CASE ReadTree
    BY <1>9 DEF ReadTree, inputs, staged, result, history, StageFits, ToolPlaces, TypeOK, Stages
<1>10. CASE StageRaises
    BY <1>10 DEF StageRaises, Report, NextStage, Following, inputs, staged, result, history, StageFits, ToolPlaces, TypeOK, Stages
<1>11. CASE SkipProvider
    BY <1>11 DEF SkipProvider, MoreProviders, Name, inputs, staged, result, history, StageFits, ToolPlaces, TypeOK, Stages
<1>12. CASE StartProvider
    BY <1>12 DEF StartProvider, MoreProviders, Name, inputs, staged, result, history, StageFits, ToolPlaces, TypeOK, Stages
<1>13. CASE ProviderRefused
    BY <1>13 DEF ProviderRefused, MoreProviders, Name, inputs, staged, result, history, StageFits, ToolPlaces, TypeOK, Stages
<1>14. CASE ProviderEnds
    BY <1>14 DEF ProviderEnds, Name, inputs, staged, result, history, StageFits, ToolPlaces, TypeOK, Stages
<1>15. CASE ProviderRaises
    BY <1>15 DEF ProviderRaises, Name, inputs, staged, result, history, StageFits, ToolPlaces, TypeOK, Stages
<1>16. CASE StageSucceeds
    BY <1>16 DEF StageSucceeds, EnterLookups, Contributors, Found, inputs, staged, result, history, StageFits, ToolPlaces, TypeOK, Stages
<1>17. CASE StageEmpty
    BY <1>17 DEF StageEmpty, NextStage, Following, Found, inputs, staged, result, history, StageFits, ToolPlaces, TypeOK, Stages
<1>18. CASE MockParses
    BY <1>18 DEF MockParses, EnterLookups, Report, inputs, staged, result, history, StageFits, ToolPlaces, TypeOK, Stages
<1>19. CASE MockRaises
    BY <1>19 DEF MockRaises, inputs, staged, result, history, StageFits, ToolPlaces, TypeOK, Stages
<1>20. ASSUME NEW c \in Component, LookUp(c) PROVE StageFits'
    BY <1>20 DEF LookUp, inputs, staged, result, history, StageFits, ToolPlaces, TypeOK, Stages
<1>21. CASE Return
    BY <1>21 DEF Return, inputs, staged, result, history, StageFits, ToolPlaces, TypeOK, Stages
<1>22. CASE UNCHANGED vars
    BY <1>22 DEF vars, inputs, staged, result, history, StageFits, ToolPlaces, TypeOK, Stages
<1>24. CASE Cancel
    BY <1>24 DEF Cancel, inputs, staged, result, history, StageFits, ToolPlaces, TypeOK, Stages
<1>23. QED
    BY <1>1, <1>2, <1>3, <1>4, <1>5, <1>6, <1>7, <1>8, <1>9, <1>10, <1>11, <1>12, <1>13, <1>14, <1>15, <1>16, <1>17, <1>18, <1>19, <1>20, <1>21, <1>22, <1>24 DEF Next, Step, Ended

\* binwalk is left only by actions that report why, and no report is taken back.
LEMMA StepKeepsReasons ==
    ASSUME TypeOK, StageFits, Explained, [Next]_vars
    PROVE  Explained'
<1>1. CASE Begin
    BY <1>1 DEF Begin, Report, inputs, staged, result, history, Explained, Reasons, TypeOK, StageFits, ToolPlaces, Stages
<1>2. CASE ToolAvailable
    BY <1>2 DEF ToolAvailable, inputs, staged, result, history, Explained, Reasons, TypeOK, StageFits, ToolPlaces, Stages
<1>3. CASE ToolMissing
    BY <1>3 DEF ToolMissing, NextStage, Following, MissingKinds, inputs, staged, result, history, Explained, Reasons, TypeOK, StageFits, ToolPlaces, Stages
<1>4. CASE MakeTempDir
    BY <1>4 DEF MakeTempDir, inputs, staged, result, history, Explained, Reasons, TypeOK, StageFits, ToolPlaces, Stages
<1>5. CASE ExtractRefused
    BY <1>5 DEF ExtractRefused, inputs, staged, result, history, Explained, Reasons, TypeOK, StageFits, ToolPlaces, Stages
<1>6. CASE StartTool
    BY <1>6 DEF StartTool, inputs, staged, result, history, Explained, Reasons, TypeOK, StageFits, ToolPlaces, Stages
<1>7. CASE ToolExits
    BY <1>7 DEF ToolExits, inputs, staged, result, history, Explained, Reasons, TypeOK, StageFits, ToolPlaces, Stages
<1>8. CASE ToolTimesOut
    BY <1>8 DEF ToolTimesOut, inputs, staged, result, history, Explained, Reasons, TypeOK, StageFits, ToolPlaces, Stages
<1>9. CASE ReadTree
    BY <1>9 DEF ReadTree, inputs, staged, result, history, Explained, Reasons, TypeOK, StageFits, ToolPlaces, Stages
<1>10. CASE StageRaises
    BY <1>10 DEF StageRaises, Report, NextStage, Following, inputs, staged, result, history, Explained, Reasons, TypeOK, StageFits, ToolPlaces, Stages
<1>11. CASE SkipProvider
    BY <1>11 DEF SkipProvider, MoreProviders, Name, inputs, staged, result, history, Explained, Reasons, TypeOK, StageFits, ToolPlaces, Stages
<1>12. CASE StartProvider
    BY <1>12 DEF StartProvider, MoreProviders, Name, inputs, staged, result, history, Explained, Reasons, TypeOK, StageFits, ToolPlaces, Stages
<1>13. CASE ProviderRefused
    BY <1>13 DEF ProviderRefused, MoreProviders, Name, inputs, staged, result, history, Explained, Reasons, TypeOK, StageFits, ToolPlaces, Stages
<1>14. CASE ProviderEnds
    BY <1>14 DEF ProviderEnds, Name, inputs, staged, result, history, Explained, Reasons, TypeOK, StageFits, ToolPlaces, Stages
<1>15. CASE ProviderRaises
    BY <1>15 DEF ProviderRaises, Name, inputs, staged, result, history, Explained, Reasons, TypeOK, StageFits, ToolPlaces, Stages
<1>16. CASE StageSucceeds
    BY <1>16 DEF StageSucceeds, EnterLookups, Contributors, Found, inputs, staged, result, history, Explained, Reasons, TypeOK, StageFits, ToolPlaces, Stages
<1>17. CASE StageEmpty
    BY <1>17 DEF StageEmpty, NextStage, Following, Found, inputs, staged, result, history, Explained, Reasons, TypeOK, StageFits, ToolPlaces, Stages
<1>18. CASE MockParses
    BY <1>18 DEF MockParses, EnterLookups, Report, inputs, staged, result, history, Explained, Reasons, TypeOK, StageFits, ToolPlaces, Stages
<1>19. CASE MockRaises
    BY <1>19 DEF MockRaises, inputs, staged, result, history, Explained, Reasons, TypeOK, StageFits, ToolPlaces, Stages
<1>20. ASSUME NEW c \in Component, LookUp(c) PROVE Explained'
    BY <1>20 DEF LookUp, inputs, staged, result, history, Explained, Reasons, TypeOK, StageFits, ToolPlaces, Stages
<1>21. CASE Return
    BY <1>21 DEF Return, inputs, staged, result, history, Explained, Reasons, TypeOK, StageFits, ToolPlaces, Stages
<1>22. CASE UNCHANGED vars
    BY <1>22 DEF vars, inputs, staged, result, history, Explained, Reasons, TypeOK, StageFits, ToolPlaces, Stages
<1>24. CASE Cancel
    BY <1>24 DEF Cancel, inputs, staged, result, history, Explained
<1>23. QED
    BY <1>1, <1>2, <1>3, <1>4, <1>5, <1>6, <1>7, <1>8, <1>9, <1>10, <1>11, <1>12, <1>13, <1>14, <1>15, <1>16, <1>17, <1>18, <1>19, <1>20, <1>21, <1>22, <1>24 DEF Next, Step, Ended

\* Evidence is only added with its source in use, and becomes the result whole.
LEMMA StepKeepsEvidence ==
    ASSUME TypeOK, StageFits, Evidence, [Next]_vars
    PROVE  Evidence'
<1>1. CASE Begin
    BY <1>1 DEF Begin, Report, inputs, staged, result, history, Evidence, Found, TypeOK, StageFits, ToolPlaces, Stages
<1>2. CASE ToolAvailable
    BY <1>2 DEF ToolAvailable, inputs, staged, result, history, Evidence, Found, TypeOK, StageFits, ToolPlaces, Stages
<1>3. CASE ToolMissing
    BY <1>3 DEF ToolMissing, NextStage, Following, MissingKinds, inputs, staged, result, history, Evidence, Found, TypeOK, StageFits, ToolPlaces, Stages
<1>4. CASE MakeTempDir
    BY <1>4 DEF MakeTempDir, inputs, staged, result, history, Evidence, Found, TypeOK, StageFits, ToolPlaces, Stages
<1>5. CASE ExtractRefused
    BY <1>5 DEF ExtractRefused, inputs, staged, result, history, Evidence, Found, TypeOK, StageFits, ToolPlaces, Stages
<1>6. CASE StartTool
    BY <1>6 DEF StartTool, inputs, staged, result, history, Evidence, Found, TypeOK, StageFits, ToolPlaces, Stages
<1>7. CASE ToolExits
    BY <1>7 DEF ToolExits, inputs, staged, result, history, Evidence, Found, TypeOK, StageFits, ToolPlaces, Stages
<1>8. CASE ToolTimesOut
    BY <1>8 DEF ToolTimesOut, inputs, staged, result, history, Evidence, Found, TypeOK, StageFits, ToolPlaces, Stages
<1>9. CASE ReadTree
    BY <1>9 DEF ReadTree, inputs, staged, result, history, Evidence, Found, TypeOK, StageFits, ToolPlaces, Stages
<1>10. CASE StageRaises
    BY <1>10 DEF StageRaises, Report, NextStage, Following, inputs, staged, result, history, Evidence, Found, TypeOK, StageFits, ToolPlaces, Stages
<1>11. CASE SkipProvider
    BY <1>11 DEF SkipProvider, MoreProviders, Name, inputs, staged, result, history, Evidence, Found, TypeOK, StageFits, ToolPlaces, Stages
<1>12. CASE StartProvider
    BY <1>12 DEF StartProvider, MoreProviders, Name, inputs, staged, result, history, Evidence, Found, TypeOK, StageFits, ToolPlaces, Stages
<1>13. CASE ProviderRefused
    BY <1>13 DEF ProviderRefused, MoreProviders, Name, inputs, staged, result, history, Evidence, Found, TypeOK, StageFits, ToolPlaces, Stages
<1>14. CASE ProviderEnds
    BY <1>14 DEF ProviderEnds, Name, inputs, staged, result, history, Evidence, Found, TypeOK, StageFits, ToolPlaces, Stages
<1>15. CASE ProviderRaises
    BY <1>15 DEF ProviderRaises, Name, inputs, staged, result, history, Evidence, Found, TypeOK, StageFits, ToolPlaces, Stages
<1>16. CASE StageSucceeds
    BY <1>16 DEF StageSucceeds, EnterLookups, Contributors, Found, inputs, staged, result, history, Evidence, Found, TypeOK, StageFits, ToolPlaces, Stages
<1>17. CASE StageEmpty
    BY <1>17 DEF StageEmpty, NextStage, Following, Found, inputs, staged, result, history, Evidence, Found, TypeOK, StageFits, ToolPlaces, Stages
<1>18. CASE MockParses
  <2>1. stage = "mock" /\ stage' = stage /\ pc' = "lookup" /\ providers' = {"mock"} /\ found = {}
    BY <1>18 DEF MockParses, EnterLookups, StageFits, Evidence
  <2>2. ASSUME NEW seen \in SUBSET Component, found' = seen \X {"mock"}, components' = seen
        PROVE  Evidence'
    <3>1. \A pair \in found' : pair[1] \in seen /\ pair[2] = "mock"
      BY <2>2
    <3>2. \A c \in seen : <<c, "mock">> \in found' /\ <<c, "mock">>[1] = c
      BY <2>2
    <3>3. Found' = seen
      BY <3>1, <3>2, Zenon DEF Found
    <3>4. QED
      BY <2>1, <2>2, <3>1, <3>3 DEF Evidence
  <2>3. ASSUME components' = {}, UNCHANGED found
        PROVE  Evidence'
    <3>1. Found' = {}
      BY <2>1, <2>3 DEF Found
    <3>2. QED
      BY <2>1, <2>3, <3>1 DEF Evidence
  <2>4. QED
    BY <1>18, <2>2, <2>3 DEF MockParses, EnterLookups
<1>19. CASE MockRaises
    BY <1>19 DEF MockRaises, inputs, staged, result, history, Evidence, Found, TypeOK, StageFits, ToolPlaces, Stages
<1>20. ASSUME NEW c \in Component, LookUp(c) PROVE Evidence'
    BY <1>20 DEF LookUp, inputs, staged, result, history, Evidence, Found, TypeOK, StageFits, ToolPlaces, Stages
<1>21. CASE Return
    BY <1>21 DEF Return, inputs, staged, result, history, Evidence, Found, TypeOK, StageFits, ToolPlaces, Stages
<1>22. CASE UNCHANGED vars
    BY <1>22 DEF vars, inputs, staged, result, history, Evidence, Found, TypeOK, StageFits, ToolPlaces, Stages
<1>24. CASE Cancel
    BY <1>24 DEF Cancel, inputs, staged, result, history, Evidence
<1>23. QED
    BY <1>1, <1>2, <1>3, <1>4, <1>5, <1>6, <1>7, <1>8, <1>9, <1>10, <1>11, <1>12, <1>13, <1>14, <1>15, <1>16, <1>17, <1>18, <1>19, <1>20, <1>21, <1>22, <1>24 DEF Next, Step, Ended

\* A component leaves the pending ones only when it has been looked up.
LEMMA StepKeepsLookups ==
    ASSUME TypeOK, Lookups, [Next]_vars
    PROVE  Lookups'
<1>1. CASE Begin
    BY <1>1 DEF Begin, Report, inputs, staged, result, history, Lookups, TypeOK
<1>2. CASE ToolAvailable
    BY <1>2 DEF ToolAvailable, inputs, staged, result, history, Lookups, TypeOK
<1>3. CASE ToolMissing
    BY <1>3 DEF ToolMissing, NextStage, Following, MissingKinds, inputs, staged, result, history, Lookups, TypeOK
<1>4. CASE MakeTempDir
    BY <1>4 DEF MakeTempDir, inputs, staged, result, history, Lookups, TypeOK
<1>5. CASE ExtractRefused
    BY <1>5 DEF ExtractRefused, inputs, staged, result, history, Lookups, TypeOK
<1>6. CASE StartTool
    BY <1>6 DEF StartTool, inputs, staged, result, history, Lookups, TypeOK
<1>7. CASE ToolExits
    BY <1>7 DEF ToolExits, inputs, staged, result, history, Lookups, TypeOK
<1>8. CASE ToolTimesOut
    BY <1>8 DEF ToolTimesOut, inputs, staged, result, history, Lookups, TypeOK
<1>9. CASE ReadTree
    BY <1>9 DEF ReadTree, inputs, staged, result, history, Lookups, TypeOK
<1>10. CASE StageRaises
    BY <1>10 DEF StageRaises, Report, NextStage, Following, inputs, staged, result, history, Lookups, TypeOK
<1>11. CASE SkipProvider
    BY <1>11 DEF SkipProvider, MoreProviders, Name, inputs, staged, result, history, Lookups, TypeOK
<1>12. CASE StartProvider
    BY <1>12 DEF StartProvider, MoreProviders, Name, inputs, staged, result, history, Lookups, TypeOK
<1>13. CASE ProviderRefused
    BY <1>13 DEF ProviderRefused, MoreProviders, Name, inputs, staged, result, history, Lookups, TypeOK
<1>14. CASE ProviderEnds
    BY <1>14 DEF ProviderEnds, Name, inputs, staged, result, history, Lookups, TypeOK
<1>15. CASE ProviderRaises
    BY <1>15 DEF ProviderRaises, Name, inputs, staged, result, history, Lookups, TypeOK
<1>16. CASE StageSucceeds
    BY <1>16 DEF StageSucceeds, EnterLookups, Contributors, Found, inputs, staged, result, history, Lookups, TypeOK
<1>17. CASE StageEmpty
    BY <1>17 DEF StageEmpty, NextStage, Following, Found, inputs, staged, result, history, Lookups, TypeOK
<1>18. CASE MockParses
    BY <1>18 DEF MockParses, EnterLookups, Report, inputs, staged, result, history, Lookups, TypeOK
<1>19. CASE MockRaises
    BY <1>19 DEF MockRaises, inputs, staged, result, history, Lookups, TypeOK
<1>20. ASSUME NEW c \in Component, LookUp(c) PROVE Lookups'
    BY <1>20 DEF LookUp, inputs, staged, result, history, Lookups, TypeOK
<1>21. CASE Return
    BY <1>21 DEF Return, inputs, staged, result, history, Lookups, TypeOK
<1>22. CASE UNCHANGED vars
    BY <1>22 DEF vars, inputs, staged, result, history, Lookups, TypeOK
<1>24. CASE Cancel
    BY <1>24 DEF Cancel, inputs, staged, result, history, Lookups
<1>23. QED
    BY <1>1, <1>2, <1>3, <1>4, <1>5, <1>6, <1>7, <1>8, <1>9, <1>10, <1>11, <1>12, <1>13, <1>14, <1>15, <1>16, <1>17, <1>18, <1>19, <1>20, <1>21, <1>22, <1>24 DEF Next, Step, Ended

\* No provider has the name of a stage.
LEMMA ProviderNoStage ==
    ASSUME TypeOK, provider <= Len(Providers)
    PROVE  Name \notin Stages
<1>1. provider \in DOMAIN Providers
    BY PositionCounted, ScannerAssumption
<1>2. QED
    BY <1>1, ScannerAssumption DEF Name

\* A stage that leaves its child running is over, and a timeout kills the child.
LEMMA StepKeepsBehind ==
    ASSUME TypeOK, StageFits, Behind, [Next]_vars
    PROVE  Behind'
<1>1. CASE Begin
    BY <1>1 DEF Begin, Report, inputs, staged, result, history, Behind, StageFits
<1>2. CASE ToolAvailable
    BY <1>2 DEF ToolAvailable, inputs, staged, result, history, Behind
<1>3. CASE ToolMissing
    BY <1>3 DEF ToolMissing, NextStage, Following, inputs, staged, result, history, Behind, TypeOK, StageFits, ToolPlaces
<1>4. CASE MakeTempDir
    BY <1>4 DEF MakeTempDir, inputs, staged, result, history, Behind
<1>5. CASE ExtractRefused
    BY <1>5 DEF ExtractRefused, inputs, staged, result, history, Behind
<1>6. CASE StartTool
    BY <1>6 DEF StartTool, inputs, staged, result, history, Behind
<1>7. CASE ToolExits
    BY <1>7 DEF ToolExits, inputs, staged, result, history, Behind
<1>8. CASE ToolTimesOut
    BY <1>8 DEF ToolTimesOut, inputs, staged, result, history, Behind
<1>9. CASE ReadTree
    BY <1>9 DEF ReadTree, inputs, staged, result, history, Behind
<1>10. CASE StageRaises
  <2>1. /\ left' \subseteq left \cup {<<stage, "child">>} /\ stage' = Following
        /\ pc \in {"extract", "extracting", "parse"}
    BY <1>10 DEF StageRaises, NextStage
  <2>2. stage \in {"binwalk", "unblob"}
    BY <2>1 DEF StageFits, ToolPlaces
  <2>3. /\ <<stage, "child">> \notin left /\ <<"mock", "child">> \notin left
        /\ stage = "binwalk" => <<"unblob", "child">> \notin left
    BY <2>1 DEF Behind
  <2>4. CASE stage = "binwalk"
    <3>1. stage' = "unblob" /\ <<"unblob", "child">> \notin left' /\ <<"mock", "child">> \notin left'
      BY <2>1, <2>3, <2>4 DEF Following
    <3>2. QED
      BY <3>1 DEF Behind
  <2>5. CASE stage = "unblob"
    <3>1. stage' = "mock" /\ <<"mock", "child">> \notin left'
      BY <2>1, <2>3, <2>5 DEF Following
    <3>2. QED
      BY <3>1 DEF Behind
  <2>6. QED
    BY <2>2, <2>4, <2>5
<1>11. CASE SkipProvider
    BY <1>11 DEF SkipProvider, MoreProviders, inputs, staged, result, history, Behind
<1>12. CASE StartProvider
    BY <1>12 DEF StartProvider, MoreProviders, inputs, staged, result, history, Behind
<1>13. CASE ProviderRefused
    BY <1>13 DEF ProviderRefused, MoreProviders, inputs, staged, result, history, Behind
<1>14. CASE ProviderEnds
    BY <1>14, ProviderNoStage DEF ProviderEnds, inputs, staged, result, history, Behind, TypeOK, Stages
<1>15. CASE ProviderRaises
  <2>1. left' \subseteq left \cup {<<Name, "child">>} /\ stage' = stage /\ pc # "cancelled"
    BY <1>15 DEF ProviderRaises
  <2>2. Name \notin Stages /\ stage \in Stages
    BY <1>15, ProviderNoStage DEF ProviderRaises, TypeOK
  <2>3. <<stage, "child">> # <<Name, "child">> /\ <<"mock", "child">> # <<Name, "child">>
        /\ <<"unblob", "child">> # <<Name, "child">>
    BY <2>2 DEF Stages
  <2>4. QED
    BY <2>1, <2>3 DEF Behind
<1>16. CASE StageSucceeds
    BY <1>16 DEF StageSucceeds, EnterLookups, inputs, staged, result, history, Behind
<1>17. CASE StageEmpty
    BY <1>17 DEF StageEmpty, NextStage, Following, inputs, staged, result, history, Behind, TypeOK, StageFits, ToolPlaces
<1>18. CASE MockParses
    BY <1>18 DEF MockParses, EnterLookups, Report, inputs, staged, result, history, Behind
<1>19. CASE MockRaises
    BY <1>19 DEF MockRaises, inputs, staged, result, history, Behind
<1>20. ASSUME NEW c \in Component, LookUp(c) PROVE Behind'
    BY <1>20 DEF LookUp, inputs, staged, result, history, Behind
<1>21. CASE Return
    BY <1>21 DEF Return, inputs, staged, result, history, Behind
<1>22. CASE UNCHANGED vars
    BY <1>22 DEF vars, inputs, staged, result, history, Behind
<1>23. CASE Cancel
    BY <1>23 DEF Cancel, inputs, staged, result, history, Behind
<1>24. QED
    BY <1>1, <1>2, <1>3, <1>4, <1>5, <1>6, <1>7, <1>8, <1>9, <1>10, <1>11, <1>12, <1>13, <1>14, <1>15, <1>16, <1>17, <1>18, <1>19, <1>20, <1>21, <1>22, <1>23 DEF Next, Step, Ended

\* Whatever leaves a process running tells of it, and no stage is over without what
\* it has to tell.
LEMMA StepKeepsTelling ==
    ASSUME TypeOK, StageFits, Telling, [Next]_vars
    PROVE  Telling'
<1>1. CASE Begin
    BY <1>1 DEF Begin, Report, inputs, staged, result, history, Telling
<1>2. CASE ToolAvailable
    BY <1>2 DEF ToolAvailable, inputs, staged, result, history, Telling
<1>3. CASE ToolMissing
    BY <1>3 DEF ToolMissing, NextStage, Following, inputs, staged, result, history, Telling
<1>4. CASE MakeTempDir
    BY <1>4 DEF MakeTempDir, inputs, staged, result, history, Telling
<1>5. CASE ExtractRefused
    BY <1>5 DEF ExtractRefused, inputs, staged, result, history, Telling
<1>6. CASE StartTool
    BY <1>6 DEF StartTool, inputs, staged, result, history, Telling
<1>7. CASE ToolExits
    BY <1>7 DEF ToolExits, inputs, staged, result, history, Telling
<1>8. CASE ToolTimesOut
  <2>1. \A process \in left' : process \in left \/ process[1] = stage
    BY <1>8 DEF ToolTimesOut
  <2>2. pc = "extracting" /\ pc' = "inventory" /\ stage' = stage /\ failure' = "tool" /\ errors' = errors
    BY <1>8 DEF ToolTimesOut, result
  <2>3. \A process \in left : \E kind \in Failures : <<process[1], kind>> \in errors
    BY <2>2 DEF Telling
  <2>4. QED
    BY <2>1, <2>2, <2>3, Zenon DEF Telling
<1>9. CASE ReadTree
    BY <1>9 DEF ReadTree, inputs, staged, result, history, Telling
<1>10. CASE StageRaises
  <2>1. \A process \in left' : process \in left \/ process[1] = stage
    <3>1. left' = left \/ left' = left \cup {<<stage, "child">>}
      BY <1>10 DEF StageRaises
    <3>2. <<stage, "child">>[1] = stage
      OBVIOUS
    <3>3. QED
      BY <3>1, <3>2
  <2>2. /\ pc \in {"extract", "extracting", "parse"}
        /\ errors' = errors \cup {<<stage, "extraction failed">>}
    BY <1>10 DEF StageRaises, Report
  <2>3. \A process \in left : \E kind \in Failures : <<process[1], kind>> \in errors
    BY <2>2 DEF Telling
  <2>4. "extraction failed" \in Failures
    BY DEF Failures
  <2>5. \A process \in left' : \E kind \in Failures : <<process[1], kind>> \in errors'
    BY <2>1, <2>2, <2>3, <2>4
  <2>6. QED
    BY <2>5 DEF Telling
<1>11. CASE SkipProvider
    BY <1>11 DEF SkipProvider, MoreProviders, inputs, staged, result, history, Telling
<1>12. CASE StartProvider
    BY <1>12 DEF StartProvider, MoreProviders, inputs, staged, result, history, Telling
<1>13. CASE ProviderRefused
    BY <1>13 DEF ProviderRefused, MoreProviders, inputs, staged, result, history, Telling
<1>14. CASE ProviderEnds
  <2>1. \/ left' = left
        \/ /\ \A process \in left' : process \in left \/ process[1] = Name
           /\ <<Name, "failed">> \in warnings'
    BY <1>14 DEF ProviderEnds
  <2>2. /\ pc = "inventorying" /\ pc' = "inventory" /\ UNCHANGED <<stage, failure, errors>>
        /\ warnings \subseteq warnings'
    BY <1>14 DEF ProviderEnds, result
  <2>3. "failed" \in Failures
    BY DEF Failures
  <2>4. ASSUME NEW process \in left
        PROVE  \/ \E kind \in Failures : <<process[1], kind>> \in errors'
               \/ \E kind \in Failures : <<process[1], kind>> \in warnings'
               \/ process[1] = stage' /\ failure' = "tool"
    BY <2>2 DEF Telling
  <2>5. ASSUME NEW process \in left'
        PROVE  \/ \E kind \in Failures : <<process[1], kind>> \in errors'
               \/ \E kind \in Failures : <<process[1], kind>> \in warnings'
               \/ process[1] = stage' /\ failure' = "tool"
    BY <2>1, <2>3, <2>4
  <2>6. QED
    BY <2>2, <2>5 DEF Telling
<1>15. CASE ProviderRaises
  <2>1. \/ left' = left
        \/ /\ \A process \in left' : process \in left \/ process[1] = Name
           /\ <<Name, "inventory failed">> \in warnings'
    <3>1. left' = left \/ left' = left \cup {<<Name, "child">>}
      BY <1>15 DEF ProviderRaises
    <3>2. <<Name, "child">>[1] = Name
      OBVIOUS
    <3>3. <<Name, "inventory failed">> \in warnings'
      BY <1>15 DEF ProviderRaises
    <3>4. QED
      BY <3>1, <3>2, <3>3
  <2>2. /\ pc = "inventorying" /\ pc' = "inventory" /\ UNCHANGED <<stage, failure, errors>>
        /\ warnings \subseteq warnings'
    BY <1>15 DEF ProviderRaises, result
  <2>3. "inventory failed" \in Failures
    BY DEF Failures
  <2>4. ASSUME NEW process \in left
        PROVE  \/ \E kind \in Failures : <<process[1], kind>> \in errors'
               \/ \E kind \in Failures : <<process[1], kind>> \in warnings'
               \/ process[1] = stage' /\ failure' = "tool"
    BY <2>2 DEF Telling
  <2>5. ASSUME NEW process \in left'
        PROVE  \/ \E kind \in Failures : <<process[1], kind>> \in errors'
               \/ \E kind \in Failures : <<process[1], kind>> \in warnings'
               \/ process[1] = stage' /\ failure' = "tool"
    BY <2>1, <2>3, <2>4
  <2>6. QED
    BY <2>2, <2>5 DEF Telling
<1>16. CASE StageSucceeds
    BY <1>16 DEF StageSucceeds, EnterLookups, inputs, staged, result, history, Telling, Failures
<1>17. CASE StageEmpty
    BY <1>17 DEF StageEmpty, NextStage, Following, inputs, staged, result, history, Telling, Failures
<1>18. CASE MockParses
    BY <1>18 DEF MockParses, EnterLookups, Report, inputs, staged, result, history, Telling
<1>19. CASE MockRaises
    BY <1>19 DEF MockRaises, inputs, staged, result, history, Telling
<1>20. ASSUME NEW c \in Component, LookUp(c) PROVE Telling'
    BY <1>20 DEF LookUp, inputs, staged, result, history, Telling
<1>21. CASE Return
    BY <1>21 DEF Return, inputs, staged, result, history, Telling
<1>22. CASE UNCHANGED vars
    BY <1>22 DEF vars, inputs, staged, result, history, Telling
<1>23. CASE Cancel
    BY <1>23 DEF Cancel, inputs, staged, result, history, Telling
<1>24. QED
    BY <1>1, <1>2, <1>3, <1>4, <1>5, <1>6, <1>7, <1>8, <1>9, <1>10, <1>11, <1>12, <1>13, <1>14, <1>15, <1>16, <1>17, <1>18, <1>19, <1>20, <1>21, <1>22, <1>23 DEF Next, Step, Ended

\* What every step keeps.
IInv == TypeOK /\ StageFits /\ Explained /\ Evidence /\ Lookups /\ Behind /\ Telling

\* A scan starts in the invariant.
LEMMA InitHolds == Init => IInv
<1> SUFFICES ASSUME Init PROVE IInv
    OBVIOUS
<1>1. TypeOK
    BY ProvidersCounted DEF Init, TypeOK, Stages, Source
<1>2. StageFits /\ Explained
    BY DEF Init, StageFits, Explained, ToolPlaces
<1>3. Evidence /\ Lookups /\ Behind /\ Telling
    BY DEF Init, Evidence, Lookups, Behind, Telling
<1>4. QED
    BY <1>1, <1>2, <1>3 DEF IInv

\* The invariant holds throughout a scan.
LEMMA ScannerInvariant == Spec => []IInv
<1>1. Init => IInv
    BY InitHolds
<1>2. IInv /\ [Next]_vars => IInv'
    BY StepKeepsTypes, StepKeepsStage, StepKeepsReasons, StepKeepsEvidence, StepKeepsLookups,
       StepKeepsBehind, StepKeepsTelling DEF IInv
<1>3. QED
    BY <1>1, <1>2, PTL DEF Spec

-----------------------------------------------------------------------------

\* Every variable of a scan keeps its type, for any components and providers.
THEOREM ScannerTypeOK == Spec => []TypeOK
<1>1. IInv => TypeOK
    BY DEF IInv
<1>2. QED
    BY <1>1, ScannerInvariant, PTL

\* A result without binwalk says what became of binwalk, and only what stands outside
\* every try ends a scan by an exception (scan, scanner.py:218).
THEOREM ScanExplained == Spec => []FallbackExplained
<1>1. IInv => FallbackExplained
  <2> SUFFICES ASSUME IInv PROVE FallbackExplained
      OBVIOUS
  <2>1. ASSUME pc = "returned", "binwalk" \notin providers
        PROVE  \E kind \in Reasons : <<"binwalk", kind>> \in errors
      BY <2>1 DEF IInv, Evidence, Explained
  <2>2. pc = "raised" => stage = "mock" \/ (~dirGiven /\ stage \notin tempDirs)
      BY DEF IInv, StageFits
  <2>3. QED
      BY <2>1, <2>2 DEF FallbackExplained, Reasons
<1>2. QED
    BY <1>1, ScannerInvariant, PTL

\* A result holds exactly what the providers it names have found, and each of its
\* components has been looked up, whatever failed on the way (collect_inventory,
\* _add_cve_findings).
THEOREM ScanResultTrue == Spec => []ResultTrue
<1>1. IInv => ResultTrue
  <2> SUFFICES ASSUME IInv PROVE ResultTrue
      OBVIOUS
  <2>1. ASSUME pc \in {"lookup", "returned"}
        PROVE  /\ \A c \in components : \E source \in providers : <<c, source>> \in found
               /\ \A pair \in found : pair[1] \in components /\ pair[2] \in providers
    <3>1. components = Found /\ \A pair \in found : pair[2] \in providers
        BY <2>1 DEF IInv, Evidence
    <3>2. \A pair \in found : pair = <<pair[1], pair[2]>>
        BY DEF IInv, TypeOK
    <3>3. QED
        BY <3>1, <3>2 DEF Found
  <2>2. pc = "returned" => looked = components
      BY DEF IInv, Lookups
  <2>3. QED
      BY <2>1, <2>2 DEF ResultTrue
<1>2. QED
    BY <1>1, ScannerInvariant, PTL

\* A tree is read only when its tool has ended, and a result tells of the failure of
\* every tool that it leaves running (BinwalkRunner.extract, UnblobRunner.extract,
\* _JsonCliInventoryProvider.inventory).
THEOREM ScanQuietTree == Spec => []QuietTree
<1>1. IInv => QuietTree
    BY DEF IInv, Behind, Telling, Failures, QuietTree, Told
<1>2. QED
    BY <1>1, ScannerInvariant, PTL

-----------------------------------------------------------------------------

\* The least and the greatest of numbers up to a bound.
LEMMA LeastNumber ==
    ASSUME NEW T \in SUBSET Nat, T # {}
    PROVE  Sts!Min(T) \in T /\ \A j \in T : Sts!Min(T) <= j
<1>1. \E i \in T : \A j \in T : <<j, i>> \notin OpToRel(<, Nat)
    BY WFMin, NatLessThanWellFounded
<1>2. \A i, j \in Nat : j < i => <<j, i>> \in OpToRel(<, Nat)
    BY DEF OpToRel
<1>3. PICK i \in T : \A j \in T : <<j, i>> \notin OpToRel(<, Nat)
    BY <1>1
<1>4. \A j \in T : ~(j < i)
    BY <1>2, <1>3
<1>5. \A j \in T : i <= j
    BY <1>4
<1>6. QED
    BY <1>5 DEF Sts!Min

LEMMA GreatestNumber ==
    ASSUME NEW n \in Nat, NEW T \in SUBSET (0 .. n), T # {}
    PROVE  Sts!Max(T) \in T /\ \A j \in T : j <= Sts!Max(T)
<1> DEFINE above == {m \in Nat : \A j \in T : j <= m}
<1>1. n \in above /\ above \in SUBSET Nat
    OBVIOUS
<1>2. Sts!Min(above) \in above /\ \A m \in above : Sts!Min(above) <= m
    BY <1>1, LeastNumber
<1> DEFINE g == Sts!Min(above)
<1>3. g \in Nat /\ \A j \in T : j <= g
    BY <1>2
<1> HIDE DEF g
<1>4. g \in T
  <2>1. CASE g \notin T
    <3>1. \A j \in T : j <= g - 1 /\ j \in Nat
        BY <1>3, <2>1
    <3>0. PICK j : j \in T
        OBVIOUS
    <3>2. 0 <= j /\ j <= g - 1 /\ j \in Nat
        BY <3>0, <3>1
    <3>3. g - 1 \in Nat
        BY <1>3, <3>2
    <3>4. g - 1 \in above
        BY <3>1, <3>3
    <3>5. QED
        BY <1>2, <1>3, <3>4 DEF g
  <2>2. QED
    BY <2>1
<1>5. QED
    BY <1>3, <1>4 DEF Sts!Max

\* What a merge makes of the candidates of an identity.
LEMMA EntrySays ==
    ASSUME NEW s \in Seq(Detection), s # <<>>
    PROVE  LET entry == MergedEntry(s)
               said == Sqs!ToSet(s)
           IN /\ \E c \in said : /\ entry.name = c.name /\ entry.version = c.version
                                 /\ entry.licenses = IF Licenses(s) = {} THEN c.licenses ELSE Licenses(s)
                                 /\ entry.license = IF Licenses(s) = {} THEN c.license ELSE Sts!Min(Licenses(s))
              /\ entry.sources = Sources(s)
              /\ entry.evidence_paths = EvidencePaths(s)
              /\ \E strongest \in {c.confidence : c \in said} :
                    /\ \A c \in said : c.confidence <= strongest
                    /\ entry.confidence = Sts!Min({99, strongest + 3 * Sts!Max({0, Cardinality(Sources(s)) - 1})})
              /\ entry \in Detection
<1> DEFINE said == Sqs!ToSet(s)
           sure == {c.confidence : c \in said}
           strong == {i \in DOMAIN s : s[i].confidence = Strongest(s)}
           k == Sts!Min(strong)
           named == {i \in DOMAIN s : s[i].path # Absent}
<1>1. DOMAIN s = 1 .. Len(s) /\ Len(s) \in Nat /\ 1 \in DOMAIN s /\ \A i \in DOMAIN s : s[i] \in Detection
    OBVIOUS
<1>2. said \subseteq Detection /\ \A c \in said : \E i \in DOMAIN s : s[i] = c
    BY <1>1 DEF Sqs!ToSet
<1>3. s[1] \in said /\ \A i \in DOMAIN s : s[i] \in said
    BY <1>1 DEF Sqs!ToSet
<1>4. sure \in SUBSET (0 .. 100) /\ sure # {}
  <2>1. \A c \in Detection : c.confidence \in 0 .. 100
    BY DEF Detection
  <2>2. QED
    BY <1>2, <1>3, <2>1
<1>5. Strongest(s) \in sure /\ Strongest(s) \in 0 .. 100 /\ \A j \in sure : j <= Strongest(s)
  <2>1. Sts!Max(sure) \in sure /\ \A j \in sure : j <= Sts!Max(sure)
    BY <1>4, GreatestNumber
  <2>2. Strongest(s) = Sts!Max(sure)
    BY DEF Strongest
  <2> HIDE DEF sure
  <2>3. QED
    BY <1>4, <2>1, <2>2
<1>6. strong # {} /\ strong \in SUBSET Nat
    BY <1>1, <1>2, <1>5
<1>7. k \in strong
    BY <1>6, LeastNumber
<1>8. Primary(s) = s[k] /\ s[k] \in said /\ s[k] \in Detection
    BY <1>1, <1>3, <1>7 DEF Primary
<1>9. FirstPath(s) \in Nat
  <2>1. CASE named = {}
    BY <2>1 DEF FirstPath, Absent
  <2>2. CASE named # {}
    <3>1. named \in SUBSET Nat
        BY <1>1
    <3>2. Sts!Min(named) \in DOMAIN s
        BY <2>2, <3>1, LeastNumber
    <3>3. FirstPath(s) = s[Sts!Min(named)].path
        BY <2>2 DEF FirstPath
    <3>4. QED
        BY <1>1, <3>2, <3>3 DEF Detection
  <2>3. QED
    BY <2>1, <2>2
<1>10. Sources(s) \in SUBSET Origins /\ EvidencePaths(s) \in SUBSET Nat /\ Licenses(s) \in SUBSET Nat
    BY <1>2 DEF Sources, EvidencePaths, Licenses, Detection
<1>11. Confidence(s) \in 0 .. 100
  <2>1. Cardinality(Sources(s)) \in Nat
    BY <1>10, EvidenceAssumption, FS_Subset, FS_CardinalityType
  <2> DEFINE further == {0, Cardinality(Sources(s)) - 1}
             bounds == {99, Strongest(s) + 3 * Sts!Max(further)}
             bound == IF Cardinality(Sources(s)) = 0 THEN 0 ELSE Cardinality(Sources(s)) - 1
  <2>2. Sts!Max(further) \in Nat
    <3>1. bound \in Nat /\ bound \in further /\ \A j \in further : j <= bound
        BY <2>1
    <3>2. \E m \in further : \A j \in further : j <= m
        BY <3>1
    <3>3. Sts!Max(further) \in further /\ \A j \in further : j <= Sts!Max(further)
        BY <3>2 DEF Sts!Max
    <3>4. Sts!Max(further) >= 0
        BY <3>3, <2>1
    <3>5. QED
        BY <2>1, <3>3, <3>4
  <2> HIDE DEF sure
  <2>3. Strongest(s) \in Nat
    <3>1. 0 .. 100 \subseteq Nat
        OBVIOUS
    <3>2. QED
        BY <1>5, <3>1
  <2>4. bounds \in SUBSET Nat /\ 99 \in bounds
    BY <2>2, <2>3
  <2> HIDE DEF bounds
  <2>5. Sts!Min(bounds) \in Nat /\ Sts!Min(bounds) <= 99
    BY <2>4, LeastNumber
  <2>6. Sts!Min(bounds) \in 0 .. 100
    <3>1. \A n \in Nat : n <= 99 => n \in 0 .. 100
        OBVIOUS
    <3>2. QED
        BY <2>5, <3>1
  <2>7. QED
    BY <2>6 DEF Confidence, bounds
<1>12. Licenses(s) # {} => Sts!Min(Licenses(s)) \in Nat
    BY <1>10, LeastNumber
<1> DEFINE licenses == IF Licenses(s) = {} THEN s[k].licenses ELSE Licenses(s)
           license == IF Licenses(s) = {} THEN s[k].license ELSE Sts!Min(Licenses(s))
<1>13. licenses \in SUBSET Nat /\ license \in Nat
    BY <1>8, <1>10, <1>12 DEF Detection
<1> HIDE DEF k, said, sure
<1>14. MergedEntry(s) = [s[k] EXCEPT !.path = FirstPath(s), !.sources = Sources(s),
                             !.evidence_paths = EvidencePaths(s), !.confidence = Confidence(s),
                             !.licenses = licenses, !.license = license]
    BY <1>8 DEF MergedEntry
<1> HIDE DEF licenses, license
<1>15. MergedEntry(s) \in Detection
    BY <1>8, <1>9, <1>10, <1>11, <1>13, <1>14 DEF Detection
<1>16. /\ MergedEntry(s).name = s[k].name /\ MergedEntry(s).version = s[k].version
       /\ MergedEntry(s).sources = Sources(s) /\ MergedEntry(s).evidence_paths = EvidencePaths(s)
       /\ MergedEntry(s).licenses = licenses /\ MergedEntry(s).license = license
       /\ MergedEntry(s).confidence = Confidence(s)
    BY <1>8, <1>14 DEF Detection
<1>17. \A c \in said : c.confidence <= Strongest(s)
    BY <1>5 DEF sure
<1>18. QED
    BY <1>5, <1>8, <1>15, <1>16, <1>17 DEF licenses, license, said, sure, Confidence

\* The list of a merge has the entries, in some order.
LEMMA ListOfMerge ==
    ASSUME NEW merged, IsFiniteSet(DOMAIN merged),
           \A identity \in DOMAIN merged : merged[identity] \in Detection
    PROVE  /\ InventoryOf(merged) \in Seq(Detection)
           /\ Sqs!ToSet(InventoryOf(merged)) = {merged[identity] : identity \in DOMAIN merged}
<1> DEFINE D == DOMAIN merged
           n == Cardinality(D)
           order == Sqs!SetToSeq(D)
<1>1. n \in Nat /\ ExistsBijection(1 .. n, D)
    BY FS_CardinalityType
<1>2. PICK f : f \in Bijection(1 .. n, D)
    BY <1>1 DEF ExistsBijection
<1>3. f \in [1 .. n -> D] /\ \A a, b \in 1 .. n : f[a] = f[b] => a = b
    BY <1>2 DEF Bijection, Injection, IsInjective
<1>4. \E g \in [1 .. n -> D] : Sqs!IsInjective(g)
    BY <1>3 DEF Sqs!IsInjective
<1>40. Sqs!Cardinality(D) = n
    BY DEF Sqs!Cardinality, Cardinality, Sqs!IsFiniteSet, IsFiniteSet
<1>5. order \in [1 .. n -> D] /\ Sqs!IsInjective(order)
    BY <1>4, <1>40 DEF Sqs!SetToSeq
<1>6. order \in Injection(1 .. n, D)
    BY <1>5 DEF Injection, IsInjective, Sqs!IsInjective
<1>7. IsFiniteSet(1 .. n) /\ Cardinality(1 .. n) = n
    BY <1>1, FS_Interval
<1>8. order \in Surjection(1 .. n, D)
    BY <1>6, <1>7, FS_Injection
<1>9. \A d \in D : \E i \in 1 .. n : order[i] = d
    BY <1>8 DEF Surjection
<1> HIDE DEF order, n
<1>10. InventoryOf(merged) = [i \in 1 .. n |-> merged[order[i]]]
    BY <1>5 DEF InventoryOf, order
<1>11. \A i \in 1 .. n : merged[order[i]] \in Detection
    BY <1>5
<1>12. InventoryOf(merged) \in Seq(Detection) /\ DOMAIN InventoryOf(merged) = 1 .. n
    BY <1>1, <1>10, <1>11
<1>13. \A i \in 1 .. n : InventoryOf(merged)[i] = merged[order[i]]
    BY <1>10
<1>14. QED
    BY <1>5, <1>9, <1>12, <1>13 DEF Sqs!ToSet

-----------------------------------------------------------------------------

\* The components before the one that is grouped next.
Before(l, p) == l < list \/ (l = list /\ p < position)

\* What is grouped has been given, under its own identity; what has been given is
\* grouped.
GroupInv ==
    /\ inventories \in Seq(Seq(Detection))
    /\ list \in Nat \ {0} /\ position \in Nat \ {0}
    /\ IsFiniteSet(DOMAIN grouped)
    /\ \A identity \in DOMAIN grouped :
          /\ grouped[identity] \in Seq(Detection) /\ grouped[identity] # <<>>
          /\ \A i \in DOMAIN grouped[identity] :
                /\ grouped[identity][i] \in Said(inventories)
                /\ Named(grouped[identity][i]) /\ Identity(grouped[identity][i]) = identity
    /\ \A l \in DOMAIN inventories : \A p \in DOMAIN inventories[l] :
          Before(l, p) /\ Named(inventories[l][p]) =>
             /\ Identity(inventories[l][p]) \in DOMAIN grouped
             /\ inventories[l][p] \in Sqs!ToSet(grouped[Identity(inventories[l][p])])

\* Said, element by element.
LEMMA SaidIs ==
    ASSUME NEW lists
    PROVE  \A c : c \in Said(lists) <=> \E l \in DOMAIN lists : \E p \in DOMAIN lists[l] : c = lists[l][p]
  BY DEF Said, Sqs!ToSet

\* At the end of a merge the candidates of an identity are all that is said of it.
LEMMA AllGrouped ==
    ASSUME GroupInv, list > Len(inventories)
    PROVE  /\ DOMAIN grouped = Identities(Said(inventories))
           /\ \A identity \in DOMAIN grouped :
                 Sqs!ToSet(grouped[identity]) = Of(identity, Said(inventories))
<1>1. /\ inventories \in Seq(Seq(Detection)) /\ list \in Nat
      /\ DOMAIN inventories = 1 .. Len(inventories) /\ Len(inventories) \in Nat
    BY DEF GroupInv
<1>2. \A l \in DOMAIN inventories : \A p : Before(l, p)
    BY <1>1 DEF Before
<1>3. ASSUME NEW c \in Said(inventories), Named(c)
      PROVE  Identity(c) \in DOMAIN grouped /\ c \in Sqs!ToSet(grouped[Identity(c)])
  <2>1. PICK l \in DOMAIN inventories : \E p \in DOMAIN inventories[l] : c = inventories[l][p]
    BY <1>3, SaidIs
  <2>2. PICK p \in DOMAIN inventories[l] : c = inventories[l][p]
    BY <2>1
  <2>3. QED
    BY <1>2, <1>3, <2>2 DEF GroupInv
<1>4. ASSUME NEW identity \in DOMAIN grouped
      PROVE  /\ identity \in Identities(Said(inventories))
             /\ \A c \in Sqs!ToSet(grouped[identity]) : c \in Of(identity, Said(inventories)) /\ Named(c)
  <2>1. /\ grouped[identity] \in Seq(Detection) /\ grouped[identity] # <<>>
        /\ \A i \in DOMAIN grouped[identity] :
              /\ grouped[identity][i] \in Said(inventories)
              /\ Named(grouped[identity][i]) /\ Identity(grouped[identity][i]) = identity
    BY DEF GroupInv
  <2>2. 1 \in DOMAIN grouped[identity]
    BY <2>1
  <2>3. QED
    BY <2>1, <2>2 DEF Identities, Of, Sqs!ToSet
<1>5. ASSUME NEW identity \in DOMAIN grouped, NEW c \in Of(identity, Said(inventories))
      PROVE  c \in Sqs!ToSet(grouped[identity])
  <2>1. PICK d \in Said(inventories) : Named(d) /\ Identity(d) = identity
    BY <1>4 DEF Identities
  <2>2. c \in Said(inventories) /\ Identity(c) = identity
    BY <1>5 DEF Of
  <2>3. Named(c)
    BY <2>1, <2>2 DEF Named, Identity
  <2>4. QED
    BY <1>3, <2>2, <2>3
<1>6. DOMAIN grouped = Identities(Said(inventories))
    BY <1>3, <1>4 DEF Identities
<1>7. QED
    BY <1>4, <1>5, <1>6

\* A merge that has read nothing has nothing to group.
LEMMA NothingGrouped ==
    ASSUME inventories \in Seq(Seq(Detection)), list = 1, position = 1, grouped = NoGroup
    PROVE  GroupInv
<1>1. DOMAIN grouped = {} /\ IsFiniteSet({})
    BY FS_EmptySet DEF NoGroup
<1>2. \A l \in DOMAIN inventories : \A p \in DOMAIN inventories[l] : ~Before(l, p)
  <2>1. \A l \in DOMAIN inventories : l \in Nat /\ l >= 1 /\ inventories[l] \in Seq(Detection)
    OBVIOUS
  <2>2. \A l \in DOMAIN inventories : \A p \in DOMAIN inventories[l] : p \in Nat /\ p >= 1
    BY <2>1
  <2>3. QED
    BY <2>1, <2>2 DEF Before
<1>3. QED
    BY <1>1, <1>2 DEF GroupInv

\* A component joins the candidates of its identity, behind the others.
LEMMA GroupKeeps ==
    ASSUME GroupInv, GroupComponent
    PROVE  GroupInv'
<1> DEFINE component == inventories[list][position]
           own == Identity(component)
<1>1. /\ inventories \in Seq(Seq(Detection)) /\ list \in Nat \ {0} /\ position \in Nat \ {0}
      /\ list <= Len(inventories) /\ position <= Len(inventories[list])
      /\ inventories' = inventories /\ list' = list /\ position' = position + 1
      /\ IsFiniteSet(DOMAIN grouped)
    BY DEF GroupInv, GroupComponent
<1>2. list \in DOMAIN inventories /\ inventories[list] \in Seq(Detection)
    BY <1>1
<1>3. position \in DOMAIN inventories[list] /\ component \in Detection
    BY <1>1, <1>2
<1>4. component \in Said(inventories)
    BY <1>2, <1>3, SaidIs
<1>5. Said(inventories)' = Said(inventories)
    BY <1>1 DEF Said
<1>6. \A l, p : Before(l, p)' => Before(l, p) \/ ~(p \in Nat) \/ (l = list /\ p = position)
    BY <1>1 DEF Before
<1>7. \A l \in DOMAIN inventories : \A p \in DOMAIN inventories[l] :
         Before(l, p)' => Before(l, p) \/ inventories[l][p] = component
  <2>1. \A l \in DOMAIN inventories : inventories[l] \in Seq(Detection)
    BY <1>1
  <2>2. \A l \in DOMAIN inventories : \A p \in DOMAIN inventories[l] : p \in Nat
    BY <2>1
  <2>3. QED
    BY <1>6, <2>2
<1>8. \A l \in DOMAIN inventories : \A p \in DOMAIN inventories[l] :
         Before(l, p) /\ Named(inventories[l][p]) =>
            /\ Identity(inventories[l][p]) \in DOMAIN grouped
            /\ inventories[l][p] \in Sqs!ToSet(grouped[Identity(inventories[l][p])])
    BY DEF GroupInv
<1>9. \A identity \in DOMAIN grouped :
         /\ grouped[identity] \in Seq(Detection) /\ grouped[identity] # <<>>
         /\ \A i \in DOMAIN grouped[identity] :
               /\ grouped[identity][i] \in Said(inventories)
               /\ Named(grouped[identity][i]) /\ Identity(grouped[identity][i]) = identity
    BY DEF GroupInv
<1> HIDE DEF component, own
<1>10. CASE ~Named(component)
  <2>1. grouped' = grouped
    BY <1>10 DEF GroupComponent, component
  <2>2. \A l \in DOMAIN inventories : \A p \in DOMAIN inventories[l] :
           Before(l, p)' /\ Named(inventories[l][p]) => Before(l, p)
    BY <1>7, <1>10
  <2>3. QED
    BY <1>1, <1>5, <1>8, <1>9, <2>1, <2>2 DEF GroupInv, Named, Identity
<1>11. CASE Named(component)
  <2> DEFINE longer == Append(Group(own), component)
  <2>1. grouped' = [identity \in DOMAIN grouped \cup {own} |->
                       IF identity = own THEN longer ELSE grouped[identity]]
    BY <1>11 DEF GroupComponent, component, own
  <2>2. /\ Group(own) \in Seq(Detection)
        /\ \A i \in DOMAIN Group(own) : /\ Group(own)[i] \in Said(inventories)
                                        /\ Named(Group(own)[i]) /\ Identity(Group(own)[i]) = own
    BY <1>9 DEF Group
  <2>3. /\ longer \in Seq(Detection) /\ longer # <<>>
        /\ \A i \in DOMAIN longer : \/ i \in DOMAIN Group(own) /\ longer[i] = Group(own)[i]
                                    \/ longer[i] = component
        /\ \A i \in DOMAIN Group(own) : i \in DOMAIN longer /\ longer[i] = Group(own)[i]
        /\ \E i \in DOMAIN longer : longer[i] = component
    <3>1. Len(longer) = Len(Group(own)) + 1 /\ DOMAIN longer = 1 .. Len(longer)
          /\ DOMAIN Group(own) = 1 .. Len(Group(own)) /\ Len(Group(own)) \in Nat
          /\ longer \in Seq(Detection)
          /\ \A i \in 1 .. Len(Group(own)) : longer[i] = Group(own)[i]
        BY <1>3, <2>2
    <3>10. longer[Len(Group(own)) + 1] = component
        BY <1>3, <2>2
    <3>2. Len(Group(own)) + 1 \in DOMAIN longer
        BY <3>1
    <3>3. longer # <<>>
        BY <3>1
    <3> HIDE DEF longer
    <3>4. \A i \in DOMAIN longer : i \in DOMAIN Group(own) \/ i = Len(Group(own)) + 1
        BY <3>1
    <3>5. \A i \in DOMAIN longer : \/ i \in DOMAIN Group(own) /\ longer[i] = Group(own)[i]
                                   \/ longer[i] = component
      <4> TAKE i \in DOMAIN longer
      <4>1. CASE i \in DOMAIN Group(own)
        BY <3>1, <4>1
      <4>2. CASE i = Len(Group(own)) + 1
        BY <3>10, <4>2
      <4>3. QED
        BY <3>4, <4>1, <4>2
    <3>6. \A i \in DOMAIN Group(own) : i \in DOMAIN longer
        BY <3>1
    <3>7. \A i \in DOMAIN Group(own) : longer[i] = Group(own)[i]
        BY <3>1
    <3>8. QED
        BY <3>1, <3>2, <3>3, <3>5, <3>6, <3>7, <3>10
  <2> HIDE DEF longer
  <2>4. DOMAIN grouped' = DOMAIN grouped \cup {own} /\ grouped'[own] = longer
        /\ \A identity \in DOMAIN grouped : identity # own => grouped'[identity] = grouped[identity]
    BY <2>1
  <2>5. IsFiniteSet(DOMAIN grouped')
    BY <1>1, <2>4, FS_AddElement
  <2>6. Identity(component) = own
    BY DEF own
  <2>7. ASSUME NEW identity \in DOMAIN grouped'
        PROVE  /\ grouped'[identity] \in Seq(Detection) /\ grouped'[identity] # <<>>
               /\ \A i \in DOMAIN grouped'[identity] :
                     /\ grouped'[identity][i] \in Said(inventories)
                     /\ Named(grouped'[identity][i]) /\ Identity(grouped'[identity][i]) = identity
    <3>1. CASE identity = own
        BY <1>4, <1>11, <2>2, <2>3, <2>4, <2>6, <3>1
    <3>2. CASE identity # own
        BY <1>9, <2>4, <2>7, <3>2
    <3>3. QED
        BY <3>1, <3>2
  <2>8. ASSUME NEW identity \in DOMAIN grouped
        PROVE  Sqs!ToSet(grouped[identity]) \subseteq Sqs!ToSet(grouped'[identity])
    <3>1. identity = own => grouped[identity] = Group(own)
        BY <2>8 DEF Group
    <3>2. QED
        BY <2>3, <2>4, <2>8, <3>1 DEF Sqs!ToSet
  <2>9. component \in Sqs!ToSet(grouped'[own])
    BY <2>3, <2>4 DEF Sqs!ToSet
  <2>10. ASSUME NEW l \in DOMAIN inventories, NEW p \in DOMAIN inventories[l],
                Before(l, p)', Named(inventories[l][p])
         PROVE  /\ Identity(inventories[l][p]) \in DOMAIN grouped'
                /\ inventories[l][p] \in Sqs!ToSet(grouped'[Identity(inventories[l][p])])
    <3>1. CASE inventories[l][p] = component
        BY <2>4, <2>6, <2>9, <3>1
    <3>2. CASE Before(l, p)
        BY <1>8, <2>4, <2>8, <2>10, <3>2
    <3>3. QED
        BY <1>7, <2>10, <3>1, <3>2
  <2>11. QED
    BY <1>1, <1>5, <2>5, <2>7, <2>10 DEF GroupInv, Named, Identity
<1>12. QED
    BY <1>10, <1>11

\* Going on to the next list, or past an empty one, loses no component.
LEMMA NextKeeps ==
    ASSUME GroupInv, NextInventory
    PROVE  GroupInv'
<1>1. /\ inventories \in Seq(Seq(Detection)) /\ list \in Nat \ {0} /\ position \in Nat \ {0}
      /\ list <= Len(inventories) /\ position > Len(inventories[list])
      /\ inventories' = inventories /\ list' = list + 1 /\ position' = 1 /\ grouped' = grouped
    BY DEF GroupInv, NextInventory
<1>2. \A l \in DOMAIN inventories : inventories[l] \in Seq(Detection) /\ l \in Nat
    BY <1>1
<1>3. ASSUME NEW l \in DOMAIN inventories, NEW p \in DOMAIN inventories[l], Before(l, p)'
      PROVE  Before(l, p)
  <2>1. p \in Nat /\ p <= Len(inventories[l]) /\ l \in Nat /\ Len(inventories[l]) \in Nat /\ p >= 1
    BY <1>2
  <2>2. l < list + 1
    BY <1>1, <1>3, <2>1 DEF Before
  <2>3. QED
    BY <1>1, <2>1, <2>2 DEF Before
<1>4. Said(inventories)' = Said(inventories)
    BY <1>1 DEF Said
<1>5. QED
    BY <1>1, <1>3, <1>4 DEF GroupInv, Named, Identity

\* What is collected, and what the second merge is given: every entry is of its own
\* identity.
MergeInv ==
    /\ native \in Seq(Detection) /\ reports \in Seq(Seq(Detection))
    /\ \A c \in Said(reports) : c.licenses = {}
    /\ merging \in {"collect", "inventory", "over"}
    /\ merging # "over" => GroupInv
    /\ merging = "collect" => inventories = reports
    /\ merging = "inventory" =>
          /\ Collected
          /\ Said(inventories) = Sqs!ToSet(native) \cup {outcome[i] : i \in DOMAIN outcome}
          /\ \A i \in DOMAIN outcome : Identity(outcome[i]) = i /\ Named(outcome[i])
    /\ merging = "over" => SourcesReported

\* Before the first component the invariant holds of any reports.
LEMMA MergeStarts == EvidenceInit => MergeInv
<1> SUFFICES ASSUME EvidenceInit PROVE MergeInv
    OBVIOUS
<1>1. /\ native \in Native /\ reports \in Reported /\ merging = "collect" /\ inventories = reports
      /\ list = 1 /\ position = 1 /\ grouped = NoGroup
    BY DEF EvidenceInit, NothingMerged
<1> DEFINE Fresh == {c \in Detection : c.licenses = {}}
<1>2. native \in Seq(Detection) /\ reports \in Seq(Seq(Fresh))
    BY <1>1, EvidenceAssumption
<1> HIDE DEF Fresh
<1>3. \A l \in DOMAIN reports : reports[l] \in Seq(Fresh)
    BY <1>2
<1>4. \A l \in DOMAIN reports : \A p \in DOMAIN reports[l] : reports[l][p] \in Fresh
    BY <1>3
<1>5. \A c \in Said(reports) : c \in Fresh
    BY <1>4, SaidIs
<1>6. \A l \in DOMAIN reports : reports[l] \in Seq(Detection)
  <2>1. \A c \in Fresh : c \in Detection
    BY DEF Fresh
  <2>2. QED
    BY <1>3, <2>1
<1>7. reports \in Seq(Seq(Detection))
    BY <1>2, <1>6
<1>8. GroupInv
    BY <1>1, <1>7, NothingGrouped
<1>9. QED
    BY <1>1, <1>2, <1>5, <1>7, <1>8 DEF MergeInv, Fresh

\* Reading the lists leaves the outcome of the merge before as it is.
LEMMA GroupingKeeps ==
    ASSUME MergeInv, GroupComponent \/ NextInventory
    PROVE  MergeInv'
<1>1. /\ merging # "over" /\ UNCHANGED <<native, reports, merging, inventories, outcome>>
    BY DEF GroupComponent, NextInventory
<1>2. GroupInv'
    BY <1>1, GroupKeeps, NextKeeps DEF MergeInv
<1>3. Said(reports)' = Said(reports) /\ Said(inventories)' = Said(inventories)
    BY <1>1 DEF Said
<1>4. Collected' <=> Collected
    BY <1>1 DEF Collected, EvidenceKept
<1>5. QED
    BY <1>1, <1>2, <1>3, <1>4 DEF MergeInv, Identity, Named

\* The entry of an identity, of which `said` is what is said.
EntryOf(entry, identity, said) ==
    LET licenses == {c.license : c \in said} \ {Absent}
    IN /\ entry \in Detection /\ Identity(entry) = identity /\ Named(entry)
       /\ entry.sources = UNION {c.sources : c \in said}
       /\ entry.evidence_paths = {c.path : c \in said} \ {Absent}
       /\ licenses # {} => entry.licenses = licenses /\ entry.license = Sts!Min(licenses)
       /\ licenses = {} => \E c \in said : entry.licenses = c.licenses /\ entry.license = c.license
       /\ Weighed(entry, said)

\* The entries of a merge, of any lists.
LEMMA EntriesOfMerge ==
    ASSUME GroupInv, list > Len(inventories),
           outcome' = [identity \in DOMAIN grouped |-> MergedEntry(grouped[identity])]
    PROVE  /\ DOMAIN outcome' = Identities(Said(inventories)) /\ IsFiniteSet(DOMAIN outcome')
           /\ \A identity \in DOMAIN outcome' :
                 EntryOf(outcome'[identity], identity, Of(identity, Said(inventories)))
<1>1. /\ DOMAIN outcome' = DOMAIN grouped
      /\ \A identity \in DOMAIN grouped : outcome'[identity] = MergedEntry(grouped[identity])
    OBVIOUS
<1>2. /\ DOMAIN grouped = Identities(Said(inventories))
      /\ \A identity \in DOMAIN grouped :
            Sqs!ToSet(grouped[identity]) = Of(identity, Said(inventories))
    BY AllGrouped
<1>3. ASSUME NEW identity \in DOMAIN grouped
      PROVE  EntryOf(outcome'[identity], identity, Of(identity, Said(inventories)))
  <2> DEFINE s == grouped[identity]
             entry == MergedEntry(s)
             said == Of(identity, Said(inventories))
             licenses == {c.license : c \in said} \ {Absent}
  <2>1. /\ s \in Seq(Detection) /\ s # <<>> /\ Sqs!ToSet(s) = said
        /\ outcome'[identity] = entry
    BY <1>1, <1>2 DEF GroupInv
  <2>2. \A c \in said : Identity(c) = identity /\ Named(c)
    <3>1. PICK d \in Said(inventories) : Named(d) /\ Identity(d) = identity
        BY <1>2 DEF Identities
    <3>2. QED
        BY <3>1 DEF Of, Named, Identity
  <2> HIDE DEF said
  <2>3. /\ Sources(s) = UNION {c.sources : c \in said}
        /\ EvidencePaths(s) = {c.path : c \in said} \ {Absent}
        /\ Licenses(s) = licenses
    BY <2>1 DEF Sources, EvidencePaths, Licenses
  <2> HIDE DEF s, entry, licenses
  <2>4. /\ \E c \in said : /\ entry.name = c.name /\ entry.version = c.version
                           /\ entry.licenses = IF Licenses(s) = {} THEN c.licenses ELSE Licenses(s)
                           /\ entry.license = IF Licenses(s) = {} THEN c.license ELSE Sts!Min(Licenses(s))
        /\ entry.sources = Sources(s) /\ entry.evidence_paths = EvidencePaths(s)
        /\ \E strongest \in {c.confidence : c \in said} :
              /\ \A c \in said : c.confidence <= strongest
              /\ entry.confidence = Sts!Min({99, strongest + 3 * Sts!Max({0, Cardinality(Sources(s)) - 1})})
        /\ entry \in Detection
    <3>1. /\ \E c \in Sqs!ToSet(s) :
                /\ entry.name = c.name /\ entry.version = c.version
                /\ entry.licenses = IF Licenses(s) = {} THEN c.licenses ELSE Licenses(s)
                /\ entry.license = IF Licenses(s) = {} THEN c.license ELSE Sts!Min(Licenses(s))
          /\ entry.sources = Sources(s) /\ entry.evidence_paths = EvidencePaths(s)
          /\ \E strongest \in {c.confidence : c \in Sqs!ToSet(s)} :
                /\ \A c \in Sqs!ToSet(s) : c.confidence <= strongest
                /\ entry.confidence = Sts!Min({99, strongest + 3 * Sts!Max({0, Cardinality(Sources(s)) - 1})})
          /\ entry \in Detection
        BY <2>1, EntrySays DEF entry
    <3>2. QED
        BY <2>1, <3>1
  <2>5. Identity(entry) = identity /\ Named(entry)
    BY <2>2, <2>4 DEF Identity, Named
  <2>6. /\ licenses # {} => entry.licenses = licenses /\ entry.license = Sts!Min(licenses)
        /\ licenses = {} => \E c \in said : entry.licenses = c.licenses /\ entry.license = c.license
    BY <2>3, <2>4
  <2>7. Weighed(entry, said)
    BY <2>4 DEF Weighed
  <2>8. entry.sources = UNION {c.sources : c \in said} /\ entry.evidence_paths = {c.path : c \in said} \ {Absent}
    BY <2>3, <2>4
  <2>9. QED
    BY <2>1, <2>4, <2>5, <2>6, <2>7, <2>8 DEF said, licenses, EntryOf
<1>4. QED
    BY <1>1, <1>2, <1>3 DEF GroupInv

\* The first merge: the providers' own components have single licenses only, so nothing
\* stays behind in its entries, and its list is the second list of the merge to come.
LEMMA CollectKeeps ==
    ASSUME MergeInv, MergeGroups, merging = "collect"
    PROVE  MergeInv'
<1>1. /\ GroupInv /\ inventories = reports /\ list > Len(inventories)
      /\ outcome' = [identity \in DOMAIN grouped |-> MergedEntry(grouped[identity])]
      /\ merging' = "inventory" /\ inventories' = <<native, InventoryOf(outcome')>>
      /\ list' = 1 /\ position' = 1 /\ grouped' = NoGroup /\ UNCHANGED <<native, reports>>
    BY DEF MergeInv, MergeGroups, Given
<1>2. /\ native \in Seq(Detection) /\ reports \in Seq(Seq(Detection))
      /\ \A c \in Said(reports) : c.licenses = {}
    BY DEF MergeInv
<1> DEFINE Entries == outcome'
<1>3. /\ DOMAIN Entries = Identities(Said(reports)) /\ IsFiniteSet(DOMAIN Entries)
      /\ \A identity \in DOMAIN Entries :
            EntryOf(Entries[identity], identity, Of(identity, Said(reports)))
    BY <1>1, EntriesOfMerge
<1>4. Said(reports)' = Said(reports)
    BY <1>1 DEF Said
<1> HIDE DEF Entries
<1>5. Collected'
  <2>1. ASSUME NEW identity \in DOMAIN Entries
        PROVE  /\ Tells(Entries[identity], Of(identity, Said(reports)))
               /\ Licensed(Entries[identity])
               /\ Weighed(Entries[identity], Of(identity, Said(reports)))
    <3> DEFINE entry == Entries[identity]
               said == Of(identity, Said(reports))
               licenses == {c.license : c \in said} \ {Absent}
    <3>1. said \subseteq Said(reports)
        BY DEF Of
    <3>2. EntryOf(entry, identity, said)
        BY <1>3
    <3> HIDE DEF said, entry
    <3>3. /\ entry.sources = UNION {c.sources : c \in said}
          /\ entry.evidence_paths = {c.path : c \in said} \ {Absent}
          /\ licenses # {} => entry.licenses = licenses /\ entry.license = Sts!Min(licenses)
          /\ licenses = {} => \E c \in said : entry.licenses = c.licenses /\ entry.license = c.license
          /\ Weighed(entry, said)
        BY <3>2 DEF EntryOf
    <3>4. entry.licenses = licenses /\ Licensed(entry)
      <4>1. CASE licenses = {}
        <5>1. PICK c \in said : entry.licenses = c.licenses /\ entry.license = c.license
            BY <3>3, <4>1
        <5>2. c.licenses = {} /\ c.license = Absent
            BY <1>2, <3>1, <4>1
        <5>3. QED
            BY <4>1, <5>1, <5>2 DEF Licensed
      <4>2. CASE licenses # {}
        BY <3>3, <4>2 DEF Licensed
      <4>3. QED
        BY <4>1, <4>2
    <3>5. Tells(entry, said)
        BY <3>3, <3>4 DEF Tells
    <3>6. QED
        BY <3>3, <3>4, <3>5 DEF said, entry
  <2>2. (EvidenceKept(Said(reports)))'
    BY <1>1, <1>3, <1>4, <2>1 DEF EvidenceKept, Entries
  <2>3. QED
    BY <1>1, <1>4, <2>1, <2>2 DEF Collected, Entries
<1>60. \A identity \in DOMAIN Entries :
          Entries[identity] \in Detection /\ Identity(Entries[identity]) = identity /\ Named(Entries[identity])
    BY <1>3 DEF EntryOf
<1>6. /\ InventoryOf(Entries) \in Seq(Detection)
      /\ Sqs!ToSet(InventoryOf(Entries)) = {Entries[i] : i \in DOMAIN Entries}
    BY <1>3, <1>60, ListOfMerge
<1>7. inventories' \in Seq(Seq(Detection))
    BY <1>1, <1>2, <1>6 DEF Entries
<1>8. Said(inventories)' = Sqs!ToSet(native) \cup {Entries[i] : i \in DOMAIN Entries}
  <2>1. DOMAIN inventories' = {1, 2} /\ inventories'[1] = native /\ inventories'[2] = InventoryOf(Entries)
    BY <1>1 DEF Entries
  <2>2. Said(inventories)' = Sqs!ToSet(inventories'[1]) \cup Sqs!ToSet(inventories'[2])
    BY <2>1 DEF Said
  <2>3. QED
    BY <1>6, <2>1, <2>2
<1>9. GroupInv'
  <2>1. (inventories \in Seq(Seq(Detection)) /\ list = 1 /\ position = 1 /\ grouped = NoGroup)'
    BY <1>1, <1>7
  <2>2. (inventories \in Seq(Seq(Detection)) /\ list = 1 /\ position = 1 /\ grouped = NoGroup => GroupInv)'
    BY NothingGrouped, PTL
  <2>3. QED
    BY <2>1, <2>2
<1>10. \A i \in DOMAIN outcome' : Identity(outcome'[i]) = i /\ Named(outcome'[i])
    BY <1>60 DEF Entries
<1>11. QED
    BY <1>1, <1>2, <1>4, <1>5, <1>8, <1>9, <1>10 DEF MergeInv, Entries, Identity, Named

\* What is said in all: by the detectors, or by a provider.
LEMMA AllSaid ==
    ASSUME native \in Seq(Detection), reports \in Seq(Seq(Detection))
    PROVE  All = Sqs!ToSet(native) \cup Said(reports)
<1> DEFINE every == <<native>> \o reports
<1>1. /\ every \in Seq(Seq(Detection)) /\ Len(reports) \in Nat
      /\ DOMAIN every = 1 .. Len(reports) + 1 /\ DOMAIN reports = 1 .. Len(reports)
      /\ every[1] = native
      /\ \A i \in DOMAIN reports : every[i + 1] = reports[i]
    OBVIOUS
<1> HIDE DEF every
<1>2. ASSUME NEW i \in DOMAIN every
      PROVE  every[i] = native \/ \E l \in DOMAIN reports : every[i] = reports[l]
  <2>1. CASE i = 1
    BY <1>1, <2>1
  <2>2. CASE i # 1
    <3>1. i - 1 \in DOMAIN reports /\ (i - 1) + 1 = i
        BY <1>1, <1>2, <2>2
    <3>2. QED
        BY <1>1, <3>1
  <2>3. QED
    BY <2>1, <2>2
<1>3. 1 \in DOMAIN every /\ \A l \in DOMAIN reports : l + 1 \in DOMAIN every
    BY <1>1
<1>4. Said(every) = Sqs!ToSet(native) \cup Said(reports)
  <2>1. \A c \in Said(every) : c \in Sqs!ToSet(native) \/ c \in Said(reports)
    BY <1>2 DEF Said
  <2>2. \A c \in Sqs!ToSet(native) : c \in Said(every)
    BY <1>1, <1>3 DEF Said
  <2>3. \A c \in Said(reports) : c \in Said(every)
    BY <1>1, <1>3 DEF Said
  <2>4. QED
    BY <2>1, <2>2, <2>3
<1>5. QED
    BY <1>4 DEF All, every

\* The second merge: an entry of the first stands for all the components of its
\* identity, as far as names and sources go.
LEMMA ScannerKeeps ==
    ASSUME MergeInv, MergeGroups, merging = "inventory"
    PROVE  MergeInv'
<1> DEFINE A == Said(reports)
           N == Sqs!ToSet(native)
           E == {outcome[i] : i \in DOMAIN outcome}
<1>1. /\ GroupInv /\ list > Len(inventories)
      /\ outcome' = [identity \in DOMAIN grouped |-> MergedEntry(grouped[identity])]
      /\ merging' = "over" /\ UNCHANGED <<native, reports>>
    BY DEF MergeInv, MergeGroups
<1>2. /\ native \in Seq(Detection) /\ reports \in Seq(Seq(Detection))
      /\ \A c \in A : c.licenses = {}
      /\ Collected /\ Said(inventories) = N \cup E
      /\ \A i \in DOMAIN outcome : Identity(outcome[i]) = i /\ Named(outcome[i])
    BY DEF MergeInv
<1>3. /\ DOMAIN outcome' = Identities(N \cup E)
      /\ \A identity \in DOMAIN outcome' :
            outcome'[identity].sources = UNION {c.sources : c \in Of(identity, N \cup E)}
    BY <1>1, <1>2, EntriesOfMerge DEF EntryOf
<1>4. /\ DOMAIN outcome = Identities(A)
      /\ \A i \in DOMAIN outcome : outcome[i].sources = UNION {c.sources : c \in Of(i, A)}
    BY <1>2 DEF Collected, EvidenceKept, Tells
<1>5. All = N \cup A /\ All' = All
    BY <1>1, <1>2, AllSaid DEF All
<1> HIDE DEF A, N
<1>6. Identities(N \cup E) = Identities(N \cup A)
  <2>1. \A x : x \in Identities(N \cup E) <=> x \in Identities(N) \/ x \in Identities(E)
    BY DEF Identities
  <2>2. \A x : x \in Identities(N \cup A) <=> x \in Identities(N) \/ x \in Identities(A)
    BY DEF Identities
  <2>3. \A x : x \in Identities(E) <=> x \in DOMAIN outcome
    BY <1>2 DEF Identities
  <2> HIDE DEF E
  <2>4. QED
    BY <1>4, <2>1, <2>2, <2>3
<1>7. ASSUME NEW identity \in Identities(N \cup A)
      PROVE  UNION {c.sources : c \in Of(identity, N \cup E)} = UNION {c.sources : c \in Of(identity, N \cup A)}
  <2>1. ASSUME NEW c \in Of(identity, E)
        PROVE  c.sources = UNION {d.sources : d \in Of(identity, A)}
    <3>1. PICK i \in DOMAIN outcome : c = outcome[i]
        BY <2>1 DEF Of
    <3>2. i = identity
        BY <1>2, <2>1, <3>1 DEF Of
    <3>3. QED
        BY <1>4, <3>1, <3>2
  <2>2. ASSUME NEW c \in Of(identity, A)
        PROVE  identity \in DOMAIN outcome /\ outcome[identity] \in Of(identity, E)
    <3>1. PICK d \in N \cup A : Named(d) /\ Identity(d) = identity
        BY <1>7 DEF Identities
    <3>2. c \in A /\ Identity(c) = identity
        BY <2>2 DEF Of
    <3>3. Named(c)
        BY <3>1, <3>2 DEF Named, Identity
    <3>4. identity \in DOMAIN outcome
        BY <1>4, <3>2, <3>3 DEF Identities
    <3>5. QED
        BY <1>2, <3>4 DEF Of
  <2> HIDE DEF E
  <2>3. /\ \A c : c \in Of(identity, N \cup E) <=> c \in Of(identity, N) \/ c \in Of(identity, E)
        /\ \A c : c \in Of(identity, N \cup A) <=> c \in Of(identity, N) \/ c \in Of(identity, A)
    BY DEF Of
  <2>4. \A p \in UNION {c.sources : c \in Of(identity, N \cup E)} :
           p \in UNION {c.sources : c \in Of(identity, N \cup A)}
    BY <2>1, <2>3
  <2>5. ASSUME NEW c \in Of(identity, N \cup A), NEW p \in c.sources
        PROVE  \E e \in Of(identity, N \cup E) : p \in e.sources
    <3>1. CASE c \in Of(identity, N)
        BY <2>3, <2>5, <3>1
    <3>2. CASE c \in Of(identity, A)
      <4>1. outcome[identity] \in Of(identity, E)
        BY <2>2, <3>2
      <4>2. p \in outcome[identity].sources
        BY <2>1, <2>5, <3>2, <4>1
      <4>3. QED
        BY <2>3, <4>1, <4>2
    <3>3. QED
        BY <2>3, <2>5, <3>1, <3>2
  <2> DEFINE before == {c.sources : c \in Of(identity, N \cup E)}
             after == {c.sources : c \in Of(identity, N \cup A)}
  <2>6. \A p \in UNION after : p \in UNION before
    BY <2>5
  <2>7. \A p \in UNION before : p \in UNION after
    BY <2>4
  <2> HIDE DEF before, after
  <2>8. UNION before = UNION after
    BY <2>6, <2>7
  <2>9. QED
    BY <2>8 DEF before, after
<1>8. SourcesReported'
  <2>1. DOMAIN outcome' = Identities(N \cup A)
    BY <1>3, <1>6
  <2>2. \A identity \in DOMAIN outcome' :
           outcome'[identity].sources = UNION {c.sources : c \in Of(identity, N \cup A)}
    BY <1>3, <1>7, <2>1
  <2>3. QED
    BY <1>5, <2>1, <2>2 DEF SourcesReported
<1>9. Said(reports)' = Said(reports)
    BY <1>1 DEF Said
<1>10. QED
    BY <1>1, <1>2, <1>8, <1>9 DEF MergeInv, A

\* The merges are over, and nothing changes.
LEMMA MergeStutters ==
    ASSUME MergeInv, UNCHANGED evidenceVars
    PROVE  MergeInv'
<1>1. UNCHANGED <<native, reports, merging, inventories, list, position, grouped, outcome>>
    BY DEF evidenceVars
<1>2. Said(reports)' = Said(reports) /\ Said(inventories)' = Said(inventories) /\ All' = All
    BY <1>1 DEF Said, All
<1>3. /\ Collected' <=> Collected
      /\ SourcesReported' <=> SourcesReported
    BY <1>1, <1>2 DEF Collected, EvidenceKept, SourcesReported
<1>4. GroupInv' <=> GroupInv
    BY <1>1, <1>2 DEF GroupInv, Before
<1>5. QED
    BY <1>1, <1>2, <1>3, <1>4 DEF MergeInv

\* The invariant of both merges.
LEMMA MergeInvariant == EvidenceSpec => []MergeInv
<1>1. ASSUME MergeInv, [EvidenceNext]_evidenceVars
      PROVE  MergeInv'
  <2>1. CASE GroupComponent \/ NextInventory
    BY <1>1, <2>1, GroupingKeeps
  <2>2. CASE MergeGroups
    <3>1. merging \in {"collect", "inventory"}
        BY <2>2 DEF MergeGroups
    <3>2. QED
        BY <1>1, <2>2, <3>1, CollectKeeps, ScannerKeeps
  <2>3. CASE Inventoried \/ UNCHANGED evidenceVars
    BY <1>1, <2>3, MergeStutters DEF Inventoried
  <2>4. QED
    BY <1>1, <2>1, <2>2, <2>3 DEF EvidenceNext
<1>2. QED
    BY <1>1, MergeStarts, PTL DEF EvidenceSpec

\* The merges of evidence.  Whatever the providers report, and in whatever order, an
\* entry of collect_inventory says of its component what any of them has said, and
\* nothing else, and its license and its confidence depend on that alone.  The
\* inventory a scan ends with, after the second merge, has every component any detector
\* or provider has named, once, under the names of all that have.
THEOREM EvidenceOfAll == EvidenceSpec => []EvidenceMerged
<1>1. MergeInv => EvidenceMerged
    BY DEF MergeInv, EvidenceMerged, Collected, SourcesReported
<1>2. QED
    BY <1>1, MergeInvariant, PTL
=============================================================================
