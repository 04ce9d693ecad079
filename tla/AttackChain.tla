---------------------------- MODULE AttackChain ----------------------------
(***************************************************************************)
(* reconstruct_attack_chain of attack_chain.py: a mission of three agents  *)
(* over the findings of a scan becomes one finding.  The orchestrator is   *)
(* not in the repository: it returns some results, or raises.              *)
(*                                                                         *)
(* A text is the sequence of its words, in lower case and one space apart; *)
(* <<>> is blank.  What an agent says may be anything, an error as well:   *)
(* half a phrase of _root_shell_signal, say, which the next agent's words  *)
(* complete.  A finding's confidence is in hundredths, the chain's in      *)
(* ten-thousandths.                                                        *)
(***************************************************************************)
EXTENDS Integers, Sequences, FiniteSets

Sets == INSTANCE FiniteSetsExt

CONSTANTS
    SourceFindings, \* the lists of findings it may be called with
    OtherWords,     \* those of a text that are not of a phrase below
    Sayings,        \* the texts of outputs and errors
    NoError,
    Missions        \* what the orchestrator may return

TextWord == {"our words", "no", "root", "shell", "access", "is", "not", "cannot", "reach", "achievable",
             "uid=0", "privilege", "escalation", "to"} \cup OtherWords

Role == {"scout", "exploiter", "reviewer"}

SourceFinding == [id : Nat, confidence : 0 .. 100]

\* An AgentResult; the text of its error, unless there is none.
AgentResult ==
    [role : Role, output : Sayings, findings : Seq(Nat), error : Sayings \cup {NoError}]

\* Three roles are asked for.
ASSUME ChainAssumption ==
    /\ SourceFindings \subseteq Seq(SourceFinding)
    /\ Sayings \subseteq Seq(TextWord) /\ <<>> \in Sayings /\ NoError \notin Sayings
    /\ Missions \subseteq {results \in Seq(AgentResult) : Len(results) <= 3}

VARIABLES
    mission,        \* "asked", "relating", "reconstructed" or "raised"
    sources, results,
    group, member,  \* the finding whose id is related next
    related,        \* the ids so far: dict.fromkeys
    chain           \* the finding, in the end

chainVars == <<mission, sources, results, group, member, related, chain>>

NoChain == [severity |-> "none"]

-----------------------------------------------------------------------------

ResultOf(given, role) == given[Sets!Min({i \in DOMAIN given : given[i].role = role})]

\* A sentence of ours, no word of which is one of a phrase below.
OurWords == <<"our words">>

\* The first result of the role; the text of an error, unless it is empty, stands
\* for its output, and a sentence of ours for a missing result or a blank output.
RoleText(given, role) ==
    LET result == ResultOf(given, role)
        said == IF result.error \in {NoError, <<>>} THEN result.output ELSE OurWords \o result.error
    IN IF (\A i \in DOMAIN given : given[i].role # role) \/ said = <<>> THEN OurWords ELSE said

Denials == {<<"no", "root", "shell">>, <<"root", "shell", "is", "not">>, <<"root", "access", "is", "not">>,
            <<"cannot", "reach", "root">>, <<"not", "achievable">>}
RootClaims == {<<"root", "shell">>, <<"uid=0">>, <<"root", "access">>, <<"privilege", "escalation", "to", "root">>}

Says(text, phrase) ==
    \E start \in 0 .. Len(text) - Len(phrase) :
        \A i \in DOMAIN phrase : text[start + i] = phrase[i]
Denied(text) == \E phrase \in Denials : Says(text, phrase)
Claimed(text) == \E phrase \in RootClaims : Says(text, phrase)

\* Mutant of RootShellSignal: each of the texts is searched by itself.
EachByItself(attack, consequences) ==
    \E text \in {attack, consequences} : Claimed(text) /\ ~Denied(text)

\* The texts are searched as one, over the seam between them too.
RootShellSignal(attack, consequences) ==
    LET combined == attack \o consequences
    IN Claimed(combined) /\ ~Denied(combined)

Successful(given) == Cardinality({i \in DOMAIN given : given[i].error = NoError})

ChainConfidence(findings, given) ==
    LET evidence == Sets!Max({findings[i].confidence : i \in DOMAIN findings})
    IN Sets!Min({9500, evidence * (70 + 10 * Successful(given))})

Reconstructed(findings, given, ids) ==
    LET possible == RootShellSignal(RoleText(given, "exploiter"), RoleText(given, "reviewer"))
    IN [root_shell_possible |-> possible,
        severity |-> IF possible THEN "critical" ELSE "high",
        confidence |-> ChainConfidence(findings, given),
        related |-> ids,
        agent_errors |-> {given[i].role : i \in {i \in DOMAIN given : given[i].error # NoError}}]

\* The ids that are listed: those of the findings, then those of each agent.
Listings == <<[i \in DOMAIN sources |-> sources[i].id]>> \o [i \in DOMAIN results |-> results[i].findings]

-----------------------------------------------------------------------------

NothingRelated ==
    /\ mission = "asked" /\ results = <<>>
    /\ group = 1 /\ member = 1 /\ related = <<>> /\ chain = NoChain

ChainInit == sources \in SourceFindings /\ NothingRelated

\* ValueError without findings; or what the orchestrator raises.
MissionFails ==
    /\ mission = "asked" /\ mission' = "raised"
    /\ UNCHANGED <<sources, results, group, member, related, chain>>

RunMission ==
    /\ mission = "asked" /\ sources # <<>>
    /\ results' \in Missions /\ mission' = "relating"
    /\ UNCHANGED <<sources, group, member, related, chain>>

RelateFinding ==
    /\ mission = "relating" /\ group <= Len(Listings) /\ member <= Len(Listings[group])
    /\ LET id == Listings[group][member]
       IN related' = IF \E i \in DOMAIN related : related[i] = id THEN related ELSE Append(related, id)
    /\ member' = member + 1
    /\ UNCHANGED <<mission, sources, results, group, chain>>

NextListing ==
    /\ mission = "relating" /\ group <= Len(Listings) /\ member > Len(Listings[group])
    /\ group' = group + 1 /\ member' = 1
    /\ UNCHANGED <<mission, sources, results, related, chain>>

Reconstruct ==
    /\ mission = "relating" /\ group > Len(Listings)
    /\ chain' = Reconstructed(sources, results, related) /\ mission' = "reconstructed"
    /\ UNCHANGED <<sources, results, group, member, related>>

MissionOver == mission \in {"raised", "reconstructed"} /\ UNCHANGED chainVars

ChainNext ==
    \/ MissionFails \/ RunMission \/ RelateFinding \/ NextListing \/ Reconstruct
    \/ MissionOver

ChainSpec == ChainInit /\ [][ChainNext]_chainVars

-----------------------------------------------------------------------------

\* The agents of a role have failed, and this is the text of their error.
WithFailure(role, said) ==
    [i \in DOMAIN results |->
        IF results[i].role = role
        THEN [results[i] EXCEPT !.output = <<>>, !.findings = <<>>, !.error = said]
        ELSE results[i]]

\* The two texts that are searched.
Attack == RoleText(results, "exploiter")
Consequences == RoleText(results, "reviewer")

\* One agent's denial outweighs whatever the other one says, and one agent's claim
\* is enough where none is denied, their words put together included.
DenialStands ==
    \A text \in {Attack, Consequences} :
        /\ Denied(text) => ~chain.root_shell_possible
        /\ Claimed(text) /\ ~Denied(Attack \o Consequences) => chain.root_shell_possible

\* A mission that was less of a success claims less.  Had an agent failed instead,
\* with whatever error, the confidence would be lower; and where root is possible
\* only then, the other one of the two does not deny it, and either what this one
\* said has been part of a denial, or the other one does not claim it: the error does.
FailureWeakens ==
    \A i \in DOMAIN results, said \in Sayings :
        LET role == results[i].role
            shorn == Reconstructed(sources, WithFailure(role, said), related)
            other == IF role = "exploiter" THEN Consequences ELSE Attack
        IN /\ results[i].error = NoError /\ chain.confidence > 0 => shorn.confidence < chain.confidence
           /\ shorn.root_shell_possible /\ ~chain.root_shell_possible =>
                 /\ role # "scout" /\ ~Denied(other)
                 /\ Denied(Attack \o Consequences) \/ ~Claimed(other)

\* The ids of the findings it came from are related first, then others, each once.
RelatesSources ==
    LET own == {sources[i].id : i \in DOMAIN sources}
    IN /\ own \subseteq {chain.related[i] : i \in DOMAIN chain.related}
       /\ \A i, j \in DOMAIN chain.related :
             i < j => /\ chain.related[i] # chain.related[j]
                      /\ chain.related[j] \in own => chain.related[i] \in own

\* The root-shell claim, which makes a chain critical, is never made over a denial
\* of the exploiter or of the reviewer, and a claim that nothing denies is heard; an
\* agent that fails, whatever its error says, lowers the confidence, and makes root
\* possible only by taking a denial away or by an error that reads like a claim; the
\* chain names the findings it came from first, each once.
ChainOnEvidence ==
    mission = "reconstructed" =>
        /\ chain.severity = "critical" <=> chain.root_shell_possible
        /\ DenialStands
        /\ FailureWeakens
        /\ RelatesSources
=============================================================================
