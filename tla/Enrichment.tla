----------------------------- MODULE Enrichment -----------------------------
(***************************************************************************)
(* What the Markdown report of `scan` is made of (cli.py): vulnerable      *)
(* components are matched, EPSS scores (eps.py) and KEV marks (kev.py) are *)
(* fetched and joined back to them, they are ranked by PRisk (scoring.py), *)
(* and the first of them are given to a language model (analyzer.py).      *)
(* Module ScanCommand has the command around it.                           *)
(*                                                                         *)
(* Scores and risk factors are integers: tenths of CVSS's and EPSS's range.*)
(***************************************************************************)
EXTENDS Integers, Sequences

SX == INSTANCE SequencesExt

CONSTANTS
    Cve,            \* CVE ids, stripped and in upper case
    Length,         \* [Cve -> characters of the id]
    MaxChars,       \* _MAX_CVE_QUERY_CHARS
    Matched,        \* the lists of matches match_components may return
    Published,      \* [Cve -> EPSS score FIRST has, or NoScore]
    NoScore,
    Catalog,        \* the CVEs in the catalog of CISA
    TopN            \* --top-n

Tenths == 0 .. 10
Record == [cve : Cve, cvss : Tenths, epss : Tenths, kev : BOOLEAN]
ComponentMatch == [name : Nat, exposure : Tenths, cves : Seq(Record)]

ASSUME EnrichmentAssumption ==
    /\ Length \in [Cve -> Nat \ {0}]
    /\ MaxChars \in Nat
    /\ Matched \subseteq Seq(ComponentMatch)
    /\ \A ms \in Matched : \A i \in DOMAIN ms : ms[i].cves # <<>>
    /\ NoScore \notin Tenths
    /\ Published \in [Cve -> Tenths \cup {NoScore}]
    /\ Catalog \subseteq Cve
    /\ TopN \in Nat

VARIABLES
    useEpss, useKev,    \* --use-epss, --use-kev
    matches,            \* the ComponentMatch list of the scan
    pc,
    chunks,             \* what epss_scores has to ask for: a list of lists of CVEs
    chunk,              \* index of the chunk it is at
    scores,             \* its dictionary of scores
    narratives,         \* components the language model has answered for
    first,              \* history variable: the matches the scan started from
    failed              \* history variable: the chunks whose request failed

enrichmentVars ==
    <<useEpss, useKev, matches, pc, chunks, chunk, scores, narratives, first, failed>>

-----------------------------------------------------------------------------
(* The batches of an EPSS lookup.                                           *)

\* All records of the list, component after component.
Records(ms) ==
    LET upTo[i \in 0 .. Len(ms)] == IF i = 0 THEN <<>> ELSE upTo[i - 1] \o ms[i].cves
    IN upTo[Len(ms)]

\* dict.fromkeys keeps the first occurrence of each id.
Noticed(seen, cve) == IF cve \in SX!ToSet(seen) THEN seen ELSE Append(seen, cve)

Normalized(cves) ==
    LET seen[n \in 0 .. Len(cves)] == IF n = 0 THEN <<>> ELSE Noticed(seen[n - 1], cves[n])
    IN seen[Len(cves)]

Cves(ms) ==
    LET records == Records(ms)
    IN Normalized([i \in DOMAIN records |-> records[i].cve])

\* Length of the comma-separated parameter.
QueryLength(cves) ==
    LET length[n \in 0 .. Len(cves)] == IF n = 0 THEN -1 ELSE length[n - 1] + Length[cves[n]] + 1
    IN length[Len(cves)]

Extend(built, cve) ==
    IF built.current # <<>> /\ QueryLength(Append(built.current, cve)) > MaxChars
    THEN [chunks |-> Append(built.chunks, built.current), current |-> <<cve>>]
    ELSE [built EXCEPT !.current = Append(@, cve)]

QueryChunks(cves) ==
    LET built[n \in 0 .. Len(cves)] ==
            IF n = 0 THEN [chunks |-> <<>>, current |-> <<>>] ELSE Extend(built[n - 1], cves[n])
        last == built[Len(cves)]
    IN IF last.current = <<>> THEN last.chunks ELSE Append(last.chunks, last.current)

-----------------------------------------------------------------------------
(* _reenrich: what an enricher returns for the records of all matches is   *)
(* joined back to them by CVE, and the last one of a CVE stays in the dict. *)

\* Where the records of the matches are, and what becomes of them.
Places(ms) == UNION {{i} \X DOMAIN ms[i].cves : i \in DOMAIN ms}
RecordAt(ms, place) == ms[place[1]].cves[place[2]]
RecordsOf(ms) == {RecordAt(ms, place) : place \in Places(ms)}

Later(p, q) == p[1] > q[1] \/ (p[1] = q[1] /\ p[2] > q[2])

LastOf(ms, cve) ==
    RecordAt(ms, CHOOSE p \in Places(ms) :
        /\ RecordAt(ms, p).cve = cve
        /\ \A q \in Places(ms) : RecordAt(ms, q).cve = cve => ~Later(q, p))

\* Mutant of Reenriched: joined by the position in a match, not by CVE.
JoinedByPosition(ms, enriched) ==
    [i \in DOMAIN ms |->
        [ms[i] EXCEPT !.cves = [k \in DOMAIN @ |->
            enriched[ms[CHOOSE m \in DOMAIN ms :
                            /\ k \in DOMAIN ms[m].cves
                            /\ \A n \in DOMAIN ms : k \in DOMAIN ms[n].cves => n <= m].cves[k]]]]]

Reenriched(ms, enriched) ==
    [i \in DOMAIN ms |->
        [ms[i] EXCEPT !.cves = [k \in DOMAIN @ |-> enriched[LastOf(ms, @[k].cve)]]]]

WithEpss(record) ==
    [record EXCEPT !.epss = IF record.cve \in DOMAIN scores THEN scores[record.cve] ELSE 0]

WithKev(record, catalog) == [record EXCEPT !.kev = record.cve \in catalog]

-----------------------------------------------------------------------------
(* PRisk, in thousandths, and the order of the report.                      *)

MaxCvss(match) == SX!Max({match.cves[k].cvss : k \in DOMAIN match.cves} \cup {0})
MaxEpss(match) == SX!Max({match.cves[k].epss : k \in DOMAIN match.cves} \cup {0})
HasKev(match) == \E k \in DOMAIN match.cves : match.cves[k].kev

\* Mutant of PRisk: the exploited ones are not told apart.
PRiskWithoutKev(match) ==
    25 * MaxCvss(match) + 25 * MaxEpss(match) + 15 * match.exposure

\* The KEV and the exploit term together; a component says nothing else of exploits.
PRisk(match) ==
    25 * MaxCvss(match) + 25 * MaxEpss(match) + 15 * match.exposure
        + IF HasKev(match) THEN 350 ELSE 0

Above(m, n) ==
    \/ PRisk(m) > PRisk(n)
    \/ PRisk(m) = PRisk(n) /\ MaxCvss(m) > MaxCvss(n)
    \/ PRisk(m) = PRisk(n) /\ MaxCvss(m) = MaxCvss(n) /\ m.name > n.name

\* sorted(reverse=True) keeps the order of equals.
Precedes(ms, i, j) == Above(ms[i], ms[j]) \/ (~Above(ms[j], ms[i]) /\ i < j)

IsRanking(ms, order) ==
    /\ order \in [DOMAIN ms -> DOMAIN ms]
    /\ \A i, j \in DOMAIN ms : i < j => Precedes(ms, order[i], order[j])

Ranked(ms) ==
    LET order == CHOOSE order \in [DOMAIN ms -> DOMAIN ms] : IsRanking(ms, order)
    IN [i \in DOMAIN ms |-> ms[order[i]]]

-----------------------------------------------------------------------------

EnrichmentInit ==
    /\ useEpss = FALSE /\ useKev = FALSE
    /\ matches = <<>> /\ chunks = <<>>
    /\ pc = "match" /\ chunk = 1 /\ scores = [cve \in {} |-> 0]
    /\ narratives = <<>>
    /\ first = <<>> /\ failed = {}

\* match_components has answered; the options are looked at for the first time.
MatchComponents ==
    /\ pc = "match"
    /\ useEpss' \in BOOLEAN /\ useKev' \in BOOLEAN
    /\ matches' \in Matched
    /\ first' = matches'
    /\ chunks' = IF useEpss' THEN QueryChunks(Cves(matches')) ELSE <<>>
    /\ pc' = "epss"
    /\ UNCHANGED <<chunk, scores, narratives, failed>>

MoreChunks == chunk <= Len(chunks)

\* The scores FIRST has for the CVEs of the chunk, possibly not all of them.
ChunkAnswered ==
    /\ pc = "epss" /\ MoreChunks
    /\ LET known == {cve \in SX!ToSet(chunks[chunk]) : Published[cve] # NoScore}
       IN scores' = [cve \in known \cup DOMAIN scores |->
                        IF cve \in known THEN Published[cve] ELSE scores[cve]]
    /\ chunk' = chunk + 1
    /\ UNCHANGED <<useEpss, useKev, matches, pc, chunks, narratives, first, failed>>

\* Mutant of NextChunk: the rest is given up.
GiveUpChunks == chunk' = Len(chunks) + 1
NextChunk == chunk' = chunk + 1

\* HTTPError, TypeError or ValueError: the chunk is left out.
ChunkFails ==
    /\ pc = "epss" /\ MoreChunks
    /\ failed' = failed \cup {chunk}
    /\ NextChunk
    /\ UNCHANGED <<useEpss, useKev, matches, pc, chunks, scores, narratives, first>>

\* The join, if there is anything to enrich.
EnrichWithEpss ==
    /\ pc = "epss"
    /\ ~MoreChunks
    /\ matches' = IF useEpss
                  THEN Reenriched(matches, [r \in RecordsOf(matches) |-> WithEpss(r)])
                  ELSE matches
    /\ pc' = "kev"
    /\ UNCHANGED <<useEpss, useKev, chunks, chunk, scores, narratives, first, failed>>

\* One download of the catalog; a failure is an empty one.
EnrichWithKev ==
    /\ pc = "kev"
    /\ \/ ~useKev /\ UNCHANGED matches
       \/ /\ useKev
          /\ \E catalog \in {Catalog, {}} :
                matches' = Reenriched(matches,
                                      [r \in RecordsOf(matches) |-> WithKev(r, catalog)])
    /\ pc' = "rank"
    /\ UNCHANGED <<useEpss, useKev, chunks, chunk, scores, narratives, first, failed>>

Rank ==
    /\ pc = "rank"
    /\ matches' = Ranked(matches)
    /\ pc' = "narrate"
    /\ UNCHANGED <<useEpss, useKev, chunks, chunk, scores, narratives, first, failed>>

MoreNarratives == Len(narratives) < TopN /\ Len(narratives) < Len(matches)

\* LLMRouter.from_env and enrich_top_components: a router that cannot be set up, a
\* failing call, or an answer that is not JSON, ends the scan without a report.
Narrate ==
    /\ pc = "narrate"
    /\ \/ /\ MoreNarratives
          /\ narratives' = Append(narratives, matches[Len(narratives) + 1])
          /\ UNCHANGED pc
       \/ pc' = "raised" /\ UNCHANGED narratives
       \/ ~MoreNarratives /\ pc' = "reported" /\ UNCHANGED narratives
    /\ UNCHANGED <<useEpss, useKev, matches, chunks, chunk, scores, first, failed>>

EnrichmentStep ==
    ChunkAnswered \/ ChunkFails \/ EnrichWithEpss \/ EnrichWithKev \/ Rank \/ Narrate

-----------------------------------------------------------------------------

\* Where the CVEs stand that FIRST is asked for.
Queried == UNION {{c} \X DOMAIN chunks[c] : c \in DOMAIN chunks}

\* What FIRST can be expected to have said of a CVE.
ScoreOf(cve) ==
    IF Published[cve] = NoScore \/ \E c \in failed : cve \in SX!ToSet(chunks[c])
    THEN 0 ELSE Published[cve]

\* A record ends with the score of its own CVE, whichever component it stands
\* under: a failed chunk costs its own CVEs their score and no others ("failed or
\* missing entries are omitted", epss_scores); and every CVE is asked for once, and
\* no other, in queries that are no longer than allowed unless a single id is.
EpssOfItsCve ==
    useEpss =>
        /\ {chunks[q[1]][q[2]] : q \in Queried} = {record.cve : record \in RecordsOf(first)}
        /\ \A p, q \in Queried : chunks[p[1]][p[2]] = chunks[q[1]][q[2]] => p = q
        /\ \A c \in DOMAIN chunks : Len(chunks[c]) > 1 => QueryLength(chunks[c]) <= MaxChars
        /\ pc # "epss" => \A record \in RecordsOf(matches) : record.epss = ScoreOf(record.cve)

\* What a match says that enrichment may not touch.
Plain(match) ==
    [name |-> match.name, exposure |-> match.exposure,
     cves |-> [k \in DOMAIN match.cves |-> match.cves[k].cve]]

\* Enrichment neither loses, adds nor moves a component or a CVE, and the report
\* has those the scan started with, in another order ("preserving order").
InventoryKept ==
    /\ pc \in {"epss", "kev", "rank"} =>
          [i \in DOMAIN matches |-> Plain(matches[i])] = [i \in DOMAIN first |-> Plain(first[i])]
    /\ \E order \in [DOMAIN matches -> DOMAIN first] :
          /\ \A i, j \in DOMAIN matches : order[i] = order[j] => i = j
          /\ \A i \in DOMAIN first : \E j \in DOMAIN matches : order[j] = i
          /\ \A i \in DOMAIN matches : Plain(matches[i]) = Plain(first[order[i]])

\* A component that is at least as bad as another one in every factor, and worse
\* in one, is reported above it, and the language model is asked in that order.
WorseFirst ==
    /\ \A i \in DOMAIN narratives : narratives[i] = matches[i]
    /\ pc \in {"narrate", "reported", "raised"} =>
        \A i, j \in DOMAIN matches :
            LET m == matches[i]
                n == matches[j]
            IN /\ MaxCvss(m) >= MaxCvss(n) /\ MaxEpss(m) >= MaxEpss(n)
               /\ m.exposure >= n.exposure /\ (HasKev(n) => HasKev(m))
               /\ \/ MaxCvss(m) > MaxCvss(n) \/ MaxEpss(m) > MaxEpss(n)
                  \/ m.exposure > n.exposure \/ (HasKev(m) /\ ~HasKev(n))
               => i < j
=============================================================================
