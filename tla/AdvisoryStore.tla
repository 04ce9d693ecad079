--------------------------- MODULE AdvisoryStore ---------------------------
(***************************************************************************)
(* What the offline cache promises, apart from how it keeps its file.      *)
(*                                                                         *)
(* An authority says advisories, one row for a CVE and a criteria, and     *)
(* takes none of them back.  The store learns any of them at any time, and *)
(* forgets no key it has learnt.  A client that asks is told nothing, or   *)
(* exactly the CVEs of the rows that answer its question at one moment,    *)
(* each with the score of one of these rows.                               *)
(***************************************************************************)

CONSTANTS
    Client,
    Question,
    Answers(_, _, _)    \* the row of a key answers a question

VARIABLES
    said,       \* pairs of a key <<cve, criteria>> and a row, said up to now
    held,       \* [key -> row], what the store has
    question, told  \* of each client: [cve -> score]

store == <<said, held, question, told>>

NothingTold == [cve \in {} |-> 0]

Init ==
    /\ \A key \in DOMAIN held : FALSE
    /\ told = [client \in Client |-> NothingTold]
    /\ question \in [Client -> Question]

Say ==
    /\ said \subseteq said'
    /\ UNCHANGED <<held, question, told>>

\* Rows are added or replaced, by what has been said of their key.
Learn ==
    /\ DOMAIN held \subseteq DOMAIN held'
    /\ \A key \in DOMAIN held' :
          \/ key \in DOMAIN held /\ held'[key] = held[key]
          \/ <<key, held'[key]>> \in said
    /\ UNCHANGED <<said, question, told>>

\* A client asks something else, or is told that there is no answer.
Ask(client) ==
    /\ \E asked \in Question : question' = [question EXCEPT ![client] = asked]
    /\ told' = [told EXCEPT ![client] = NothingTold]
    /\ UNCHANGED <<said, held>>

Answering(asked) == {key \in DOMAIN held : Answers(asked, key, held[key])}

Tell(client) ==
    /\ told' = [told EXCEPT ![client] = told'[client]]
    /\ DOMAIN told'[client] = {key[1] : key \in Answering(question[client])}
    /\ \A cve \in DOMAIN told'[client] :
          \E key \in Answering(question[client]) :
              key[1] = cve /\ told'[client][cve] = held[key].score
    /\ UNCHANGED <<said, held, question>>

Next == Say \/ Learn \/ \E client \in Client : Ask(client) \/ Tell(client)

Spec == Init /\ [][Next]_store
=============================================================================
