------------------------------- MODULE Algorithms -------------------------------
(***************************************************************************)
(* The algorithms side by side, and what is right of each of their         *)
(* answers.  A question has a topic, what is given, and what is asked      *)
(* about it; the search for routes has a state of its own.                 *)
(***************************************************************************)
EXTENDS Matcher, RowReading, Statements, Gates, Routing

VARIABLES
    topic,  \* what the question is about
    given,  \* the rows, the beginning of a text, the mode of authentication ...
    asked   \* <<>> before the question, then <<question>>

asking == <<topic, given, asked>>

About(t) == asked # <<>> /\ topic = t

Question == asked[1]

\* The matcher's candidates, whichever table is the source: no pair outside the limit is
\* compared, blocking loses no namesake, those kept for a row are its best ones, in order, and
\* the report of a run has those of all rows (Matcher's KeepsCandidates and RunRight).
CandidatesRight ==
    About("match") =>
        \A tables \in {<<Question.source, Question.target>>, <<Question.target, Question.source>>} :
            /\ KeepsCandidates(tables[1], tables[2], Question.opts)
            /\ RunRight(tables[1], tables[2], Question.columns, Question.opts, Question.maxRows)

\* Windows, pages and copies: the three window readers agree and who goes on sees every
\* row once, pages show all rows of their owner, a migration adds exactly the rows it
\* reports (RowReading's properties).
RowsRight ==
    /\ About("windows") => WindowsRight(given, Question[1], Question[2])
    /\ About("pages") => PagesRight(given, Question[1], Question[2], Question[3])
    /\ About("migration") => MigrationRight(given[1], given[2], Question[1], Question[2])

\* Statements: the two scanners agree on where code is, and what is classified as a read
\* executes nothing that writes (Statements' properties).
StatementsRight ==
    /\ About("text") => ScannersAgree(given \o Question)
    /\ About("tokens") => ReadsOnlyRead(given \o Question)

\* Gates: all ways to write apply the same rule (Gates' SameRule).
GatesRight == About("gates") => SameRule(Question)
=============================================================================
