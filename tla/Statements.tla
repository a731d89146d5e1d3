------------------------------ MODULE Statements ------------------------------
(***************************************************************************)
(* The classifier of SQL statements, which decides what the editor, the    *)
(* exports and maintenance mode take for a read.                           *)
(*                                                                         *)
(* A text is a sequence of characters and is read by two scanners that do  *)
(* not share code: one cuts it into tokens, one looks for a separator.     *)
(* The verbs are classified on the tokens.                                 *)
(*                                                                         *)
(* Definitions whose name says what they leave out are mutations of the    *)
(* definition that follows them; the model does not use them.              *)
(***************************************************************************)
EXTENDS Naturals, Sequences, FiniteSets

\* The first of some positions of q, or one past the end.
First(q, at) == IF at = {} THEN Len(q) + 1 ELSE CHOOSE j \in at : \A k \in at : j <= k

Is(q, i, c) == i \in DOMAIN q /\ q[i] = c

Pair(q, i, c, d) == Is(q, i, c) /\ Is(q, i + 1, d)

Word == {"E", "x"}
Space == {" ", "nl"}

----------------------------------------------------------------------------
(* Where a literal or a comment ends *)

\* isEPrefixedString: the quote at i follows an E that is no part of a longer word.
EscapesAt(q, i) == Is(q, i - 1, "E") /\ ~(i > 2 /\ q[i - 2] \in Word)

AfterLiteralUnescaped(q, i, escapes) ==
    LET after[j \in (i + 1)..(Len(q) + 2)] ==
            IF j > Len(q) THEN j
            ELSE IF q[j] # q[i] THEN after[j + 1]
            ELSE IF Is(q, j + 1, q[i]) THEN after[j + 2] ELSE j + 1
    IN  after[i + 1]

\* The position after a literal that opens at i: a doubled quote stays inside, and with
\* escapes so does whatever follows a backslash.
AfterLiteral(q, i, escapes) ==
    LET after[j \in (i + 1)..(Len(q) + 2)] ==
            IF j > Len(q) THEN j
            ELSE IF escapes /\ q[j] = "\\" THEN after[j + 2]
            ELSE IF q[j] # q[i] THEN after[j + 1]
            ELSE IF Is(q, j + 1, q[i]) THEN after[j + 2] ELSE j + 1
    IN  after[i + 1]

\* The position at which sqlTokens goes on after a comment; one that is not closed
\* ends before the last character.
AfterComment(q, i) ==
    IF q[i] = "-" THEN First(q, {j \in (i + 2)..Len(q) : q[j] = "nl"})
    ELSE LET end == First(q, {j \in (i + 2)..Len(q) : Pair(q, j, "*", "/")})
         IN  IF end <= Len(q) THEN end + 2
             ELSE IF i + 2 > Len(q) THEN i + 2 ELSE Len(q)

OpensComment(q, i) == Pair(q, i, "-", "-") \/ Pair(q, i, "/", "*")

----------------------------------------------------------------------------
(* The scanners *)

\* The parentheses around a whole text are trimmed before it is read.
Leading(q, i) == \A j \in 1..i : q[j] = "("

\* sqlTokens: the positions at which its tokens begin.
TokensAt(q) ==
    LET from[i \in 1..(Len(q) + 2)] ==
            IF i > Len(q) THEN {}
            ELSE IF OpensComment(q, i) THEN from[AfterComment(q, i)]
            ELSE IF q[i] \in {"'", "\""} THEN from[AfterLiteral(q, i, q[i] = "'" /\ EscapesAt(q, i))]
            ELSE IF q[i] \in {"(", ")", ";"} /\ ~Leading(q, i) THEN {i} \cup from[i + 1]
            ELSE IF q[i] \in Word
            THEN {i} \cup from[First(q, {j \in i..Len(q) : q[j] \notin Word})]
            ELSE from[i + 1]
    IN  from[1]

\* What a separator has behind it, so that it does not end the last statement.
Behind(q, i) == \E j \in (i + 1)..Len(q) : q[j] \notin Space

Inside == {"code", "line", "block", "single", "escaped", "double"}

\* What the character at i opens.
Opens(q, i) ==
    IF Pair(q, i, "-", "-") THEN "line"
    ELSE IF Pair(q, i, "/", "*") THEN "block"
    ELSE IF q[i] = "'" THEN (IF EscapesAt(q, i) THEN "escaped" ELSE "single")
    ELSE IF q[i] = "\"" THEN "double" ELSE "code"

Quote(in) == IF in = "double" THEN "\"" ELSE "'"

\* What the scan is inside of after position i, and how far it moves.
Moves(q, i, in) ==
    IF in = "code" THEN <<Opens(q, i), IF Opens(q, i) \in {"line", "block"} THEN 2 ELSE 1>>
    ELSE IF in = "line" THEN <<IF q[i] = "nl" THEN "code" ELSE in, 1>>
    ELSE IF in = "block" THEN (IF Pair(q, i, "*", "/") THEN <<"code", 2>> ELSE <<in, 1>>)
    ELSE IF in = "escaped" /\ q[i] = "\\" THEN <<in, 2>>
    ELSE IF q[i] # Quote(in) THEN <<in, 1>>
    ELSE IF Is(q, i + 1, Quote(in)) THEN <<in, 2>> ELSE <<"code", 1>>

\* containsStatementSeparator: one pass that carries what it is inside of.
HasSeparator(q) ==
    LET found[i \in 1..(Len(q) + 2)] ==
            [in \in Inside |->
                /\ i <= Len(q)
                /\ \/ in = "code" /\ q[i] = ";" /\ Behind(q, i)
                   \/ found[i + Moves(q, i, in)[2]][Moves(q, i, in)[1]]]
    IN  found[1]["code"]

----------------------------------------------------------------------------
(* The classes, on tokens: a verb, a name of a kind, or a parenthesis *)

Modifying == {"DELETE", "INSERT"}

\* pragmaHasSideEffect and containsVolatileCall.
SideEffect(ts) == \E i \in 2..Len(ts) : ts[i] = "JOURNAL_MODE"

VolatileCall(ts) == \E i \in 1..(Len(ts) - 1) : ts[i] = "NEXTVAL" /\ ts[i + 1] = "("

\* How deep the parentheses are before position i, from position 2 on.
Depth(ts, i) ==
    LET depth[k \in 1..Len(ts)] ==
            IF k = 1 THEN 0
            ELSE IF ts[k] = "(" THEN depth[k - 1] + 1
            ELSE IF ts[k] = ")" /\ depth[k - 1] > 0 THEN depth[k - 1] - 1 ELSE depth[k - 1]
    IN  depth[i - 1]

\* cteMainVerb: the first modifying verb at any depth, or SELECT outside of parentheses.
MainVerb(ts) ==
    LET i == First(ts, {j \in 2..Len(ts) : \/ ts[j] \in Modifying
                                           \/ ts[j] = "SELECT" /\ Depth(ts, j) = 0})
    IN  IF i > Len(ts) THEN "WITH" ELSE ts[i]

\* explainWrappedStatement: what EXPLAIN ANALYZE executes, and <<>> if it executes nothing.
Explained(ts) ==
    IF Is(ts, 2, "(")
    THEN LET close == First(ts, {j \in 3..Len(ts) : Depth(ts, j + 1) = 0})
         IN  IF \E j \in 3..close : Is(ts, j, "ANALYZE")
             THEN SubSeq(ts, close + 1, Len(ts)) ELSE <<>>
    ELSE IF Is(ts, 2, "ANALYZE") THEN SubSeq(ts, 3, Len(ts)) ELSE <<>>

OneStatement(ts, verb) ==
    CASE verb = "PRAGMA" -> IF SideEffect(ts) THEN "write_dml" ELSE "read_query"
      [] verb = "SELECT" -> IF VolatileCall(ts) THEN "write_dml" ELSE "read_query"
      [] verb \in Modifying -> "write_dml"
      [] verb = "CREATE" -> "ddl"
      [] verb = "CALL" -> "procedure_call"
      [] OTHER -> "unknown"

\* classifyTokens; an EXPLAIN ANALYZE is classified as what it explains.
Classify(ts) ==
    LET verb(from) == IF ts[from] = "WITH" THEN MainVerb(SubSeq(ts, from, Len(ts))) ELSE ts[from]
        class[from \in 1..(Len(ts) + 1)] ==
            IF from > Len(ts) THEN "unknown"
            ELSE LET rest == SubSeq(ts, from, Len(ts))
                 IN  IF verb(from) # "EXPLAIN" THEN OneStatement(rest, verb(from))
                     ELSE IF Explained(rest) = <<>> THEN "read_query"
                     ELSE class[Len(ts) + 1 - Len(Explained(rest))]
    IN  class[1]

----------------------------------------------------------------------------
(* What makes it correct *)

\* The two scanners agree on every text about what is code: there is a separator exactly
\* when a semicolon that sqlTokens sees has something behind it, so that what is
\* classified is one statement (sqlutil.go 25-35, 249-266).
ScannersAgree(q) ==
    HasSeparator(q) <=> \E i \in TokensAt(q) : q[i] = ";" /\ Behind(q, i)

\* Where the statement behind a WITH begins.
Main(ts) == First(ts, {j \in 2..Len(ts) : ts[j] \in Modifying \cup {"SELECT"} /\ Depth(ts, j) = 0})

\* The verbs a database executes for the tokens: the statement itself, what it explains
\* with ANALYZE, and the modifying statements in the parentheses of a WITH.
Executed(ts) ==
    LET explains[n \in 0..Len(ts)] == IF n = 0 THEN {ts}
                                      ELSE explains[n - 1] \cup
                                           {Explained(t) : t \in {u \in explains[n - 1] :
                                                                  u # <<>> /\ u[1] = "EXPLAIN"}}
        texts == {t \in explains[Len(ts)] : t # <<>> /\ t[1] # "EXPLAIN"}
        with == {t \in texts : t[1] = "WITH"}
    IN  {t[1] : t \in texts}
        \cup (UNION {{t[j] : j \in {k \in 3..Len(t) : t[k - 1] = "(" /\ k <= Main(t)}} \cap Modifying :
                     t \in with})
        \cup {t[Main(t)] : t \in {u \in with : Main(u) <= Len(u)}}

\* Nothing that is classified as a read executes a modifying statement, however it is
\* wrapped in EXPLAIN ANALYZE and in the parentheses of WITH (sqlutil.go 122-182).
ReadsOnlyRead(ts) ==
    Classify(ts) = "read_query" => Executed(ts) \cap (Modifying \cup {"CREATE", "CALL"}) = {}
=============================================================================
