------------------------------ MODULE LogQuery ------------------------------
(***************************************************************************)
(* internal/logquery/parser.go: what a filter means that tunnelctl logs,   *)
(* the log stream and the dashboard's prompt are given. A predicate is the *)
(* set of the entries it accepts. The tokens are those of tokenize; a word *)
(* comes apart as buildPredicate and fieldPredicate take it apart, and of  *)
(* a text only matters which texts it contains.                            *)
(***************************************************************************)
EXTENDS Naturals, Sequences

CONSTANTS
    Logged,        \* the log entries: functions from fields to values
    Words,          \* the words, bare or field:value, and the quoted strings
    Within(_, _),   \* a value, as it is printed, contains a text
    MaxTokens       \* bound: tokens in a query

\* The numeric fields of the code, those compared as a whole, and all others.
NumericFields == {"status", "duration_ms", "bytes", "pid", "restarts",
                  "attempt", "delay_s", "exit_code"}
EqualFields == {"level", "stream", "event"}

\* A bare word or a quoted string has the shape "search"; 5xx is a "range",
\* >=400 a "compare", 200 a "number" and any other value a "text". The text of
\* a value is kept, since what is no number for its field is a text there.
Shapes == {"search", "range", "compare", "number", "text"}

ASSUME WordsAssumption ==
    \A w \in Words : DOMAIN w = {"field", "shape", "op", "num", "text"} /\ w.shape \in Shapes

\* logger.go:165: only the lines of kubectl have a raw line, and it is their message.
ASSUME RawAssumption ==
    \A e \in Logged : "raw" \in DOMAIN e => "msg" \in DOMAIN e /\ e["raw"] = e["msg"]

\* The proxy logs the status of a response, which is a whole number.
ASSUME StatusAssumption ==
    \A e \in Logged :
        "status" \in DOMAIN e /\ "num" \in DOMAIN e["status"] => e["status"].num \in Nat

Word(w) == [kind |-> "word", word |-> w]
Mark(k) == [kind |-> k]
Tokens == {Word(w) : w \in Words} \cup {Mark(k) : k \in {"and", "or", "not", "(", ")"}}

VARIABLE query

QueryOK == query \in Seq(Tokens)

\* What Entry declares for JSON; RawLine is not part of it.
TopLevel == {"time", "stream", "level", "tunnel", "event", "msg"}

\* Wrong: the message is called something else in the JSON.
AtClientNoMsg(e) == [f \in DOMAIN e \cap (TopLevel \ {"msg"}) |-> e[f]]

\* MarshalJSON writes the fields beside the declared ones, where a client that
\* decodes an Entry passes over them.
AtClient(e) == [f \in DOMAIN e \cap TopLevel |-> e[f]]

\* What a predicate may be asked about, here or at a client.
Universe == Logged \cup {AtClient(e) : e \in Logged}

-----------------------------------------------------------------------------
(***************************************************************************)
(* The predicates of single words.                                         *)
(***************************************************************************)

\* The entries with a number in the field.
Numeric(field) == {e \in Universe : field \in DOMAIN e /\ "num" \in DOMAIN e[field]}

Compare(n, op, m) ==
    CASE op = ">=" -> n >= m
      [] op = "<=" -> n <= m
      [] op = ">" -> n > m
      [] op = "<" -> n < m
      [] op = "==" -> n = m

InRange(n, digit) == n >= digit * 100 /\ n <= digit * 100 + 99

\* A range of another field than the status is only a text.
IsRange(w) == w.shape = "range" /\ w.field = "status"

BadRange(w) == IsRange(w) /\ w.num \notin 1..5

fieldPredicate(w) ==
    CASE IsRange(w) -> {e \in Numeric(w.field) : InRange(e[w.field].num, w.num)}
      [] w.shape = "compare" -> {e \in Numeric(w.field) : Compare(e[w.field].num, w.op, w.num)}
      [] w.shape = "number" /\ w.field \in NumericFields ->
            {e \in Numeric(w.field) : e[w.field].num = w.num}
      [] OTHER ->
            {e \in Universe : /\ w.field \in DOMAIN e
                             /\ IF w.field \in EqualFields THEN e[w.field].text = w.text
                                                           ELSE Within(e[w.field], w.text)}

\* A search looks at the message and at the raw line.
buildPredicate(w) ==
    IF w.shape = "search"
    THEN {e \in Universe : \E f \in {"msg", "raw"} \cap DOMAIN e : Within(e[f], w.text)}
    ELSE fieldPredicate(w)

-----------------------------------------------------------------------------
(***************************************************************************)
(* The recursive descent. A result has the position after what was parsed. *)
(***************************************************************************)

Kind(q, i) == IF i \in DOMAIN q THEN q[i].kind ELSE "eof"

Fails == [ok |-> FALSE]
Parsed(i, p) == [ok |-> TRUE, pos |-> i, pred |-> p]

\* parsed is what the three functions return that are called from a later token on.
\* The turns of a loop are taken from its last one: in which order conjunctions or
\* disjunctions are joined makes no difference, and an error in any is an error.
Rules == {"or", "and", "term"}

\* Wrong: NOT negates all of the conjunction that follows.
NegatedWide(i, parsed) == parsed[i]["and"]

\* NOT negates the next term only.
Negated(i, parsed) == parsed[i]["term"]

parseTerm(q, i, parsed) ==
    CASE Kind(q, i) = "not" ->
            LET inner == Negated(i + 1, parsed)
            IN  IF inner.ok THEN Parsed(inner.pos, Universe \ inner.pred) ELSE Fails
      [] Kind(q, i) = "(" ->
            LET inner == parsed[i + 1]["or"]
            IN  IF inner.ok /\ Kind(q, inner.pos) = ")"
                THEN Parsed(inner.pos + 1, inner.pred) ELSE Fails
      [] Kind(q, i) = "word" ->
            IF BadRange(q[i].word) THEN Fails
                                   ELSE Parsed(i + 1, buildPredicate(q[i].word))
      [] OTHER -> Fails

\* What ends a conjunction: all else begins another term, with or without AND.
EndsAnd(kind) == kind \in {"eof", ")", "or"}

MoreTerms(q, left, parsed) ==
    LET next  == IF Kind(q, left.pos) = "and" THEN left.pos + 1 ELSE left.pos
        right == parsed[next]["and"]
    IN  IF ~left.ok \/ EndsAnd(Kind(q, left.pos)) THEN left
        ELSE IF right.ok THEN Parsed(right.pos, left.pred \cap right.pred) ELSE Fails

parseAnd(q, i, parsed) == MoreTerms(q, parseTerm(q, i, parsed), parsed)

MoreAnds(q, left, parsed) ==
    LET right == parsed[left.pos + 1]["or"]
    IN  IF ~left.ok \/ Kind(q, left.pos) # "or" THEN left
        ELSE IF right.ok THEN Parsed(right.pos, left.pred \cup right.pred) ELSE Fails

parseOr(q, i, parsed) == MoreAnds(q, parseAnd(q, i, parsed), parsed)

parse(q, rule, i, parsed) ==
    CASE rule = "or"   -> parseOr(q, i, parsed)
      [] rule = "and"  -> parseAnd(q, i, parsed)
      [] rule = "term" -> parseTerm(q, i, parsed)

\* The three functions, called from every token on and from the end.
Descent(q) ==
    LET parsed[i \in 1..(Len(q) + 1)] == [rule \in Rules |-> parse(q, rule, i, parsed)]
    IN  parsed

\* Tokens left over are an error.
Whole(q, p) == IF p.ok /\ p.pos = Len(q) + 1 THEN p ELSE Fails

\* An empty query accepts everything.
Parse(q) == IF q = <<>> THEN Parsed(1, Universe) ELSE Whole(q, Descent(q)[1]["or"])

-----------------------------------------------------------------------------
(***************************************************************************)
(* A query, written token by token.                                        *)
(***************************************************************************)

QueryInit == query = <<>>

Write(t) ==
    /\ Len(query) < MaxTokens
    /\ query' = Append(query, t)

QueryNext == \E t \in Tokens : Write(t)

QuerySpec == QueryInit /\ [][QueryNext]_query

-----------------------------------------------------------------------------
(***************************************************************************)
(* Properties.                                                             *)
(***************************************************************************)

\* parser.go:16: 5xx is the range 500-599; spelled out as two comparisons.
WordMeaning(w) ==
    IF IsRange(w)
    THEN LET bound(op, n) == fieldPredicate([w EXCEPT !.shape = "compare", !.op = op, !.num = n])
         IN  bound(">=", w.num * 100) \cap bound("<", (w.num + 1) * 100)
    ELSE buildPredicate(w)

\* All that q[i..j] can mean by the grammar at the head of parser.go, with the
\* implicit AND of README.md:181, by every derivation that it has. means is what the
\* parts of the query mean that begin after i.
TermMeanings(q, i, j, means) ==
    IF i > j THEN {}
    ELSE (IF Kind(q, i) = "not"
              THEN {Universe \ m : m \in means[i + 1][j]["term"]} ELSE {})
         \cup (IF i < j /\ Kind(q, i) = "(" /\ Kind(q, j) = ")"
                   THEN means[i + 1][j - 1]["or"] ELSE {})
         \cup (IF i = j /\ Kind(q, i) = "word" /\ ~BadRange(q[i].word)
                   THEN {WordMeaning(q[i].word)} ELSE {})

AndMeanings(q, i, j, means) ==
    TermMeanings(q, i, j, means) \cup
    UNION {{m \cap n : m \in TermMeanings(q, i, k, means),
                       n \in means[k + 1][j]["and"]
                             \cup (IF Kind(q, k + 1) = "and"
                                       THEN means[k + 2][j]["and"] ELSE {})}
               : k \in i..(j - 1)}

OrMeanings(q, i, j, means) ==
    AndMeanings(q, i, j, means) \cup
    UNION {{m \cup n : m \in AndMeanings(q, i, k - 1, means), n \in means[k + 1][j]["or"]}
               : k \in {k \in (i + 1)..(j - 1) : Kind(q, k) = "or"}}

MeaningsOf(q, rule, i, j, means) ==
    CASE rule = "or"   -> OrMeanings(q, i, j, means)
      [] rule = "and"  -> AndMeanings(q, i, j, means)
      [] rule = "term" -> TermMeanings(q, i, j, means)

Meanings(q) ==
    LET means[i \in 1..(Len(q) + 1)] ==
            [j \in 0..Len(q) |-> [rule \in Rules |-> MeaningsOf(q, rule, i, j, means)]]
    IN  means

\* What a result leaves of the meanings: one or, after an error, none.
MeantBy(p) == IF p.ok THEN {p.pred} ELSE {}

\* parser.go:5-16: the descent accepts exactly the queries of the grammar, which
\* is ambiguous, and gives each the one meaning that all derivations agree on,
\* where a range of statuses is what its two borders say.
MeansGrammar ==
    query # <<>> =>
        Meanings(query)[1][Len(query)]["or"] = MeantBy(Parse(query))

\* README.md:171: the language is "used by both `tunnelctl logs --filter` and the
\* TUI `f` prompt", the one on the daemon's entries and the other on what became
\* of them in the JSON. A query says the same of both if it asks for declared
\* fields and texts only.
SameAtClient ==
    (\A i \in DOMAIN query : query[i].kind = "word" =>
          query[i].word.shape = "search" \/ query[i].word.field \in TopLevel)
        => \A p \in MeantBy(Parse(query)) : \A e \in Logged : e \in p <=> AtClient(e) \in p
=============================================================================
