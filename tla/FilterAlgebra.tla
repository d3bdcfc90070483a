---------------------------- MODULE FilterAlgebra ----------------------------
(***************************************************************************)
(* The two ways to write a filter, and what a filter means.                *)
(* search/lql.py: the lexer, the parser and the canonical re-print;        *)
(* search/grammar.py: the rows of the f parameter; search/compile.py: the  *)
(* checks of a condition and the predicate.  A text is a sequence of       *)
(* atoms: a mark, a blank, or a word, which stands for the characters      *)
(* between.  Upper case, number syntax, globs and networks are functions   *)
(* of words given as constants.                                            *)
(***************************************************************************)
EXTENDS Integers, Sequences, FiniteSets, SequencesExt

CONSTANTS
    Fields,     \* FIELD_DEFS: field -> [numeric, ops, protocol, closed, allowed]
    Lower,      \* casefold() of the words it changes
    NumberOf,   \* _as_int() of the texts that are numbers
    Glob,       \* glob_regex(): pattern -> the texts it matches
    Network,    \* ip_network(): text -> the texts of its addresses
    TooWild,    \* patterns of more than MAX_GLOB_WILDCARDS wildcards
    MaxParts,   \* MAX_FILTER_CONDITIONS
    MaxValues,  \* MAX_IN_VALUES
    TableRows,  \* rows a filter may select: [protocol, values: field -> set]
    Chunks,     \* language -> what a user may write next
    MaxChunks   \* bound: how often

VARIABLES language, written, size
filterVars == <<language, written, size>>

-----------------------------------------------------------------------------
Puncts == {"!=", ">=", "<=", "(", ")", ",", "=", "~"}
Blank == " "
QuoteMark == "\""
Escape == "\\"
Dots == ".."
Unwritable == {"@"}
Bare(a) == a \notin Puncts \cup Unwritable \cup {Blank, QuoteMark}
Keywords == {"and", "or", "not", "in", "cidr", "between", "has"}
FoldWord(a) == IF a \in DOMAIN Lower THEN Lower[a] ELSE a
FoldText(text) == [i \in DOMAIN text |-> FoldWord(text[i])]

\* str.partition()
Cut(text, mark) ==
    LET at == SelectInSeq(text, LAMBDA a : a = mark)
    IN [found |-> at > 0,
        before |-> IF at = 0 THEN text ELSE SubSeq(text, 1, at - 1),
        after |-> IF at = 0 THEN <<>> ELSE SubSeq(text, at + 1, Len(text))]

-----------------------------------------------------------------------------
\* tokenize(): kind, value and where the token ends.
Token(kind, value, next) == [kind |-> kind, value |-> value, next |-> next]

\* _quoted(): from behind the opening mark.
RECURSIVE Quoted(_, _, _)
Quoted(text, i, value) ==
    IF i > Len(text) THEN Token("bad", value, i)
    ELSE IF text[i] = Escape /\ i < Len(text) THEN Quoted(text, i + 2, Append(value, text[i + 1]))
    ELSE IF text[i] = QuoteMark THEN Token("string", value, i + 1)
    ELSE Quoted(text, i + 1, Append(value, text[i]))

RECURSIVE BareFrom(_, _, _)
BareFrom(text, i, value) ==
    IF i > Len(text) \/ ~Bare(text[i]) THEN Token("bare", value, i)
    ELSE BareFrom(text, i + 1, Append(value, text[i]))

NextToken(text, i) ==
    CASE text[i] = QuoteMark -> Quoted(text, i + 1, <<>>)
      [] text[i] \in Puncts -> Token("punct", <<text[i]>>, i + 1)
      [] text[i] \in Unwritable -> Token("bad", <<>>, i)
      [] OTHER -> BareFrom(text, i, <<>>)

RECURSIVE Tokens(_, _), From(_, _)
From(text, token) == IF token.kind = "bad" THEN <<token>> ELSE <<token>> \o Tokens(text, token.next)
Tokens(text, i) ==
    IF i > Len(text) THEN <<Token("end", <<>>, i)>>
    ELSE IF text[i] = Blank THEN Tokens(text, i + 1)
    ELSE From(text, NextToken(text, i))

KeywordOf(token) ==
    IF token.kind = "bare" /\ Len(token.value) = 1 /\ FoldWord(token.value[1]) \in Keywords
    THEN FoldWord(token.value[1]) ELSE "none"
IsPunct(token, mark) == token.kind = "punct" /\ token.value = <<mark>>

-----------------------------------------------------------------------------
\* The tree.  A list too long for its model raises what nobody catches, unless
\* it is the values of one row (RowCondition).
Cond(field, op, values) == [is |-> "cond", field |-> field, op |-> op, values |-> values]
Not(node) == [is |-> "not", of |-> <<node>>]
Group(is, nodes) == [is |-> is, of |-> nodes]

Parsed(node, next) == [ok |-> TRUE, node |-> node, next |-> next]
Error(next) == [ok |-> FALSE, crash |-> FALSE, next |-> next]
Crash(next) == [ok |-> FALSE, crash |-> TRUE, next |-> next]
OneOrGroup(is, nodes, next) ==
    IF Len(nodes) = 1 THEN Parsed(nodes[1], next)
    ELSE IF Len(nodes) > MaxParts THEN Crash(next)
    ELSE Parsed(Group(is, nodes), next)

-----------------------------------------------------------------------------
\* FilterCond._check_arity(), operator_allowed(), check_value() and
\* validate_condition().
ArityOK(op, values) ==
    /\ op = "exists" => values = <<>>
    /\ op = "in" => Len(values) \in 1 .. MaxValues
    /\ op = "between" => Len(values) = 2
    /\ op \notin {"exists", "in", "between"} => Len(values) = 1
    /\ op = "glob" => values[1] \notin TooWild
OperatorAllowed(definition, op) ==
    IF op = "in" THEN "eq" \in definition.ops ELSE op \in definition.ops
ValueOK(definition, op, value) ==
    IF op = "cidr" THEN value \in DOMAIN Network
    ELSE IF definition.numeric THEN value \in DOMAIN NumberOf
    ELSE op \in {"glob", "exists"} \/ ~definition.closed \/ FoldText(value) \in definition.allowed
Valid(field, op, values) ==
    /\ ArityOK(op, values)
    /\ field \in DOMAIN Fields
    /\ OperatorAllowed(Fields[field], op)
    /\ \A i \in DOMAIN values : ValueOK(Fields[field], op, values[i])

\* Parser._condition(): a name that is no field is tried in lower case.
Condition(name, op, values, next) ==
    LET field == IF name \in DOMAIN Fields THEN name ELSE FoldText(name)
    IN IF Valid(field, op, values) THEN Parsed(Cond(field, op, values), next) ELSE Error(next - 1)

-----------------------------------------------------------------------------
IsField(token) == token.kind = "bare" /\ KeywordOf(token) = "none"
IsValue(token) == token.kind \in {"bare", "string"}
SymbolOp(token) ==
    CASE IsPunct(token, "=") \/ IsPunct(token, "!=") -> "eq"
      [] IsPunct(token, "~") -> "glob"
      [] IsPunct(token, ">=") -> "gte"
      [] IsPunct(token, "<=") -> "lte"
      [] OTHER -> "none"

\* _parse_in(): values up to the closing parenthesis.
RECURSIVE InList(_, _, _, _)
InList(ts, i, name, values) ==
    IF ~IsValue(ts[i]) THEN Error(i)
    ELSE LET more == Append(values, ts[i].value)
         IN IF IsPunct(ts[i + 1], ",") THEN InList(ts, i + 2, name, more)
            ELSE IF IsPunct(ts[i + 1], ")") THEN Condition(name, "in", more, i + 2)
            ELSE Error(i + 1)

\* _parse_between(): the dots may stand alone or touch either bound.
Between(ts, i, name) ==
    LET range == Cut(ts[i].value, Dots)
        UpTo(low, j) == IF IsValue(ts[j]) THEN Condition(name, "between", <<low, ts[j].value>>, j + 1)
                        ELSE Error(j)
        tail == Tail(ts[i + 1].value)
    IN IF ~IsValue(ts[i]) THEN Error(i)
       ELSE IF range.found
       THEN IF range.before = <<>> THEN Error(i)
            ELSE IF range.after # <<>> THEN Condition(name, "between", <<range.before, range.after>>, i + 1)
            ELSE UpTo(range.before, i + 1)
       ELSE IF ts[i + 1].kind # "bare" \/ Head(ts[i + 1].value) # Dots THEN Error(i + 1)
       ELSE IF tail # <<>> THEN Condition(name, "between", <<ts[i].value, tail>>, i + 2)
       ELSE UpTo(ts[i].value, i + 2)

Negated(read) == IF read.ok THEN Parsed(Not(read.node), read.next) ELSE read
OneValue(ts, i, name, op) ==
    IF IsValue(ts[i]) THEN Condition(name, op, <<ts[i].value>>, i + 1) ELSE Error(i)
Signed(sign, read) == IF IsPunct(sign, "!=") THEN Negated(read) ELSE read
ParseCondition(ts, i) ==
    IF ~IsField(ts[i]) THEN Error(i)
    ELSE IF SymbolOp(ts[i + 1]) # "none"
    THEN Signed(ts[i + 1], OneValue(ts, i + 2, ts[i].value, SymbolOp(ts[i + 1])))
    ELSE CASE KeywordOf(ts[i + 1]) = "in" ->
                IF IsPunct(ts[i + 2], "(") THEN InList(ts, i + 3, ts[i].value, <<>>) ELSE Error(i + 2)
           [] KeywordOf(ts[i + 1]) = "cidr" -> OneValue(ts, i + 2, ts[i].value, "cidr")
           [] KeywordOf(ts[i + 1]) = "between" -> Between(ts, i + 2, ts[i].value)
           [] OTHER -> Error(i + 1)

\* parse_or(), parse_and() and parse_unary(), each with what it does behind a
\* part that it has read.
StartsUnary(token) ==
    \/ IsPunct(token, "(")
    \/ token.kind \in {"bare", "string"} /\ KeywordOf(token) \in {"none", "not", "has"}
AfterGroup(ts, inner) ==
    IF ~inner.ok THEN inner
    ELSE IF IsPunct(ts[inner.next], ")") THEN Parsed(inner.node, inner.next + 1)
    ELSE Error(inner.next)

RECURSIVE ParseOr(_, _, _), ParseAnd(_, _, _), ParseUnary(_, _), AfterOption(_, _, _), AfterPart(_, _, _)
ParseUnary(ts, i) ==
    CASE KeywordOf(ts[i]) = "not" -> Negated(ParseUnary(ts, i + 1))
      [] IsPunct(ts[i], "(") -> AfterGroup(ts, ParseOr(ts, i + 1, <<>>))
      [] KeywordOf(ts[i]) = "has" ->
           IF IsField(ts[i + 1]) THEN Condition(ts[i + 1].value, "exists", <<>>, i + 2)
           ELSE Error(i + 1)
      [] OTHER -> ParseCondition(ts, i)
AfterPart(ts, parts, part) ==
    LET more == Append(parts, part.node)
    IN IF ~part.ok THEN part
       ELSE IF KeywordOf(ts[part.next]) = "and" THEN ParseAnd(ts, part.next + 1, more)
       ELSE IF StartsUnary(ts[part.next]) THEN ParseAnd(ts, part.next, more)
       ELSE OneOrGroup("all", more, part.next)
ParseAnd(ts, i, parts) == AfterPart(ts, parts, ParseUnary(ts, i))
AfterOption(ts, options, option) ==
    LET more == Append(options, option.node)
    IN IF ~option.ok THEN option
       ELSE IF KeywordOf(ts[option.next]) = "or" THEN ParseOr(ts, option.next + 1, more)
       ELSE OneOrGroup("any", more, option.next)
ParseOr(ts, i, options) == AfterOption(ts, options, ParseAnd(ts, i, <<>>))

ToTheEnd(ts, read) ==
    IF read.ok /\ ts[read.next].kind # "end" THEN Error(read.next) ELSE read
ParseTokens(ts) ==
    IF Last(ts).kind = "bad" THEN Error(Len(ts))
    ELSE IF ts[1].kind = "end" THEN Parsed(Group("all", <<>>), 1)
    ELSE ToTheEnd(ts, ParseOr(ts, 1, <<>>))
Parse(text) == ParseTokens(Tokens(text, 1))

-----------------------------------------------------------------------------
\* quote(): between marks, and escaped, unless it would be read as one bare
\* word that is no keyword.
NeedsQuotes(value) ==
    \/ value = <<>> \/ \E i \in DOMAIN value : ~Bare(value[i])
    \/ Len(value) = 1 /\ FoldWord(value[1]) \in Keywords
Quote(value) ==
    LET escaped == FlattenSeq([i \in DOMAIN value |->
                     IF value[i] \in {Escape, QuoteMark} THEN <<Escape, value[i]>> ELSE <<value[i]>>])
    IN IF NeedsQuotes(value) THEN <<QuoteMark>> \o escaped \o <<QuoteMark>> ELSE value

Joined(texts, separator) ==
    FlattenSeq([i \in DOMAIN texts |-> IF i = 1 THEN texts[i] ELSE separator \o texts[i]])

PrintCondition(cond) ==
    LET sign == CASE cond.op = "eq" -> "=" [] cond.op = "glob" -> "~" [] cond.op = "gte" -> ">="
                  [] cond.op = "lte" -> "<=" [] OTHER -> "cidr"
        quotes == [i \in DOMAIN cond.values |-> Quote(cond.values[i])]
    IN CASE cond.op = "exists" -> <<"has", Blank>> \o cond.field
         [] cond.op = "in" -> cond.field \o <<Blank, "in", Blank, "(">>
                                \o Joined(quotes, <<",", Blank>>) \o <<")">>
         [] cond.op = "between" -> cond.field \o <<Blank, "between", Blank>>
                                     \o Joined(quotes, <<Blank, Dots, Blank>>)
         [] OTHER -> cond.field \o <<Blank, sign, Blank>> \o quotes[1]

\* Mutant of WrapInAnd: alternatives stand in a conjunction as they are.
Unwrapped(node, text) == text

\* _wrap_in_and()
WrapInAnd(node, text) == IF node.is = "any" THEN <<"(">> \o text \o <<")">> ELSE text

\* normalize()
GroupText(node, texts) ==
    CASE node.is = "all" -> Joined([i \in DOMAIN node.of |-> WrapInAnd(node.of[i], texts[i])],
                                   <<Blank, "and", Blank>>)
      [] node.is = "any" -> Joined(texts, <<Blank, "or", Blank>>)
      [] OTHER -> <<"not", Blank, "(">> \o texts[1] \o <<")">>

RECURSIVE Normalize(_)
Normalize(node) ==
    IF node.is = "cond" THEN PrintCondition(node)
    ELSE GroupText(node, [i \in DOMAIN node.of |-> Normalize(node.of[i])])

-----------------------------------------------------------------------------
\* glob_regex(): a pattern without wildcards matches itself, in any case.
GlobHits(pattern) ==
    IF pattern \in DOMAIN Glob THEN Glob[pattern]
    ELSE {v \in UNION {row.values[f] : row \in TableRows, f \in {g \in DOMAIN Fields : ~Fields[g].numeric}} :
             FoldText(v) = FoldText(pattern)}

\* value_match(), _compile_condition() and _compile(): what a filter selects.
MatchesValue(definition, cond, v) ==
    LET same(operand) == IF definition.numeric THEN v = NumberOf[operand]
                         ELSE FoldText(v) = FoldText(operand)
        bounds == {NumberOf[cond.values[i]] : i \in DOMAIN cond.values}
    IN CASE cond.op = "exists" -> definition.numeric \/ v # <<>>
         [] cond.op \in {"eq", "in"} -> \E i \in DOMAIN cond.values : same(cond.values[i])
         [] cond.op = "between" -> /\ \E low \in bounds : low <= v
                                   /\ \E high \in bounds : v <= high
         [] cond.op = "glob" -> v \in GlobHits(cond.values[1])
         [] cond.op = "cidr" -> v \in Network[cond.values[1]]
         [] cond.op = "gte" -> v >= NumberOf[cond.values[1]]
         [] OTHER -> v <= NumberOf[cond.values[1]]
HoldsFor(cond, row) ==
    LET definition == Fields[cond.field]
    IN /\ definition.protocol \in {"any", row.protocol}
       /\ \E v \in row.values[cond.field] : MatchesValue(definition, cond, v)

RECURSIVE Selects(_, _)
Selects(node, row) ==
    CASE node.is = "all" -> \A i \in DOMAIN node.of : Selects(node.of[i], row)
      [] node.is = "any" -> \E i \in DOMAIN node.of : Selects(node.of[i], row)
      [] node.is = "not" -> ~Selects(node.of[1], row)
      [] OTHER -> HoldsFor(node, row)

-----------------------------------------------------------------------------
\* split_values(): an escape counts only before the separator and itself.
RECURSIVE SplitFrom(_, _, _, _)
SplitFrom(raw, i, values, current) ==
    IF i > Len(raw) THEN Append(values, current)
    ELSE IF raw[i] = Escape
    THEN IF i = Len(raw) THEN Append(values, Append(current, Escape))
         ELSE SplitFrom(raw, i + 2, values,
                IF raw[i + 1] \in {",", Escape} THEN Append(current, raw[i + 1])
                ELSE current \o <<Escape, raw[i + 1]>>)
    ELSE IF raw[i] = "," THEN SplitFrom(raw, i + 1, Append(values, current), <<>>)
    ELSE SplitFrom(raw, i + 1, values, Append(current, raw[i]))
SplitValues(raw) == IF raw = <<>> THEN <<>> ELSE SplitFrom(raw, 1, <<>>, <<>>)

\* escape_value(), serialize_row()
EscapeValue(value) ==
    FlattenSeq([i \in DOMAIN value |->
        IF value[i] \in {Escape, ","} THEN <<Escape, value[i]>> ELSE <<value[i]>>])
SerializeRow(row) ==
    row.field \o <<":">> \o (IF row.negated THEN <<"!">> ELSE <<>>) \o <<row.op, ":">>
      \o Joined([i \in DOMAIN row.values |-> EscapeValue(row.values[i])], <<",">>)

\* parse_row(): field, operator and values.
Operators == {"eq", "in", "cidr", "glob", "gte", "lte", "between", "exists"}
ParseRow(raw) ==
    LET first == Cut(raw, ":")
        second == Cut(first.after, ":")
        negated == second.before # <<>> /\ Head(second.before) = "!"
        name == FoldText(IF negated THEN Tail(second.before) ELSE second.before)
    IN IF first.found /\ second.found /\ first.before # <<>> /\ Len(name) = 1 /\ name[1] \in Operators
       THEN [ok |-> TRUE, row |-> [field |-> first.before, op |-> name[1], negated |-> negated,
                                   values |-> SplitValues(second.after)]]
       ELSE [ok |-> FALSE]

\* _condition(), _any_of(), row_to_node(): too many values are an error as any
\* other, as the model's refusal is caught.
RowCondition(row) ==
    LET single(op, values) == IF Valid(row.field, op, values)
                              THEN Parsed(Cond(row.field, op, values), 1) ELSE Error(1)
    IN CASE row.op = "exists" ->
              IF row.values \in {<<>>, << <<>> >>} THEN single("exists", <<>>) ELSE Error(1)
         [] row.op \in {"in", "between"} \/ Len(row.values) = 1 -> single(row.op, row.values)
         [] row.op = "eq" -> single("in", row.values)
         [] OTHER ->
              IF /\ Len(row.values) \in 1 .. MaxParts
                 /\ \A i \in DOMAIN row.values : Valid(row.field, row.op, <<row.values[i]>>)
              THEN Parsed(Group("any", [i \in DOMAIN row.values |->
                                          Cond(row.field, row.op, <<row.values[i]>>)]), 1)
              ELSE Error(1)
RowToNode(row) == IF row.negated THEN Negated(RowCondition(row)) ELSE RowCondition(row)

\* parse_filter(): the rows together.
AllOf(reads) ==
    IF \E i \in DOMAIN reads : ~reads[i].ok THEN Error(1)
    ELSE IF Len(reads) > MaxParts THEN Crash(1)
    ELSE Parsed(Group("all", [i \in DOMAIN reads |-> reads[i].node]), 1)
NodeOf(raw) == IF raw.ok THEN RowToNode(raw.row) ELSE Error(1)
ParseFilter(raws) == AllOf([i \in DOMAIN raws |-> NodeOf(ParseRow(raws[i]))])

-----------------------------------------------------------------------------
\* validate_filter_tree(): depth and number of conditions.
RECURSIVE FilterDepth(_), ConditionsOf(_)
FilterDepth(node) ==
    IF node.is = "cond" THEN 1
    ELSE 1 + FoldSeq(LAMBDA child, most : IF FilterDepth(child) > most THEN FilterDepth(child) ELSE most,
                     0, node.of)
ConditionsOf(node) ==
    IF node.is = "cond" THEN <<node>>
    ELSE FlattenSeq([i \in DOMAIN node.of |-> ConditionsOf(node.of[i])])

-----------------------------------------------------------------------------
\* validate_filter_tree(), for the number of conditions.
FewEnough(read) == read.ok /\ Len(ConditionsOf(read.node)) <= MaxParts

\* A user writes.  A text that no longer can become a filter is not continued.
Promising(ts, read) == read.ok \/ read.next >= Len(ts) - 1
Hopeful == language = "row" \/ Promising(Tokens(written, 1), Parse(written))
Write ==
    /\ size < MaxChunks /\ Hopeful
    /\ \E chunk \in Chunks[language] : written' = written \o chunk
    /\ size' = size + 1
    /\ UNCHANGED language

FilterInit == language \in DOMAIN Chunks /\ written = <<>> /\ size = 0
FilterNext == Write
FilterSpec == FilterInit /\ [][FilterNext]_filterVars

-----------------------------------------------------------------------------
SameRows(a, b) == \A row \in TableRows : Selects(a, row) <=> Selects(b, row)

Several(node) == node.is \in {"any", "not"} \/ (node.is = "all" /\ Len(node.of) > 1)

\* What a filter is printed as is read as the same filter: it selects the same
\* rows, has the same conditions in the same order and no greater depth, so it
\* passes the same limits, and (but for the list around a single row) is
\* printed alike again.
SameFilter(again, node) ==
    /\ again.ok /\ SameRows(again.node, node)
    /\ ConditionsOf(again.node) = ConditionsOf(node)
    /\ FilterDepth(again.node) <= FilterDepth(node)
    /\ Several(node) => Normalize(again.node) = Normalize(node)
Reread(read) == FewEnough(read) => SameFilter(Parse(Normalize(read.node)), read.node)

\* A row selects what any of its values selects, or what none of them does.
AnyValue(row, node) ==
    \A r \in TableRows :
        row.op \notin {"between", "exists"} =>
            (Selects(node, r) <=>
                (row.negated # \E i \in DOMAIN row.values :
                                  HoldsFor(Cond(row.field, IF row.op = "in" THEN "eq" ELSE row.op,
                                                <<row.values[i]>>), r)))

\* The canonical text of every LQL query that parses, within the limit of
\* conditions (beyond it the text of nested lists may be refused), and of every filter made
\* of rows, means the same as what it was made from; a row survives being
\* written back, with its commas and backslashes; several values of a row are
\* alternatives, whatever its operator.
RowHolds(raw, read) ==
    /\ raw.ok => ParseRow(SerializeRow(raw.row)) = raw
    /\ read.ok => AnyValue(raw.row, read.node.of[1])
    /\ Reread(read)
FiltersRoundTrip ==
    IF language = "lql" THEN Reread(Parse(written))
    ELSE RowHolds(ParseRow(written), ParseFilter(<<written>>))
=============================================================================
