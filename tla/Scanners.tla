------------------------------ MODULE Scanners ------------------------------
(***************************************************************************)
(* The scanners that keep a state from line to line: the rules of          *)
(* src/src/lint/lint.cpp that count braces, and the own passes of          *)
(* src/src/analyze/analyze.cpp that measure functions.  Of the rules that  *)
(* look for a pattern on one line, LINT002 (goto) and LINT004 (abort) stand*)
(* for the rest.                                                           *)
(*                                                                         *)
(* A line is [code, notes, file]: its tokens in order; the annotations in  *)
(* its comment (a rule that is suppressed, "NOLINT", "recursive",          *)
(* "safe-state"); and the rules suppressed for the whole file.  A token is *)
(* [is, of]: a brace, "def", "call" or "member" of the function "of" (a    *)
(* signature at the line's start, a plain call, a call through an object), *)
(* or one of the other words the patterns look for.  Braces are counted in *)
(* comments and texts too, words are not.  A function that nests too deep  *)
(* is named by its first line here, in the report by the line it does so.  *)
(***************************************************************************)
EXTENDS Integers, Sequences, FiniteSets, SequencesExt

Has(line, word) == \E i \in DOMAIN line.code : line.code[i].is = word
Braces(line) == SelectSeq(line.code, LAMBDA t : t.is \in {"{", "}"})
Signs(line) == line.code # <<>> /\ line.code[1].is = "def"
Change(t) == IF t.is = "{" THEN 1 ELSE -1

suppressed(line, rule) == line.notes \cap {rule, "NOLINT"} # {}

file_suppressed(lines, rule) ==
    \E i \in DOMAIN lines : i <= 20 /\ rule \in lines[i].file

has_safe_state_above(lines, i) == i > 1 /\ "safe-state" \in lines[i - 1].notes

\* The lines on which a fold over the file reports.
Reported(Step(_, _), init, lines) ==
    ToSet(FoldLeft(LAMBDA s, i : Step(s, i), init, [i \in DOMAIN lines |-> i]).out)

check_goto(lines) ==
    {i \in DOMAIN lines : Has(lines[i], "goto") /\ ~suppressed(lines[i], "LINT002")}

check_abort_exit(lines) ==
    {i \in DOMAIN lines :
        /\ ~file_suppressed(lines, "LINT004")
        /\ Has(lines[i], "abort")
        /\ ~suppressed(lines[i], "LINT004")
        /\ ~has_safe_state_above(lines, i)}

-----------------------------------------------------------------------------
(* LINT008: a call of the function whose body is being read.                *)

Nowhere == [fn |-> "", entry |-> -1, depth |-> 0, out |-> <<>>]

\* Slip: any brace that closes ends the function.
AfterAnyBrace(s, t) ==
    LET depth == s.depth + Change(t)
    IN IF depth < 0 THEN s
       ELSE IF t.is = "}" THEN [s EXCEPT !.depth = depth, !.fn = "", !.entry = -1]
            ELSE [s EXCEPT !.depth = depth]

\* A brace below the file's level is not counted; back at the level of the
\* signature the function is over.
AfterBrace(s, t) ==
    LET depth == s.depth + Change(t)
    IN IF depth < 0 THEN s
       ELSE IF t.is = "}" /\ s.fn # "" /\ depth = s.entry
            THEN [s EXCEPT !.depth = depth, !.fn = "", !.entry = -1]
            ELSE [s EXCEPT !.depth = depth]

\* Only the first call of the function on a line is looked at.
CallsItself(line, fn) ==
    LET first == SelectInSeq(line.code, LAMBDA t : t.is \in {"call", "member"} /\ t.of = fn)
    IN first # 0 /\ line.code[first].is = "call"

\* Slip: a line that is suppressed is skipped before its braces are counted.
CountedUnlessSuppressed(s, line) ==
    IF suppressed(line, "LINT008") THEN s
    ELSE FoldLeft(AfterBrace,
                  IF Signs(line) THEN [s EXCEPT !.fn = line.code[1].of, !.entry = s.depth] ELSE s,
                  Braces(line))

Counted(s, line) ==
    FoldLeft(AfterBrace,
             IF Signs(line) THEN [s EXCEPT !.fn = line.code[1].of, !.entry = s.depth] ELSE s,
             Braces(line))

recursion_step(s, i, line) ==
    LET after == Counted(s, line)
    IN IF /\ after.fn # ""
          /\ CallsItself(line, after.fn)
          /\ ~Signs(line)
          /\ line.notes \cap {"LINT008", "NOLINT", "recursive"} = {}
       THEN [after EXCEPT !.out = Append(@, i)]
       ELSE after

check_recursion(lines) ==
    Reported(LAMBDA s, i : recursion_step(s, i, lines[i]), Nowhere, lines)

-----------------------------------------------------------------------------
(* LINT013: whether a default follows before what the switch stands in ends.*)

\* Slip: the depth is counted anew on every line.
DescendAnew(depth, line) ==
    FoldLeft(LAMBDA d, t : [depth |-> d.depth + Change(t), left |-> d.left \/ d.depth + Change(t) < 0],
             [depth |-> 0, left |-> FALSE], Braces(line))

Descend(depth, line) ==
    FoldLeft(LAMBDA d, t : [depth |-> d.depth + Change(t), left |-> d.left \/ d.depth + Change(t) < 0],
             [depth |-> depth, left |-> FALSE], Braces(line))

default_step(s, line) ==
    LET after == Descend(s.depth, line)
    IN IF s.known THEN s
       ELSE [depth |-> after.depth, known |-> after.left \/ Has(line, "default"),
             found |-> ~after.left /\ Has(line, "default")]

Ahead == 200

has_default_ahead(lines, i) ==
    FoldLeft(default_step, [depth |-> 0, known |-> FALSE, found |-> FALSE],
             SubSeq(lines, i, IF Len(lines) < i + Ahead THEN Len(lines) ELSE i + Ahead - 1)).found

check_switch_default(lines) ==
    {i \in DOMAIN lines :
        /\ ~file_suppressed(lines, "LINT013")
        /\ ~suppressed(lines[i], "LINT013")
        /\ Has(lines[i], "switch")
        /\ ~has_default_ahead(lines, i)}

-----------------------------------------------------------------------------
(* LINT015: a throw between a destructor and the brace that closes it.      *)

Elsewhere == [in_dtor |-> FALSE, depth |-> 0, out |-> <<>>]

\* Slip: a body that closes on the destructor's own line leaves it open.
CloseLater(s, t, own) ==
    LET depth == s.depth + Change(t)
    IN [s EXCEPT !.depth = depth, !.in_dtor = @ /\ ~(t.is = "}" /\ depth <= 0 /\ ~own)]

Close(s, t, own) ==
    LET depth == s.depth + Change(t)
    IN [s EXCEPT !.depth = depth, !.in_dtor = @ /\ ~(t.is = "}" /\ depth <= 0)]

dtor_step(s, i, line) ==
    LET entered == IF Has(line, "dtor") THEN [s EXCEPT !.in_dtor = TRUE, !.depth = 0] ELSE s
        after == FoldLeft(LAMBDA x, t : Close(x, t, Has(line, "dtor")), entered, Braces(line))
    IN IF ~entered.in_dtor THEN s
       ELSE IF Has(line, "throw") /\ ~suppressed(line, "LINT015")
            THEN [after EXCEPT !.out = Append(@, i)]
            ELSE after

check_throw_in_destructor(lines) ==
    IF file_suppressed(lines, "LINT015") THEN {}
    ELSE Reported(LAMBDA s, i : dtor_step(s, i, lines[i]), Elsewhere, lines)

lint(lines) ==
    [LINT002 |-> check_goto(lines), LINT004 |-> check_abort_exit(lines),
     LINT008 |-> check_recursion(lines), LINT013 |-> check_switch_default(lines),
     LINT015 |-> check_throw_in_destructor(lines)]

-----------------------------------------------------------------------------
(* The functions analyze measures: from the line of a signature that opens  *)
(* a brace to the one that closes it, without the first line.               *)

Idle == [inside |-> FALSE, depth |-> 0, start |-> 0, body |-> <<>>, out |-> <<>>]

Opens(line) == Signs(line) /\ Len(line.code) > 1 /\ line.code[2].is = "{"

\* Slip: the first brace that closes ends the body.
ClosedAtFirst(depth, line) ==
    [depth |-> depth, closed |-> Has(line, "}")]

Closed(depth, line) ==
    FoldLeft(LAMBDA d, t : IF d.closed THEN d
                           ELSE [depth |-> d.depth + Change(t), closed |-> t.is = "}" /\ d.depth = 1],
             [depth |-> depth, closed |-> FALSE], Braces(line))

block_step(s, i, line) ==
    LET after == Closed(s.depth, line)
        body == Append(s.body, line)
    IN IF ~s.inside
       THEN IF ~Opens(line) THEN s
            ELSE [s EXCEPT !.inside = TRUE, !.start = i, !.body = <<>>,
                           !.depth = FoldLeft(LAMBDA d, t : d + Change(t), 0, Braces(line))]
       ELSE IF after.closed
            THEN [Idle EXCEPT !.out = Append(s.out, [start |-> s.start, body |-> body])]
            ELSE [s EXCEPT !.depth = after.depth, !.body = body]

extract_func_blocks(lines) ==
    FoldLeft(LAMBDA s, i : block_step(s, i, lines[i]), Idle, [i \in DOMAIN lines |-> i]).out

Blocks(lines) == ToSet(extract_func_blocks(lines))

\* The limits of the code are 60 lines, 5 levels and 3 returns.
check_function_length(lines, limit) ==
    {b.start : b \in {x \in Blocks(lines) : Len(x.body) > limit}}

NestsDeeper(body, limit) ==
    LET braces == FlattenSeq([i \in DOMAIN body |-> Braces(body[i])])
        depth(k) == FoldLeft(LAMBDA d, t : d + Change(t), 0, SubSeq(braces, 1, k))
    IN \E k \in DOMAIN braces : depth(k) > limit

check_nesting_depth(lines, limit) ==
    {b.start : b \in {x \in Blocks(lines) : NestsDeeper(x.body, limit)}}

Returns(body) ==
    SelectSeq(FlattenSeq([i \in DOMAIN body |-> body[i].code]), LAMBDA t : t.is = "return")

check_multiple_returns(lines, limit) ==
    {b.start : b \in {x \in Blocks(lines) : Len(Returns(x.body)) > limit}}

-----------------------------------------------------------------------------
(* What the braces mean, over the tokens of a file with their lines.        *)

Tokens(lines) ==
    FlattenSeq([i \in DOMAIN lines |->
        [k \in DOMAIN lines[i].code |-> [line |-> i, is |-> lines[i].code[k].is, of |-> lines[i].code[k].of]]])

Level(tokens, k) ==
    Cardinality({j \in 1 .. k : tokens[j].is = "{"}) - Cardinality({j \in 1 .. k : tokens[j].is = "}"})

\* Token k is in the block that the brace at q opens.
Within(tokens, q, k) == q < k /\ \A j \in q .. k : Level(tokens, j) >= Level(tokens, q)

Balanced(tokens) ==
    Level(tokens, Len(tokens)) = 0 /\ \A k \in DOMAIN tokens : Level(tokens, k) >= 0

\* Every signature, destructor and switch has its block, and a signature stands
\* in no function: no declarations, which the scanners take for definitions.
Defined(tokens) ==
    /\ Balanced(tokens)
    /\ \A k \in DOMAIN tokens : tokens[k].is \in {"def", "dtor", "switch"} =>
           k < Len(tokens) /\ tokens[k + 1].is = "{"
    /\ \A k, q \in DOMAIN tokens :
           tokens[k].is \in {"def", "dtor"} /\ tokens[q].is \in {"def", "dtor"} => ~Within(tokens, q + 1, k)

(* LINT015 reports a throw just where it is in a destructor: never in a     *)
(* function that follows one, however its body is laid out.                 *)
ThrowIsInDestructor(lines) ==
    LET tokens == Tokens(lines)
    IN Defined(tokens) =>
        check_throw_in_destructor(lines) =
            {tokens[k].line : k \in {x \in DOMAIN tokens :
                /\ tokens[x].is = "throw"
                /\ ~suppressed(lines[tokens[x].line], "LINT015")
                /\ \E q \in DOMAIN tokens : tokens[q].is = "dtor" /\ Within(tokens, q + 1, x)}}

(* LINT008 reports the calls a function makes of itself, except through an  *)
(* object and on the line of a signature, and of no function that is over.  *)
RecursionIsSeen(lines) ==
    LET tokens == Tokens(lines)
    IN Defined(tokens) =>
        check_recursion(lines) =
            {tokens[k].line : k \in {x \in DOMAIN tokens :
                /\ tokens[x].is = "call"
                /\ lines[tokens[x].line].notes \cap {"LINT008", "NOLINT", "recursive"} = {}
                /\ ~Signs(lines[tokens[x].line])
                /\ \E q \in DOMAIN tokens :
                       /\ tokens[q].is = "def" /\ tokens[q].of = tokens[x].of
                       /\ Within(tokens, q + 1, x)}}

(* A switch with a default of its own is never reported, and one is always  *)
(* reported when no default follows it.                                     *)
OwnDefaultSuffices(lines) ==
    LET tokens == Tokens(lines)
        switches == {q \in DOMAIN tokens :
                        tokens[q].is = "switch" /\ ~suppressed(lines[tokens[q].line], "LINT013")}
        own(q) == {k \in DOMAIN tokens : /\ tokens[k].is = "default"
                                         /\ Within(tokens, q + 1, k)
                                         /\ Level(tokens, k) = Level(tokens, q + 1)}
        later(q) == {k \in DOMAIN tokens : tokens[k].is = "default" /\ tokens[k].line >= tokens[q].line}
    IN Defined(tokens) =>
        /\ \A q \in switches : own(q) # {} => tokens[q].line \notin check_switch_default(lines)
        /\ \A q \in switches : later(q) = {} => tokens[q].line \in check_switch_default(lines)

(* An annotation on a line takes out the findings it names on that line and *)
(* changes no other, of no rule and on no line.                             *)
SuppressionIsOfItsLine(lines) ==
    \A i \in DOMAIN lines, note \in {"LINT002", "LINT008", "LINT015", "NOLINT"} :
        LET annotated == [lines EXCEPT ![i].notes = @ \cup {note}]
            before == lint(lines)
            after == lint(annotated)
        IN \A rule \in DOMAIN before :
               after[rule] = IF note \in {rule, "NOLINT"} THEN before[rule] \ {i} ELSE before[rule]

(* Where a function's body begins behind the line of its signature and ends *)
(* on a line that signs no other, each is held to the limits, once, on what *)
(* lies between.                                                            *)
LimitsAreOfTheBody(lines, limit) ==
    LET tokens == Tokens(lines)
        defs == {q \in DOMAIN tokens : tokens[q].is = "def"}
        body(q) == {k \in DOMAIN tokens : Within(tokens, q + 1, k)}
        last(q) == tokens[q + 2 + Cardinality(body(q))].line
        over(Exceeds(_)) == {tokens[q].line : q \in {x \in defs : Exceeds(x)}}
        apart == \A q \in defs : Len(lines[tokens[q].line].code) = 2 /\ ~Signs(lines[last(q)])
    IN (Defined(tokens) /\ apart) =>
        /\ check_function_length(lines, limit) = over(LAMBDA q : last(q) - tokens[q].line > limit)
        /\ check_nesting_depth(lines, limit) =
               over(LAMBDA q : \E k \in body(q) : Level(tokens, k) - Level(tokens, q + 1) > limit)
        /\ check_multiple_returns(lines, limit) =
               over(LAMBDA q : Cardinality({k \in body(q) : tokens[k].is = "return"}) > limit)

=============================================================================
