---------------------------- MODULE FuncCoverage ----------------------------
(***************************************************************************)
(* `trace --func-coverage` (scan_func_coverage in src/src/trace/trace.cpp): *)
(* which functions a header declares for others to call, and which of them *)
(* have a //fusa:req tag above their definition.                           *)
(*                                                                         *)
(* Text comes at three levels: characters, of which only those that begin  *)
(* or end a comment or a literal are told apart; the statements and braces *)
(* of a header; and the lines of a source file.                            *)
(***************************************************************************)
EXTENDS Naturals, Sequences, FiniteSets, SequencesExt

Chars == {"x", "quote", "apostrophe", "backslash", "/", "*", "newline"}

-----------------------------------------------------------------------------
(* Characters.                                                             *)

At(s, i) == IF i \in DOMAIN s THEN s[i] ELSE "none"

\* Slip: comment marks inside a character literal are taken for comments.
OutsideString(s) == ~s.str

OutsideLiterals(s) == ~s.str /\ ~s.chr

\* One turn of the loop at place i: mode tells what is being skipped, and from
\* tells where the loop goes on after a comment mark of two characters.
StripStep(content, s, i) ==
    LET c == content[i]
        pair == <<c, At(content, i + 1)>>
        quoted == At(content, i - 1) = "backslash"
        str == IF ~s.chr /\ c = "quote" /\ ~quoted THEN ~s.str ELSE s.str
        chr == IF ~str /\ c = "apostrophe" /\ ~quoted THEN ~s.chr ELSE s.chr
    IN CASE i < s.from -> s
         [] s.mode = "line" /\ c # "newline" -> s
         [] s.mode = "block" ->
                IF pair = <<"*", "/">> THEN [s EXCEPT !.mode = "code", !.from = i + 2] ELSE s
         [] OutsideLiterals(s) /\ pair = <<"/", "/">> -> [s EXCEPT !.mode = "line"]
         [] OutsideLiterals(s) /\ pair = <<"/", "*">> ->
                [s EXCEPT !.mode = "block", !.from = i + 2]
         [] OTHER -> [s EXCEPT !.mode = "code", !.str = str, !.chr = chr,
                               !.out = Append(@, i)]

\* The places of the characters that are kept.
strip_comments(content) ==
    LET start == [mode |-> "code", from |-> 1, str |-> FALSE, chr |-> FALSE, out |-> <<>>]
    IN FoldLeft(LAMBDA s, i : StripStep(content, s, i), start, [i \in DOMAIN content |-> i]).out

\* What C++ says of each place: in code, in a literal, or in a comment.  esc tells
\* that the character before is a backslash that takes this one's meaning.
Lex(content) ==
    LET step(s, i) ==
            LET c == content[i]
                pair == <<c, At(content, i + 1)>>
                back == <<At(content, i - 1), c>>
                in(m) == [mode |-> m, since |-> i, esc |-> FALSE,
                          kept |-> IF m \in {"line", "block"} THEN s.kept ELSE Append(s.kept, i)]
                stay == [in(s.mode) EXCEPT !.since = s.since]
            IN CASE s.mode = "line" -> IF c = "newline" THEN in("code") ELSE stay
                 [] s.mode = "block" ->
                        IF back = <<"*", "/">> /\ i > s.since + 2
                          THEN [in("code") EXCEPT !.kept = s.kept] ELSE stay
                 [] s.mode = "code" ->
                        CASE pair = <<"/", "/">> -> in("line")
                          [] pair = <<"/", "*">> -> in("block")
                          [] c \in {"quote", "apostrophe"} -> in(c)
                          [] OTHER -> stay
                 [] s.esc -> stay
                 [] c = s.mode -> in("code")
                 [] OTHER -> [stay EXCEPT !.esc = (c = "backslash")]
        start == [mode |-> "code", since |-> 0, esc |-> FALSE, kept |-> <<>>]
    IN FoldLeft(step, start, [i \in DOMAIN content |-> i])

(* What is stripped is what C++ calls a comment, marks in string and       *)
(* character literals included ("respecting string/char literals").  Not   *)
(* so after a backslash that is itself escaped, or outside a literal.      *)
Ordinary(content) ==
    \A i \in DOMAIN content :
        content[i] = "backslash" =>
            /\ At(content, i - 1) # "backslash"
            /\ Lex(SubSeq(content, 1, i - 1)).mode \notin {"code"}

StripsComments(content) ==
    Ordinary(content) => strip_comments(content) = Lex(content).kept

-----------------------------------------------------------------------------
(* Headers: a token opens a block of a kind, closes one, is an access      *)
(* specifier, or is the declaration of a function.                         *)

Types == {"class", "struct"}
Opening == Types \cup {"namespace", "enum", "func", "other"}
Access == {"public", "private"}

\* Only a class is private until it says otherwise.
BlockOf(kind) ==
    [kind |-> kind, access |-> IF kind = "class" THEN "private" ELSE "public"]

\* The innermost block that is not a namespace decides.
reachable(stack) ==
    LET deciding == {i \in DOMAIN stack : stack[i].kind # "namespace"}
        last == CHOOSE i \in deciding : \A j \in deciding : j <= i
    IN deciding = {} \/ (stack[last].kind \in Types /\ stack[last].access = "public")

\* Slip: an access specifier holds for all the blocks that are open.
HppStepSpreads(tokens, s, i) ==
    LET t == tokens[i] IN
    CASE t \in Opening -> [s EXCEPT !.stack = Append(@, BlockOf(t))]
      [] t \in Access -> [s EXCEPT !.stack = [n \in DOMAIN @ |-> [@[n] EXCEPT !.access = t]]]
      [] t = "close" /\ s.stack # <<>> -> [s EXCEPT !.stack = Front(@)]
      [] t = "decl" /\ reachable(s.stack) -> [s EXCEPT !.out = @ \cup {i}]
      [] OTHER -> s

HppStep(tokens, s, i) ==
    LET t == tokens[i] IN
    CASE t \in Opening -> [s EXCEPT !.stack = Append(@, BlockOf(t))]
      [] t \in Access /\ s.stack # <<>> /\ Last(s.stack).kind \in Types ->
            [s EXCEPT !.stack = [@ EXCEPT ![Len(@)].access = t]]
      [] t = "close" /\ s.stack # <<>> -> [s EXCEPT !.stack = Front(@)]
      [] t = "decl" /\ reachable(s.stack) -> [s EXCEPT !.out = @ \cup {i}]
      [] OTHER -> s

\* The places of the declarations that count.
parse_hpp_functions(tokens) ==
    FoldLeft(LAMBDA s, i : HppStep(tokens, s, i), [stack |-> <<>>, out |-> {}],
             [i \in DOMAIN tokens |-> i]).out

(* In a header whose braces match, a declaration counts just if no block   *)
(* encloses it but namespaces, or the innermost other one is a class or    *)
(* struct whose last access specifier before it, or default, is public.    *)
Depth(tokens, i) ==
    Cardinality({j \in 1..i : tokens[j] \in Opening}) - Cardinality({j \in 1..i : tokens[j] = "close"})

Balanced(tokens) ==
    \A i \in DOMAIN tokens : Cardinality({j \in 1..i : tokens[j] = "close"})
                                <= Cardinality({j \in 1..i : tokens[j] \in Opening})

\* The opening at j is still open at i.
Encloses(tokens, j, i) ==
    /\ j < i /\ tokens[j] \in Opening
    /\ \A k \in j..i : Depth(tokens, k) >= Depth(tokens, j)

InPublic(tokens, i) ==
    LET around == {j \in DOMAIN tokens : Encloses(tokens, j, i) /\ tokens[j] # "namespace"}
        inner == CHOOSE j \in around : \A k \in around : k <= j
        said == {k \in inner..i : tokens[k] \in Access /\ Depth(tokens, k) = Depth(tokens, inner)}
        last == CHOOSE k \in said : \A l \in said : l <= k
    IN around = {} \/ /\ tokens[inner] \in Types
                      /\ IF said = {} THEN tokens[inner] = "struct" ELSE tokens[last] = "public"

CountsPublicDeclarations(tokens) ==
    Balanced(tokens) =>
        parse_hpp_functions(tokens) =
            {i \in DOMAIN tokens : tokens[i] = "decl" /\ InPublic(tokens, i)}

-----------------------------------------------------------------------------
(* Sources.  A line is [indented, is, calls]: what it is once trimmed, and *)
(* the names in it that an opening parenthesis follows, in order, whether  *)
(* it defines, calls or mentions them.  A name is [qualifier, name], with  *)
(* qualifier what stands before it and "::", if that does.                 *)

LineKinds == {"code", "tag", "comment", "blank"}
Names(lines) == UNION {ToSet(lines[i].calls) : i \in DOMAIN lines}

\* Only what stands at column 0, comments included; and of a name without a
\* qualifier only the first place in the line is looked at.
Mentions(line, d) ==
    /\ ~line.indented
    /\ IF d.qualifier = ""
         THEN \E i \in DOMAIN line.calls :
                /\ line.calls[i] = d
                /\ \A j \in 1..(i - 1) : line.calls[j].name # d.name
         ELSE d \in ToSet(line.calls)

\* The line that is taken for the definition is the first one that mentions it.
DefinedAt(lines, d, i) ==
    Mentions(lines[i], d) /\ \A j \in 1..(i - 1) : ~Mentions(lines[j], d)

\* Slip: the search upwards does not stop at a line of code.
TaggedAnywhere(lines, i) == \E t \in 1..(i - 1) : lines[t].is = "tag"

TaggedAbove(lines, i) ==
    \E t \in 1..(i - 1) :
        lines[t].is = "tag" /\ \A j \in t..(i - 1) : lines[j].is \in {"tag", "comment"}

func_has_tag_above(lines, d) ==
    \E i \in DOMAIN lines : DefinedAt(lines, d, i) /\ TaggedAbove(lines, i)

\* The numbers for a header that declares the functions in turn, overloads repeated.
scan_func_coverage(decls, lines) ==
    [total |-> Len(decls),
     covered |-> Cardinality({i \in DOMAIN decls : func_has_tag_above(lines, decls[i])})]

\* As sources are formatted: a line of code begins one function at most, and no
\* comment mentions a function before a parenthesis.
OneNamePerLine(lines) ==
    \A i \in DOMAIN lines :
        lines[i].calls # <<>> => lines[i].is = "code" /\ Len(lines[i].calls) = 1

(* A tag is spent on one line of code: the lines that are taken for         *)
(* definitions and found tagged are no more than the tags, however all of   *)
(* them lie.  It is so for the functions too where a line names one at most *)
(* and no comment does: no tag then covers two functions (REQ-TRACE018).    *)
(* Otherwise it may: two functions defined in one line share its tag, and a *)
(* comment that mentions a function stands for its definition.              *)
OneTagOneLine(lines) ==
    LET tags == {t \in DOMAIN lines : lines[t].is = "tag"}
        tagged == {i \in DOMAIN lines : lines[i].is = "code" /\ TaggedAbove(lines, i)
                                          /\ \E d \in Names(lines) : DefinedAt(lines, d, i)}
    IN Cardinality(tagged) <= Cardinality(tags)

OneTagOneFunction(decls, lines) ==
    LET tags == {t \in DOMAIN lines : lines[t].is = "tag"}
    IN /\ OneTagOneLine(lines)
       /\ OneNamePerLine(lines) /\ IsInjective(decls)
            => scan_func_coverage(decls, lines).covered <= Cardinality(tags)

=============================================================================
