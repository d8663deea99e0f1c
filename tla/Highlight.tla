----------------------------- MODULE Highlight -----------------------------
(* lcl-highlight.js of the playground: a lexical highlighter for LCL.  A     *)
(* regular expression with ordered alternatives cuts a source into tokens,   *)
(* highlight() turns them into markup, and the editor shows this markup      *)
(* behind its textarea.  Pure: no variables.  The expression is translated   *)
(* piece by piece, with the order in which a backtracking engine tries       *)
(* matches; beside it stands what a reader of LCL expects, a scanner that    *)
(* goes through a source once and never backs up.                            *)
EXTENDS Naturals, Sequences, SequencesExt

CONSTANT Values   \* the contents of an editor that are checked

\* A source is a sequence of characters.  Some letters stand for all of Unicode's
\* ID_Start, some keywords for all of them, and any character in no class for
\* one of the rest.
Line    == {"\n", "\r"}
Space   == Line \cup {" ", "\t"}
Digit   == {"0", "1", "2", "3", "4", "5", "6", "7", "8", "9"}
Letter  == {"_", "a", "b", "c", "d", "e", "f", "g", "h", "i", "l", "n", "o", "r", "s", "t",
            "x", "B", "E", "F", "R", "X", "O"}
Hex     == Digit \cup {"_", "a", "b", "c", "d", "e", "f", "B", "E", "F"}
Symbol  == {"+", "-", "*", "/", "%", "@", "&", "|", "^", "~", "<", ">", "="}
Bracket == {"(", ")", "[", "]", "{", "}", ",", ".", ":"}
Pair    == {"**", "//", "<<", ">>", "<=", ">=", "==", "!=", "?.", "??", "->"}
Keyword == {"and", "or", "not", "if", "else", "for", "in", "is", "true", "false", "none"}

ASSUME HighlightAssumption == \A v \in Values : v \in Seq(STRING)
-----------------------------------------------------------------------------
(* Matchers.  For every place of the source where a match may begin, the     *)
(* places where it may end, the preferred one first.                         *)

Places(s) == 1..(Len(s) + 1)
Ends(m, begins) == FlattenSeq([k \in DOMAIN begins |-> m[begins[k]]])

One(s, C)     == [i \in Places(s) |-> IF i <= Len(s) /\ s[i] \in C THEN <<i + 1>> ELSE <<>>]
Except(s, C)  == [i \in Places(s) |-> IF i <= Len(s) /\ s[i] \notin C THEN <<i + 1>> ELSE <<>>]
Then(m, n)    == [i \in DOMAIN m |-> Ends(n, m[i])]
Or(m, n)      == [i \in DOMAIN m |-> m[i] \o n[i]]
Maybe(m)      == [i \in DOMAIN m |-> Append(m[i], i)]
Many(m)       == LET f[i \in DOMAIN m] == Append(Ends(f, m[i]), i) IN f
Few(m)        == LET f[i \in DOMAIN m] == <<i>> \o Ends(f, m[i]) IN f
Some(m)       == Then(m, Many(m))
Unless(m, n)  == [i \in DOMAIN m |-> IF m[i] = <<>> THEN n[i] ELSE <<>>]
Finish(s)     == [i \in Places(s) |-> IF i = Len(s) + 1 THEN <<i>> ELSE <<>>]
Before(s, C)  == [i \in Places(s) |-> IF i <= Len(s) /\ s[i] \in C THEN <<i>> ELSE <<>>]
Triple(s, q)  == Then(One(s, {q}), Then(One(s, {q}), One(s, {q})))
-----------------------------------------------------------------------------
(* The alternatives of "pattern", in their order.                            *)

Escaped(s) == Then(One(s, {"\\"}), Except(s, {}))

\* a string in three quotes, and one in single ones; either may be unfinished
Long(s, q) == Then(Triple(s, q),
              Then(Few(Or(Escaped(s), Unless(Triple(s, q), Except(s, {"\\"})))),
                   Or(Triple(s, q), Finish(s))))
Short(s, q) == Then(One(s, {q}),
               Then(Many(Or(Escaped(s), Except(s, {q, "\\"} \cup Line))),
                    Or(One(s, {q}), Or(Before(s, Line), Finish(s)))))
Quote == {"\"", "'"}
Prefix(s) == LET letter == One(s, {"r", "R", "b", "B", "f", "F"})
             IN  Maybe(Or(Then(letter, letter), letter))
String(s) == Then(Prefix(s), Or(Or(Long(s, "\""), Long(s, "'")),
                                Or(Short(s, "\""), Short(s, "'"))))

Based(s, marks, digits) == Then(One(s, {"0"}), Then(One(s, marks), Some(One(s, digits))))
Digits(s) == Then(One(s, Digit), Many(One(s, Digit \cup {"_"})))
Number(s) ==
    LET tail == Many(One(s, Digit \cup {"_"}))
        plain == Or(Then(Digits(s), Maybe(Then(One(s, {"."}), tail))),
                    Then(One(s, {"."}), Digits(s)))
        exponent == Then(One(s, {"e", "E"}),
                    Then(Maybe(One(s, {"+", "-"})), Some(One(s, Digit \cup {"_"}))))
    IN  Or(Or(Based(s, {"x", "X"}, Hex), Based(s, {"b", "B"}, {"0", "1", "_"})),
        Or(Based(s, {"o", "O"}, {"0", "1", "2", "3", "4", "5", "6", "7", "_"}),
           Then(plain, Maybe(exponent))))

Operator(s) == [i \in Places(s) |-> IF i > Len(s) THEN <<>>
                   ELSE (IF i < Len(s) /\ s[i] \o s[i + 1] \in Pair THEN <<i + 2>> ELSE <<>>) \o
                        One(s, Symbol)[i]]

Kinds == <<"space", "comment", "string", "number", "name", "operator", "punctuation", "text">>
Pattern(s) == [space       |-> Some(One(s, Space)),
               comment     |-> Then(One(s, {"#"}), Many(Except(s, Line))),
               string      |-> String(s),
               number      |-> Number(s),
               name        |-> Then(One(s, Letter), Many(One(s, Letter \cup Digit))),
               operator    |-> Operator(s),
               punctuation |-> One(s, Bracket),
               text        |-> Except(s, {})]
-----------------------------------------------------------------------------
\* tokenize(): the sticky expression is applied until it fails.  A token is the
\* slice from "first" to "last" with its kind.
Tokenize(s) ==
    LET pattern == Pattern(s)
        from[i \in Places(s)] ==
            LET matching == SelectSeq(Kinds, LAMBDA k : pattern[k][i] # <<>>) IN
            IF matching = <<>> THEN <<>>
            ELSE LET next == pattern[matching[1]][i][1]
                     word == FlattenSeq(SubSeq(s, i, next - 1))
                     kind == IF matching[1] = "name" /\ word \in Keyword THEN "keyword"
                                                                         ELSE matching[1]
                 IN  <<[kind |-> kind, first |-> i, last |-> next - 1]>> \o from[next]
    IN  from[1]

\* mutant: quotes are escaped, angle brackets are not
EscapeQuotes(c) == CASE c = "&" -> "&amp;" [] c = "\"" -> "&quot;" [] c = "'" -> "&#39;" [] OTHER -> c
Escape(c) == CASE c = "&"  -> "&amp;"
               [] c = "<"  -> "&lt;"
               [] c = ">"  -> "&gt;"
               [] c = "\"" -> "&quot;"
               [] c = "'"  -> "&#39;"
               [] OTHER    -> c

\* highlight(): a sequence of characters, character references and tags
Markup(s) ==
    LET tokens == Tokenize(s)
        html(t) == LET body == [k \in 1..(t.last - t.first + 1) |-> Escape(s[t.first + k - 1])]
                   IN  IF t.kind \in {"space", "text"} THEN body
                       ELSE <<"<span>">> \o body \o <<"</span>">>
    IN  FlattenSeq([k \in DOMAIN tokens |-> html(tokens[k])])

\* mutant: the backdrop gets the value as it is
Bare(value) == value
\* update(): the source of the backdrop of an editor
Shown(value) == Append(value, "\n")
-----------------------------------------------------------------------------
(* The browser, for the text of innerHTML.                                   *)

Reference(c) == CASE c = "&amp;" -> "&" [] c = "&lt;" -> "<" [] c = "&gt;" -> ">"
                  [] c = "&quot;" -> "\"" [] c = "&#39;" -> "'" [] OTHER -> c
\* the text of some markup: tags, and what would be read as one, are not in it
TextContent(html) ==
    LET data == SelectSeq(html, LAMBDA y : y \notin {"<span>", "</span>", "<", ">", "&"})
    IN  [k \in DOMAIN data |-> Reference(data[k])]

(* The reference scanner: what it is in before each character.               *)
Code == [in |-> "code", quote |-> " ", long |-> FALSE, skip |-> 0, closing |-> FALSE]
Opens(s, i, q) == i + 2 <= Len(s) /\ \A k \in i..(i + 2) : s[k] = q
AfterChar(s, i, was) ==
    LET c == s[i] IN
    CASE was.skip > 0 -> IF was.skip = 1 /\ was.closing THEN Code ELSE [was EXCEPT !.skip = @ - 1]
      [] was.skip = 0 /\ was.in = "comment" -> IF c \in Line THEN Code ELSE was
      [] was.in = "code" -> CASE c = "#" -> [Code EXCEPT !.in = "comment"]
                              [] c \in Quote -> [Code EXCEPT !.in = "string", !.quote = c,
                                                     !.long = Opens(s, i, c),
                                                     !.skip = IF Opens(s, i, c) THEN 2 ELSE 0]
                              [] OTHER -> Code
      [] was.skip = 0 /\ was.in = "string" ->
            CASE c = "\\" -> [was EXCEPT !.skip = 1]
              [] c = was.quote /\ was.long -> IF Opens(s, i, c)
                                              THEN [was EXCEPT !.skip = 2, !.closing = TRUE] ELSE was
              [] c \in {was.quote} \cup Line /\ ~was.long -> Code
              [] OTHER -> was
Region(s) ==
    LET before[i \in Places(s)] == IF i = 1 THEN Code ELSE AfterChar(s, i - 1, before[i - 1])
        breaks(i) == s[i] \in Line /\ before[i].skip = 0 /\ ~before[i].long
    IN  [i \in DOMAIN s |-> IF breaks(i) THEN "code"
                            ELSE IF before[i].in # "code" THEN before[i].in
                            ELSE AfterChar(s, i, before[i]).in]

\* render() into a backdrop, and what the browser shows of it
Backdrop(value) == TextContent(Markup(Shown(value)))
-----------------------------------------------------------------------------
\* the contents that a backdrop shows otherwise than they are
Distorted == {v \in Values : Backdrop(v) # Shown(v)}

Coloured(s, t, i) ==   \* what a character of a token is in; a string begins at its quote
    CASE t.kind = "comment" -> "comment"
      [] t.kind = "string" -> IF \E j \in t.first..i : s[j] \in Quote THEN "string" ELSE "code"
      [] OTHER -> "code"
Longest(s, t) ==
    LET next == IF t.last < Len(s) THEN s[t.last + 1] ELSE "" IN
    CASE t.kind = "operator" -> t.first = t.last => s[t.first] \o next \notin Pair
      [] t.kind \in {"name", "keyword"} -> next \notin Letter \cup Digit
      [] t.kind = "space" -> next \notin Space
      [] OTHER -> TRUE

\* the contents that it colours otherwise than a scanner reads them
Miscoloured == {v \in Values : LET s == Shown(v) IN
                   \E t \in ToSet(Tokenize(s)) :
                      \/ \E i \in t.first..t.last : Coloured(s, t, i) # Region(s)[i]
                      \/ ~Longest(s, t)}
=============================================================================
