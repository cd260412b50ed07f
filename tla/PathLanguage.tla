--------------------------- MODULE PathLanguage ---------------------------
(***************************************************************************)
(* The path language rules are written in: src/internal/domain/path/       *)
(* path.go.  An expression is a sequence of characters (one-letter         *)
(* strings) after the leading "$."; a compiled path is a sequence of key   *)
(* and index segments.  Canonical is what is persisted with every open     *)
(* flow and compared by the configuration's shared-key check.              *)
(***************************************************************************)
EXTENDS Integers, Sequences

CONSTANT MaxInt  \* the largest Go int

KeySegment(key) == [isKey |-> TRUE, key |-> key, index |-> 0]
IndexSegment(n) == [isKey |-> FALSE, key |-> << >>, index |-> n]

Digit == [c \in {"0", "1", "2", "3", "4", "5", "6", "7", "8", "9"} |->
            CHOOSE n \in 0..9 : <<"0", "1", "2", "3", "4", "5", "6", "7", "8", "9">>[n + 1] = c]

\* Compile's result for an expression it refuses.
Invalid == << >>

\* The first position from i on that holds a character of Stop.
RECURSIVE Scan(_, _, _)
Scan(expr, i, Stop) ==
    IF i > Len(expr) \/ expr[i] \in Stop THEN i ELSE Scan(expr, i + 1, Stop)

RECURSIVE ScanDigits(_, _)
ScanDigits(expr, i) ==
    IF i > Len(expr) \/ expr[i] \notin DOMAIN Digit THEN i ELSE ScanDigits(expr, i + 1)

\* The number strconv.Atoi reads off digits.
RECURSIVE Atoi(_)
Atoi(s) == IF s = << >> THEN 0
           ELSE 10 * Atoi(SubSeq(s, 1, Len(s) - 1)) + Digit[s[Len(s)]]

\* The body of a quoted key from position i on: the position behind the closing
\* quote, or 0 if the expression ends or an escape is unknown.
RECURSIVE Quoted(_, _, _)
Quoted(expr, i, key) ==
    IF i > Len(expr) THEN [next |-> 0, key |-> key]
    ELSE IF expr[i] = "\"" THEN [next |-> i + 1, key |-> key]
    ELSE IF expr[i] = "\\"
    THEN IF i + 1 > Len(expr) \/ expr[i + 1] \notin {"\"", "\\"} THEN [next |-> 0, key |-> key]
         ELSE Quoted(expr, i + 2, Append(key, expr[i + 1]))
    ELSE Quoted(expr, i + 1, Append(key, expr[i]))

\* One bracket, from the character behind "[": its segment and the position
\* behind "]", or position 0 if it is malformed.
Bracket(expr, i) ==
    IF i <= Len(expr) /\ expr[i] = "\""
    THEN LET quoted == Quoted(expr, i + 1, << >>)
             j == quoted.next
         IN  [segment |-> KeySegment(quoted.key),
              next |-> IF j = 0 \/ j > Len(expr) THEN 0 ELSE IF expr[j] = "]" THEN j + 1 ELSE 0]
    ELSE LET negative == i <= Len(expr) /\ expr[i] = "-"
             digits == IF negative THEN i + 1 ELSE i
             j == ScanDigits(expr, digits)
             sign == IF negative THEN -1 ELSE 1
             n == sign * Atoi(SubSeq(expr, digits, j - 1))
         IN  [segment |-> IndexSegment(n),
              next |-> IF digits = j \/ j > Len(expr) THEN 0
                       ELSE IF expr[j] = "]" /\ n \in (-MaxInt - 1)..MaxInt THEN j + 1 ELSE 0]

\* The segments from position i on: a bare key, brackets, a dot, and so on.
RECURSIVE Segments(_, _, _), Brackets(_, _, _)
Segments(expr, i, path) ==
    LET j == Scan(expr, i, {".", "["})
    IN  IF j = i THEN Invalid
        ELSE Brackets(expr, j, Append(path, KeySegment(SubSeq(expr, i, j - 1))))
Brackets(expr, i, path) ==
    IF i > Len(expr) THEN path
    ELSE IF expr[i] = "["
    THEN LET bracket == Bracket(expr, i + 1)
         IN  IF bracket.next = 0 THEN Invalid
             ELSE Brackets(expr, bracket.next, Append(path, bracket.segment))
    ELSE IF expr[i] # "." THEN Invalid
    ELSE Segments(expr, i + 1, path)

\* Compile, behind "$.".
Compile(expr) == Segments(expr, 1, << >>)
----------------------------------------------------------------------------
IsBareCanonicalKey(key) ==
    /\ key # << >>
    /\ \A i \in DOMAIN key : key[i] \notin {".", "["}
    /\ \E i \in DOMAIN key : key[i] \notin DOMAIN Digit

\* Faulty variant: only quotes are escaped.
RECURSIVE EscapeQuotes(_)
EscapeQuotes(key) ==
    IF key = << >> THEN << >>
    ELSE (IF Head(key) = "\"" THEN <<"\\", "\"">> ELSE <<Head(key)>>) \o EscapeQuotes(Tail(key))

\* The replacer that escapes backslashes and quotes.
RECURSIVE Escape(_)
Escape(key) ==
    IF key = << >> THEN << >>
    ELSE (IF Head(key) \in {"\\", "\""} THEN <<"\\", Head(key)>> ELSE <<Head(key)>>)
         \o Escape(Tail(key))

\* The digits of a number, as %d prints it.
RECURSIVE Itoa(_)
Itoa(n) ==
    IF n < 0 THEN <<"-">> \o Itoa(-n)
    ELSE (IF n < 10 THEN << >> ELSE Itoa(n \div 10))
         \o <<CHOOSE c \in DOMAIN Digit : Digit[c] = n % 10>>

RECURSIVE Spell(_)
Spell(path) ==
    IF path = << >> THEN << >>
    ELSE LET part == Head(path)
         IN  (IF ~part.isKey THEN <<"[">> \o Itoa(part.index) \o <<"]">>
              ELSE IF IsBareCanonicalKey(part.key) THEN <<".">> \o part.key
              ELSE <<"[", "\"">> \o Escape(part.key) \o <<"\"", "]">>)
             \o Spell(Tail(path))

\* Canonical, behind "$.": the first key is always written bare.
Canonical(path) == Head(path).key \o Spell(Tail(path))
=============================================================================
