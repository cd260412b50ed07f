----------------------------- MODULE IndexName -----------------------------
(***************************************************************************)
(* Output index patterns: src/internal/domain/indexname/index.go, as the   *)
(* configuration validates them, finalization resolves them and the index  *)
(* templates of adapters/sink/opensearch/template.go generalise them.  A   *)
(* pattern is a sequence of characters in which the names yyyy, MM and dd  *)
(* are one character each, and so is the text a name is replaced by.       *)
(***************************************************************************)
EXTENDS Integers, Sequences

DateName == {"yyyy", "MM", "dd"}
Value == [n \in DateName |-> CASE n = "yyyy" -> "2026" [] n = "MM" -> "11" [] n = "dd" -> "15"]

\* The first position from i on that holds c, or 0.
RECURSIVE IndexByte(_, _, _)
IndexByte(s, i, c) == IF i > Len(s) THEN 0 ELSE IF s[i] = c THEN i ELSE IndexByte(s, i + 1, c)

\* Every opening brace from i on starts a known placeholder.
RECURSIVE KnownPlaceholders(_, _)
KnownPlaceholders(s, i) ==
    LET start == IndexByte(s, i, "{")
        end == IndexByte(s, start + 1, "}")
    IN  \/ start = 0
        \/ /\ end = start + 2
           /\ s[start + 1] \in DateName
           /\ KnownPlaceholders(s, end + 1)

\* The pattern without its first to last braced group.
RECURSIVE Unbraced(_)
Unbraced(s) ==
    LET start == IndexByte(s, 1, "{")
        end == IndexByte(s, start + 1, "}")
    IN  IF start = 0 \/ end = 0 THEN s
        ELSE Unbraced(SubSeq(s, 1, start - 1) \o SubSeq(s, end + 1, Len(s)))

\* Faulty variant: a closing brace without an opening one passes.
ValidIndexOpening(s) == KnownPlaceholders(s, 1)

ValidIndex(s) ==
    /\ KnownPlaceholders(s, 1)
    /\ IndexByte(Unbraced(s), 1, "}") = 0

\* strings.ReplaceAll for a three-character text, left to right.
RECURSIVE ReplaceAll3(_, _, _)
ReplaceAll3(s, old, new) ==
    IF Len(s) < 3 THEN s
    ELSE IF SubSeq(s, 1, 3) = old THEN new \o ReplaceAll3(SubSeq(s, 4, Len(s)), old, new)
    ELSE <<Head(s)>> \o ReplaceAll3(Tail(s), old, new)

\* The placeholders, replaced one name after the other.
Substitute(s, by) ==
    LET r1 == ReplaceAll3(s, <<"{", "yyyy", "}">>, <<by["yyyy"]>>)
        r2 == ReplaceAll3(r1, <<"{", "MM", "}">>, <<by["MM"]>>)
    IN  ReplaceAll3(r2, <<"{", "dd", "}">>, <<by["dd"]>>)

\* Resolve, for one date.
ResolveIndex(s) == Substitute(s, Value)

\* Adjacent wildcards collapse until nothing changes.
RECURSIVE Collapse(_)
Collapse(s) ==
    LET dots == ReplaceAll3(s, <<"*", ".", "*">>, <<"*">>)
        dashes == ReplaceAll3(dots, <<"*", "-", "*">>, <<"*">>)
        next == ReplaceAll3(dashes, <<"*", "_", "*">>, <<"*">>)
    IN  IF next = s THEN s ELSE Collapse(next)

WildcardPattern(s) == Collapse(Substitute(s, [n \in DateName |-> "*"]))

\* OpenSearch: does an index name match a pattern of an index template?
RECURSIVE IndexMatches(_, _)
IndexMatches(pattern, name) ==
    IF pattern = << >> THEN name = << >>
    ELSE IF Head(pattern) = "*"
    THEN \E k \in 1..(Len(name) + 1) : IndexMatches(Tail(pattern), SubSeq(name, k, Len(name)))
    ELSE name # << >> /\ Head(name) = Head(pattern) /\ IndexMatches(Tail(pattern), Tail(name))
=============================================================================
