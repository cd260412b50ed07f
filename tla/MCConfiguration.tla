--------------------------- MODULE MCConfiguration ---------------------------
(* Files for TLC: one rule with any short key or index, and up to three    *)
(* rules that may conflict.                                                *)
EXTENDS Configuration

MCKeyToken == {<<c>> : c \in {"a", "0", ".", "[", "]", "\"", "\\", "-"}} \cup {<<"\"", "]">>}
MCIndexToken ==
    {<<c>> : c \in {"a", "-", "{", "}"}} \cup {<<"{", "yyyy", "}">>, <<"{", "dd", "}">>}

\* Keys to start from: a bare one, and one whose next segment is being quoted.
KeyStart == {<<"a">>, <<"]">>, <<"a", "[", "\"">>}
\* Indexes on both sides of MaxInt.
IndexedKeys ==
    {<<"a", "[">> \o sign \o n \o <<"]">> :
        sign \in {<< >>, <<"-">>}, n \in [1..3 -> {"0", "1", "2", "7", "8"}]}

Off == [enabled |-> FALSE, index |-> << >>, timestamp |-> << >>, buffer |-> 0, batch |-> 0, flush |-> 0]
On(index, batch) ==
    [enabled |-> TRUE, index |-> index, timestamp |-> <<"a">>, buffer |-> 2, batch |-> batch, flush |-> 1]
Quiet == [enabled |-> FALSE, index |-> << >>, interval |-> 0, age |-> 0]
Alert(index) == [enabled |-> TRUE, index |-> index, interval |-> 1, age |-> 1]

Rule(id, key, index, enabled, promote) ==
    [id |-> id, key |-> key, index |-> index, enabled |-> enabled, promote |-> promote,
     eventType |-> << >>, timestamp |-> << >>, timeout |-> 1, stitch |-> << >>]
Config(rules, passthrough, alerts) ==
    [rules |-> rules, maxDLQ |-> 1, passthrough |-> passthrough, alerts |-> alerts,
     state |-> [driver |-> "memory", path |-> << >>]]

A == <<"a">>
Field(t) == [name |-> "f", type |-> t, from |-> "", path |-> A]
\* Two spellings of one path, and another path.
Spelled == {<<"a", ".", "a">>, <<"a", "[", "\"", "a", "\"", "]">>, <<"a", "[", "0", "]">>}
Rivals(id) ==
    {Rule(id, key, index, enabled, promote) :
        key \in Spelled, index \in {A, <<"{", "dd", "}">>}, enabled \in BOOLEAN,
        promote \in {{}, {Field("long")}, {Field("date")}}}

\* One rule with two stitch rules and a promotion from a role.
Role(name, types) == [name |-> name, kind |-> "list", types |-> types]
Stitch(roles, requires) ==
    [kind |-> "mapping", roles |-> roles, requires |-> requires, groupBy |-> {A}]
Stitched ==
    {[Rule(1, A, A, TRUE, {[Field(t) EXCEPT !.from = f]}) EXCEPT
        !.timeout = timeout,
        !.stitch = <<Stitch({Role("req", <<"x">>), Role("res", types)}, q),
                     Stitch({Role("req", more)}, {})>>] :
        t \in {"long", "text"}, f \in {"last", "res", "ack"}, timeout \in {0, 1},
        types \in {<<"y">>, <<"y", "y">>, <<"x">>}, q \in {{"req", "res"}, {"ack"}},
        more \in {<<"z">>, <<"y">>}}

\* Rules in which one path or one role may be malformed.
Malformed ==
    {[Rule(1, A, A, TRUE, {[Field("long") EXCEPT !.path = promoted]}) EXCEPT
        !.eventType = e, !.timestamp = ts,
        !.stitch = <<[Stitch({[Role("req", <<"x">>) EXCEPT !.kind = role]}, {}) EXCEPT
                        !.groupBy = {group}]>>] :
        promoted \in {A, << >>}, e \in {<< >>, A, <<".">>}, ts \in {<< >>, <<"a", "[">>},
        group \in {A, <<"a", ".">>}, role \in {"string", "other"}}
    \cup {[Rule(1, A, A, TRUE, {}) EXCEPT
            !.stitch = <<[Stitch({}, {}) EXCEPT !.kind = kind]>>] : kind \in {"absent", "other"}}

Other == Rule(2, <<"0">>, A, TRUE, {})
MCFile ==
    {Config(<<Rule(1, key, A, TRUE, {})>>, Off, Quiet) : key \in KeyStart}
    \cup {Config(<<Rule(1, A, <<"{", "dd", "}">>, TRUE, {})>>, Off, Quiet)}
    \cup {Config(<<r, Other>>, Off, Quiet) :
            r \in Malformed \cup Stitched \cup {Rule(1, key, A, TRUE, {}) : key \in IndexedKeys}}
    \cup {Config(<<r, s, t>>, Off, Quiet) :
            r \in {x \in Rivals(1) : x.index = A}, s \in Rivals(2),
            t \in {Rule(3, A, A, TRUE, {Field("long")}), Rule(2, A, A, FALSE, {})}}
    \cup {Config(<<r, Rule(2, <<"0">>, <<"0">>, TRUE, {})>>, p, a) : r \in {Rule(1, A, A, TRUE, {}), Rule(1, A, <<"-">>, TRUE, {})},
            p \in {Off, On(A, 2), On(A, 3), On(<<"-">>, 1), On(<<"{">>, 1)},
            a \in {Quiet, Alert(A), Alert(<<"-">>), Alert(<< >>)}}
    \cup {Config(<< >>, Off, Quiet), Config(<<Rule(0, A, A, TRUE, {})>>, Off, Quiet)}
    \cup {[Config(<<Rule(1, A, A, TRUE, {}), Other>>, Off, Quiet) EXCEPT
            !.maxDLQ = n, !.state = [driver |-> d, path |-> p]] :
            n \in {0, 1}, d \in {"memory", "pebble", "bolt"}, p \in {<< >>, A}}
=============================================================================
