--------------------------- MODULE Configuration ---------------------------
(***************************************************************************)
(* The configuration from the file to the durable rule snapshot:           *)
(* src/internal/adapters/config/config.go (Load, Validate, DomainRules),   *)
(* the path language and index patterns its rules are written in, and the  *)
(* canonical spelling of a rule's key that is stored with an open flow and *)
(* read back after a restart (domain/path/path.go, MarshalJSON).           *)
(***************************************************************************)
EXTENDS PathLanguage, IndexName, SequencesExt

CONSTANTS
    File,        \* configurations an operator starts from
    KeyToken,    \* what may be typed at the end of a key
    IndexToken,  \* what may be typed at the end of an index pattern
    MaxTyped,    \* bound: tokens typed
    None         \* no value

VARIABLES
    file,      \* the configuration file
    typed,     \* tokens typed so far
    phase,     \* how far the file has come
    compiled,  \* the compiled correlation keys of the rules
    durable,   \* the canonical keys stored with flows of the rules
    restored   \* what UnmarshalJSON reads back

vars == <<file, typed, phase, compiled, durable, restored>>
----------------------------------------------------------------------------
(* Validate.                                                               *)

\* Pass-through is looked at only when it is enabled.
ValidPassthrough(p) ==
    p.enabled =>
        /\ p.index # << >>
        /\ ValidIndex(p.index)
        /\ p.timestamp = << >> \/ Compile(p.timestamp) # Invalid
        /\ p.buffer >= 1 /\ p.batch >= 1 /\ p.batch <= p.buffer /\ p.flush > 0

ValidAlerts(c) ==
    c.alerts.enabled =>
        /\ c.alerts.index # << >>
        /\ ValidIndex(c.alerts.index)
        /\ c.alerts.interval > 0 /\ c.alerts.age > 0
        /\ c.passthrough.enabled => c.alerts.index # c.passthrough.index

ValidState(s) == s.driver = "memory" \/ (s.driver = "pebble" /\ s.path # << >>)

\* decodeRoles: roles are absent or a mapping to event types, one or a list.
DecodesRoles(stitch) ==
    /\ stitch.kind \in {"absent", "mapping"}
    /\ \A role \in stitch.roles : role.kind \in {"string", "list"}

\* toDomain: every path of the rule compiles and every stitch rule decodes. The
\* paths of extract may be left out.
ToDomain(r) ==
    /\ \A path \in {r.eventType, r.timestamp} : path = << >> \/ Compile(path) # Invalid
    /\ Compile(r.key) # Invalid
    /\ \A i \in DOMAIN r.stitch :
          /\ \A path \in r.stitch[i].groupBy : Compile(path) # Invalid
          /\ DecodesRoles(r.stitch[i])
    /\ \A p \in r.promote : Compile(p.path) # Invalid

\* rule.Validate: an id (0 is the empty one), a timeout, an index, every event
\* type in one role of one stitch rule only, no requirement or promotion of an
\* undeclared role.
ValidRule(r) ==
    LET roles == UNION {r.stitch[i].roles : i \in DOMAIN r.stitch}
        claims == UNION {UNION {{<<i, role.name, k>> : k \in DOMAIN role.types}
                                  : role \in r.stitch[i].roles} : i \in DOMAIN r.stitch}
        type(claim) == (CHOOSE role \in r.stitch[claim[1]].roles : role.name = claim[2]).types[claim[3]]
    IN  /\ r.id # 0
        /\ r.timeout > 0
        /\ r.index # << >>
        /\ \A a, b \in claims : a # b => type(a) # type(b)
        /\ \A i \in DOMAIN r.stitch :
              r.stitch[i].requires \subseteq {role.name : role \in r.stitch[i].roles}
        /\ \A p \in r.promote :
              /\ p.type \in {"long", "double", "keyword", "boolean", "date"}
              /\ p.from \in {"", "first", "last"} \cup {role.name : role \in roles}

\* Faulty variant: keys are compared as they are written.
SharedKeyAsWritten(r) == r.key

\* The spelling under which an enabled rule owns its key.
SharedKey(r) == Canonical(Compile(r.key))

\* One turn of the loop over the rules: the ids seen, the owner of each key and
\* the type each promoted field has in each index so far; None once it fails.
CheckRule(c, seen, r) ==
    IF seen = None THEN None
    ELSE IF \/ ~ValidIndex(r.index)
            \/ c.alerts.enabled /\ r.index = c.alerts.index
            \/ r.id \in seen.ids
            \/ ~ToDomain(r)
            \/ ~ValidRule(r)
            \/ \E p \in r.promote, q \in seen.types :
                  q.index = r.index /\ q.name = p.name /\ q.type # p.type
            \/ r.enabled /\ SharedKey(r) \in seen.keys
    THEN None
    ELSE [ids |-> seen.ids \cup {r.id},
          types |-> {q \in seen.types : \A p \in r.promote : q.index # r.index \/ q.name # p.name}
                    \cup {[index |-> r.index, name |-> p.name, type |-> p.type] : p \in r.promote},
          keys |-> seen.keys \cup IF r.enabled THEN {SharedKey(r)} ELSE {}]

Validate(c) ==
    /\ c.rules # << >>
    /\ c.maxDLQ >= 1
    /\ ValidPassthrough(c.passthrough)
    /\ ValidAlerts(c)
    /\ ValidState(c.state)
    /\ FoldLeft(LAMBDA seen, r : CheckRule(c, seen, r),
                [ids |-> {}, types |-> {}, keys |-> {}], c.rules) # None
----------------------------------------------------------------------------
Init ==
    /\ file \in File
    /\ typed = 0
    /\ phase = "written"
    /\ compiled = << >>
    /\ durable = << >>
    /\ restored = << >>

\* The operator types, in a file of one rule, at the end of its key or its index.
Type ==
    /\ phase = "written"
    /\ Len(file.rules) = 1
    /\ typed < MaxTyped
    /\ typed' = typed + 1
    /\ LET rule == file.rules[1]
       IN  \/ /\ Len(rule.index) = 1
              /\ \E t \in KeyToken : file' = [file EXCEPT !.rules[1].key = @ \o t]
           \/ /\ Len(rule.key) = 1
              /\ \E t \in IndexToken : file' = [file EXCEPT !.rules[1].index = @ \o t]
    /\ UNCHANGED <<phase, compiled, durable, restored>>

\* config.Load: defaults are already in the file.
Load ==
    /\ phase = "written"
    /\ phase' = IF Validate(file) THEN "loaded" ELSE "refused"
    /\ UNCHANGED <<file, typed, compiled, durable, restored>>

\* DomainRules compiles every rule; a flow of each is opened and pins it.
DomainRules ==
    /\ phase = "loaded"
    /\ compiled' = [i \in DOMAIN file.rules |-> Compile(file.rules[i].key)]
    /\ phase' = "compiled"
    /\ UNCHANGED <<file, typed, durable, restored>>

\* MarshalJSON with the flow's snapshot.
Pin ==
    /\ phase = "compiled"
    /\ durable' = [i \in DOMAIN compiled |-> Canonical(compiled[i])]
    /\ phase' = "pinned"
    /\ UNCHANGED <<file, typed, compiled, restored>>

\* UnmarshalJSON after a restart.
Restore ==
    /\ phase = "pinned"
    /\ restored' = [i \in DOMAIN durable |-> Compile(durable[i])]
    /\ phase' = "restored"
    /\ UNCHANGED <<file, typed, compiled, durable>>

Next == Type \/ Load \/ DomainRules \/ Pin \/ Restore

Spec == Init /\ [][Next]_vars
----------------------------------------------------------------------------
\* path.go:198-257: the key a flow was pinned to is the key read back after a
\* restart, however it was spelled: bare, quoted with escapes, or indexed.
PathRoundTrip == phase = "restored" => restored = compiled

\* index.go:56-86: every index a rule of a loaded
\* configuration resolves to is free of braces and covered by the index
\* template printed for its pattern, so that no document lands in an index
\* without its mapping.
TemplateCovers ==
    phase = "loaded" =>
        \A i \in DOMAIN file.rules :
            LET index == file.rules[i].index
            IN  /\ \A n \in DOMAIN ResolveIndex(index) : ResolveIndex(index)[n] \notin {"{", "}"}
                /\ IndexMatches(WildcardPattern(index), ResolveIndex(index))

\* Two rules the engine could not serve together.
Conflict(c, r, s) ==
    \/ r.id = s.id
    \/ r.enabled /\ s.enabled /\ Compile(r.key) = Compile(s.key)
    \/ r.index = s.index /\ \E p \in r.promote, q \in s.promote : p.name = q.name /\ p.type # q.type

\* config.go:179 "rejects invalid settings and conflicts between rules and
\* indices": of the configurations whose rules are well formed one by one,
\* exactly those are loaded in which no two rules claim one id, one compiled
\* key path or different types for one field of one index.
ConflictsRefused ==
    LET c == file
        fine == /\ c.rules # << >> /\ c.maxDLQ >= 1 /\ ValidPassthrough(c.passthrough)
                /\ ValidAlerts(c) /\ ValidState(c.state)
                /\ \A i \in DOMAIN c.rules :
                      /\ ValidIndex(c.rules[i].index)
                      /\ ToDomain(c.rules[i])
                      /\ ValidRule(c.rules[i])
                      /\ c.alerts.enabled => c.rules[i].index # c.alerts.index
        clash == \E i, j \in DOMAIN c.rules : i < j /\ Conflict(c, c.rules[i], c.rules[j])
    IN  /\ phase = "loaded" => fine /\ ~clash
        /\ phase = "refused" => ~fine \/ clash
=============================================================================
