------------------------------ MODULE MCExample -------------------------------
(***************************************************************************)
(* Instances of Example for TLC.                                           *)
(***************************************************************************)
EXTENDS Example

CONSTANTS r1, r2

-----------------------------------------------------------------------------
(* Templates: an expression of one or two terms between two raw parts.     *)
(* Generated code passes texts only; lists and maps are what the tests of  *)
(* the package pass.                                                       *)

Raw(text) == [raw |-> text, op |-> "none", terms |-> <<>>]

Template(op, terms) ==
    <<Raw(<<"/">>), [raw |-> <<>>, op |-> op, terms |-> terms], Raw(<<"u">>)>>

\* One term, with a modifier at most, for what becomes of a value.
Text == {<<>>, <<"u">>, <<"/">>, <<"u", " ">>, <<"u", "u">>, <<"h", "h", "/">>, <<"%", "u">>,
         <<"%", "h", "h">>, <<"u", "%", "h", "h", " ">>, <<"lead", "cont">>, <<"u", "lead", "cont", "/">>}

Value ==
    [type: {"string"}, v: Text]
    \cup [type: {"list"}, v: {<<>>, <<<<"u">>>>, <<<<>>>>, <<<<"u", "u">>, <<"/">>>>, <<<<>>, <<"u">>>>,
                              <<<<"lead", "cont">>, <<"%", "h", "h">>>>}]
    \cup [type: {"map"}, v: {<<>>, <<<<<<"u">>, <<"/">>>>>>,
                             <<<<<<"u">>, <<"/">>>>, <<<<"u", "u">>, <<" ">>>>>>,
                             <<<<<<"u">>, <<"%", "h", "h">>>>>>, <<<<<<"u">>, <<>>>>>>}]

Term == {t \in [name: {"a"}, explode: BOOLEAN, truncate: {0, 1, 2}] : ~(t.explode /\ t.truncate > 0)}

OneTerm ==
    [template: {Template(o, <<t>>) : o \in DOMAIN Operators, t \in Term},
     values: [{"a"} -> Value], source: {NoMedia}]

\* Two terms, of which one may be undefined, for what comes between them.
Pair == {<<s, t>> : s \in [name: {"a"}, explode: BOOLEAN, truncate: {0}],
                    t \in [name: {"b"}, explode: BOOLEAN, truncate: {0}]}

PairValue ==
    [type: {"string"}, v: {<<>>, <<"u">>}]
    \cup [type: {"list"}, v: {<<>>, <<<<"u">>>>, <<<<>>, <<"u">>>>}]
    \cup [type: {"map"}, v: {<<>>, <<<<<<"u">>, <<"/">>>>, <<<<"u", "u">>, <<" ">>>>>>}]

TwoTerms ==
    [template: {Template(o, p) : o \in DOMAIN Operators, p \in Pair},
     values: UNION {[d -> PairValue] : d \in {{"a"}, {"b"}, {"a", "b"}}}, source: {NoMedia}]

PathCalls == OneTerm \cup TwoTerms

-----------------------------------------------------------------------------
(* Media: strings.Reader and the like, files, and readers of any kind.     *)

Reader ==
    [kind: {"lengther"}, seek: {"ok"}, typed: BOOLEAN, start: {0, 1}, size: 1..MaxSize, failsAt: {0}]
    \cup [kind: {"seeker"}, seek: {"ok", "fails", "stuck"}, typed: BOOLEAN, start: {0, 1},
          size: 1..MaxSize, failsAt: {0, 2}]
    \cup [kind: {"plain"}, seek: {"fails"}, typed: BOOLEAN, start: {0}, size: 0..MaxSize, failsAt: {0, 2}]

MediaCalls == [template: {<<>>}, values: {<<>>}, source: Reader]

AllCalls == PathCalls \cup MediaCalls
====
