----------------------------- MODULE UriTemplate ------------------------------
(***************************************************************************)
(* google-api-go-client/googleapi/internal/uritemplates: the expansion of a *)
(* parsed template, and what RFC 6570 says it is.                          *)
(*                                                                         *)
(* A text is a sequence of bytes, of which these matter: "u" unreserved    *)
(* and "h" as well, but a hexadecimal digit, "/" reserved, "%", " " none   *)
(* of these, and "lead" and "cont", the two bytes of a character that is   *)
(* not ASCII.  An encoded byte is one token.  A map is the sequence of its *)
(* pairs in the order `range' happens to take them.                        *)
(***************************************************************************)
EXTENDS Naturals, FiniteSets, Sequences, SequencesExt

\* What parseExpression makes of the character an expression begins with.
Simple == [first |-> <<>>, sep |-> <<",">>, named |-> FALSE, ifemp |-> <<>>, allowReserved |-> FALSE]

Operators ==
    [plus     |-> [Simple EXCEPT !.allowReserved = TRUE],
     dot      |-> [Simple EXCEPT !.first = <<".">>, !.sep = <<".">>],
     slash    |-> [Simple EXCEPT !.first = <<"/">>, !.sep = <<"/">>],
     semi     |-> [Simple EXCEPT !.first = <<";">>, !.sep = <<";">>, !.named = TRUE],
     question |-> [Simple EXCEPT !.first = <<"?">>, !.sep = <<"&">>, !.named = TRUE, !.ifemp = <<"=">>],
     amp      |-> [Simple EXCEPT !.first = <<"&">>, !.sep = <<"&">>, !.named = TRUE, !.ifemp = <<"=">>],
     hash     |-> [Simple EXCEPT !.first = <<"#">>, !.allowReserved = TRUE],
     none     |-> Simple]

\* pctEncode, one byte.
pctEncode(byte) ==
    CASE byte = "/" -> "%2F" [] byte = " " -> "%20" [] byte = "%" -> "%25"
      [] byte = "lead" -> "%C3" [] byte = "cont" -> "%A9"

\* Byte by byte: the "%" of a triplet is not in either of the two lists.
escape(s, allowReserved) ==
    [i \in DOMAIN s |->
        IF s[i] \in {"u", "h"} \/ (s[i] = "/" /\ allowReserved) THEN s[i] ELSE pctEncode(s[i])]

\* s[:t.truncate]: bytes.
Truncated(t, s) == IF Len(s) > t.truncate /\ t.truncate > 0 THEN SubSeq(s, 1, t.truncate) ELSE s

expandName(p, name, empty) ==
    IF ~p.named THEN <<>> ELSE <<name>> \o (IF empty THEN p.ifemp ELSE <<"=">>)

expandString(p, t, s) ==
    expandName(p, t.name, Truncated(t, s) = <<>>) \o escape(Truncated(t, s), p.allowReserved)

\* Mutant of expandArray: the separator of the operator between all values.
expandArrayExploded(p, t, a) ==
    LET Value(i) ==
          (IF i = 1 THEN <<>> ELSE p.sep)
          \o (IF t.explode THEN expandName(p, t.name, Truncated(t, a[i]) = <<>>) ELSE <<>>)
          \o escape(Truncated(t, a[i]), p.allowReserved)
    IN  IF a = <<>> THEN <<>>
        ELSE (IF t.explode THEN <<>> ELSE expandName(p, t.name, FALSE))
             \o FlattenSeq([i \in DOMAIN a |-> Value(i)])

\* The separator is written before every value but the first.
expandArray(p, t, a) ==
    LET Value(i) ==
          (IF i = 1 THEN <<>> ELSE IF t.explode THEN p.sep ELSE <<",">>)
          \o (IF t.explode THEN expandName(p, t.name, Truncated(t, a[i]) = <<>>) ELSE <<>>)
          \o escape(Truncated(t, a[i]), p.allowReserved)
    IN  IF a = <<>> THEN <<>>
        ELSE (IF t.explode THEN <<>> ELSE expandName(p, t.name, FALSE))
             \o FlattenSeq([i \in DOMAIN a |-> Value(i)])

\* The separator is written once something has been.
expandMap(p, t, m) ==
    LET Pair(buf, kv) ==
          buf \o (IF buf = <<>> THEN <<>> ELSE IF t.explode THEN p.sep ELSE <<",">>)
              \o escape(kv[1], p.allowReserved)
              \o (IF t.explode THEN <<"=">> ELSE <<",">>)
              \o escape(kv[2], p.allowReserved)
    IN  IF m = <<>> THEN <<>>
        ELSE (IF t.explode THEN <<>> ELSE expandName(p, t.name, FALSE))
             \o FoldLeft(Pair, <<>>, m)

expandTerm(p, t, value) ==
    CASE value.type = "string" -> expandString(p, t, value.v)
      [] value.type = "list"   -> expandArray(p, t, value.v)
      [] value.type = "map"    -> expandMap(p, t, value.v)

\* templatePart.expand: terms without a value are skipped, the separator is
\* written once the buffer holds more than `first', and `first' is taken back
\* when nothing followed it.
expandPart(p, terms, values) ==
    LET Term(buf, t) ==
          IF t.name \notin DOMAIN values THEN buf
          ELSE buf \o (IF Len(buf) # Len(p.first) THEN p.sep ELSE <<>>)
                   \o expandTerm(p, t, values[t.name])
        all == FoldLeft(Term, p.first, terms)
    IN  IF Len(all) = Len(p.first) THEN <<>> ELSE all

TruncatesMap(terms, values) ==
    \E i \in DOMAIN terms :
        /\ terms[i].name \in DOMAIN values
        /\ values[terms[i].name].type = "map"
        /\ terms[i].truncate > 0

\* UriTemplate.Expand: an error, or the parts one after the other.
Expandable(template, values) ==
    \A i \in DOMAIN template : template[i].raw = <<>> => ~TruncatesMap(template[i].terms, values)

Expand(template, values) ==
    FlattenSeq([i \in DOMAIN template |->
        IF template[i].raw # <<>> THEN template[i].raw
        ELSE expandPart(Operators[template[i].op], template[i].terms, values)])

-----------------------------------------------------------------------------
(* RFC 6570, sections 2.4.1, 3.2.1 and appendix A.                         *)

\* The table of appendix A.
RfcFirst(op) == CASE op = "dot" -> <<".">> [] op = "slash" -> <<"/">> [] op = "semi" -> <<";">>
                  [] op = "question" -> <<"?">> [] op = "amp" -> <<"&">> [] op = "hash" -> <<"#">>
                  [] OTHER -> <<>>
RfcSep(op)   == IF op \in {"question", "amp"} THEN <<"&">>
                ELSE IF op \in {"dot", "slash", "semi"} THEN RfcFirst(op) ELSE <<",">>
RfcIsNamed(op)  == op \in {"semi", "question", "amp"}
RfcIfEmpty(op)  == IF op \in {"question", "amp"} THEN <<"=">> ELSE <<>>
RfcReserved(op) == op \in {"plus", "hash"}

\* The bytes that belong to triplets, which reserved expansion copies.
TripletBytes(s) ==
    UNION {i..(i + 2) : i \in {k \in DOMAIN s : /\ k + 2 \in DOMAIN s
                                             /\ SubSeq(s, k, k + 2) = <<"%", "h", "h">>}}

RfcEncode(op, s) ==
    LET Copied(i) == \/ s[i] \in {"u", "h"}
                     \/ RfcReserved(op) /\ (s[i] = "/" \/ i \in TripletBytes(s))
    IN  [i \in DOMAIN s |-> IF Copied(i) THEN s[i] ELSE pctEncode(s[i])]

\* Where a character begins: a prefix counts characters, and takes a triplet
\* that is copied for one.
CharStarts(op, s) ==
    {i \in DOMAIN s : /\ s[i] # "cont"
                      /\ RfcReserved(op) /\ i \in TripletBytes(s) => s[i] = "%"}

RfcPrefix(op, t, s) ==
    LET starts == CharStarts(op, s)
    IN  IF t.truncate = 0 \/ Cardinality(starts) <= t.truncate THEN s
        ELSE LET next == CHOOSE i \in starts :
                            Cardinality({k \in starts : k < i}) = t.truncate
             IN  SubSeq(s, 1, next - 1)

\* A name with its value as the operator writes it.
RfcNamed(op, name, text) ==
    IF ~RfcIsNamed(op) THEN text
    ELSE IF text = <<>> THEN name \o RfcIfEmpty(op) ELSE name \o <<"=">> \o text

RfcJoin(texts, sep) ==
    FlattenSeq([i \in DOMAIN texts |-> IF i = 1 THEN texts[i] ELSE sep \o texts[i]])

RfcTerm(op, t, value) ==
    LET Text(s) == RfcEncode(op, s)
        Texts   == [i \in DOMAIN value.v |-> Text(value.v[i])]
        Flat    == FlattenSeq([i \in DOMAIN value.v |-> <<Text(value.v[i][1]), Text(value.v[i][2])>>])
        Pairs   == [i \in DOMAIN value.v |->
                      LET k == Text(value.v[i][1])  s == Text(value.v[i][2])
                      IN  IF RfcIsNamed(op) THEN RfcNamed(op, k, s) ELSE k \o <<"=">> \o s]
    IN  CASE value.type = "string" -> RfcNamed(op, <<t.name>>, Text(RfcPrefix(op, t, value.v)))
          [] value.type = "list" /\ ~t.explode -> RfcNamed(op, <<t.name>>, RfcJoin(Texts, <<",">>))
          [] value.type = "list" /\ t.explode ->
               RfcJoin([i \in DOMAIN Texts |-> RfcNamed(op, <<t.name>>, Texts[i])], RfcSep(op))
          [] value.type = "map" /\ ~t.explode -> RfcNamed(op, <<t.name>>, RfcJoin(Flat, <<",">>))
          [] value.type = "map" /\ t.explode -> RfcJoin(Pairs, RfcSep(op))

\* Lists and maps without members count as undefined.
RfcDefined(t, values) ==
    t.name \in DOMAIN values /\ (values[t.name].type # "string" => values[t.name].v # <<>>)

RfcPart(op, terms, values) ==
    LET Defined(t) == RfcDefined(t, values)
        defined    == SelectSeq(terms, Defined)
    IN  IF defined = <<>> THEN <<>>
        ELSE RfcFirst(op) \o RfcJoin([i \in DOMAIN defined |->
                                        RfcTerm(op, defined[i], values[defined[i].name])], RfcSep(op))

\* A prefix does not apply to values that have members: an error.
RfcApplicable(template, values) ==
    \A i \in DOMAIN template : \A k \in DOMAIN template[i].terms :
        LET t == template[i].terms[k]
        IN  t.truncate > 0 /\ RfcDefined(t, values) => values[t.name].type = "string"

RfcExpand(template, values) ==
    FlattenSeq([i \in DOMAIN template |->
        IF template[i].raw # <<>> THEN template[i].raw
        ELSE RfcPart(template[i].op, template[i].terms, values)])

-----------------------------------------------------------------------------
(***************************************************************************)
(* Where the package is known to differ from the RFC, though it calls      *)
(* itself an implementation of its level 4:                                *)
(*   - a text, list or map of length zero, or a list of one empty text:    *)
(*     the separator after it may be missing, or one is written before it, *)
(*     and `first' before nothing is dropped;                              *)
(*   - an exploded map under ";", whose empty values get a "=";            *)
(*   - a triplet under "+" or "#", which is encoded once more;             *)
(*   - a prefix of a text with a character of several bytes, of which it   *)
(*     counts the bytes and may keep a part;                               *)
(*   - a prefix of a list, which it applies to each member.                *)
(***************************************************************************)
TextsOf(value) ==
    CASE value.type = "string" -> {value.v}
      [] value.type = "list"   -> ToSet(value.v)
      [] value.type = "map"    -> UNION {ToSet(value.v[i]) : i \in DOMAIN value.v}

Departs(template, values) ==
    \E i \in DOMAIN template : \E k \in DOMAIN template[i].terms :
        LET t     == template[i].terms[k]
            value == values[t.name]
        IN  /\ t.name \in DOMAIN values
            /\ \/ value.v \in {<<>>, <<<<>>>>}
               \/ /\ value.type = "map" /\ t.explode /\ template[i].op = "semi"
                  /\ \E m \in DOMAIN value.v : value.v[m][2] = <<>>
               \/ /\ RfcReserved(template[i].op)
                  /\ \E s \in TextsOf(value) : TripletBytes(s) # {}
               \/ /\ t.truncate > 0
                  /\ value.type = "list" \/ \E s \in TextsOf(value) : "lead" \in ToSet(s)
=============================================================================
