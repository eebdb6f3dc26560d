------------------------------ MODULE XmlTexts ------------------------------
(* Small XML texts with the events they stand for.  A piece is a record of   *)
(* text and events; documents are made of pieces, and spoilt in one place.   *)
EXTENDS Integers, Sequences, SequencesExt

CONSTANT NUL

Piece(text, events) == [text |-> text, events |-> events]

Both(x, y) == Piece(x.text \o y.text, x.events \o y.events)

All(pieces) == FoldLeft(Both, Piece(<<>>, <<>>), pieces)

PCDATA == Piece(<<"x", "\n">>, <<<<"pcdata", <<"x", "\n">>>>>>)
CDATA == Piece(<<"<", "!", "[", "CDATA[", "]", "<", "]", "]", ">">>, <<<<"cdata", <<"]", "<">>>>>>)
COMMENT == Piece(<<"<", "!", "-", "-", "-", ">", "-", "-", ">">>, <<<<"comment", <<"-", ">">>>>>>)
HEADER == Piece(<<"<", "?", "a", "?", ">">>, <<<<"comment", <<"?", "a", "?">>>>>>)
DOCTYPE == Piece(<<"<", "!", "DOCTYPE", "[", ">", "]", ">">>, <<<<"doctype", <<"[", ">", "]">>>>>>)

\* An attribute as it is printed, spaces in all places; value and its quotes.
Attribute(name, value, quote) ==
    <<" ", name, " ", "=", "\n", quote>> \o value \o <<quote>>

None == <<>>
One == Attribute("a", <<"'">>, "\"")
Two == One \o Attribute("b", <<"\"", ">">>, "'")

Attributes(text) == (IF text # None THEN {<<<<"a">>, <<"'">>>>} ELSE {})
                    \union (IF text = Two THEN {<<<<"b">>, <<"\"", ">">>>>} ELSE {})

Empty(name, atts) ==
    Piece(<<"<", name>> \o atts \o <<"/", ">">>,
          <<<<"xml", <<name>>, Attributes(atts)>>, <<"done">>>>)

\* What has no content but comments has an empty text at its end.
Filled(events) ==
    IF \E i \in DOMAIN events : events[i][1] \in {"xml", "pcdata", "cdata"}
      THEN events ELSE Append(events, <<"pcdata", <<>>>>)

Element(name, atts, content) ==
    Piece(<<"<", name>> \o atts \o <<" ", ">">> \o content.text \o <<"<", "/", name, " ", ">">>,
          <<<<"xml", <<name>>, Attributes(atts)>>>> \o Filled(content.events) \o <<<<"done">>>>)

\* Contents: up to two nodes, no two texts side by side.
Leaves == {PCDATA, CDATA, COMMENT, HEADER, DOCTYPE, Empty("a", None), Empty("b", Two)}

Pairs(S) == {Both(x, y) : x, y \in S} \ {Both(PCDATA, PCDATA)}

Contents == {All(<<>>)} \union Leaves \union Pairs(Leaves)

Inner == {Element("b", One, d) : d \in Leaves}

Documents == Contents
             \union {Element("a", atts, d) : atts \in {None, Two}, d \in Contents}
             \union {Element("a", One, d) : d \in Inner \union Pairs({COMMENT, PCDATA, Element("b", Two, CDATA)})}
             \union {Both(Element("a", None, x), Element("b", None, y)) : x, y \in {PCDATA, Empty("a", None)}}

Good == {[text |-> d.text, verdict |-> "good", events |-> Filled(d.events)] : d \in Documents}

\* Elements that overlap, are not closed or not open, attributes that come twice,
\* an element without a name.
Bad == {[text |-> t, verdict |-> "bad", events |-> <<>>] : t \in
          {<<"<", "a", ">">>, <<"<", "/", "a", ">">>, <<"<", "a", ">", "<", "/", "b", ">">>,
           <<"<", "a", ">", "<", "b", ">", "<", "/", "a", ">", "<", "/", "b", ">">>,
           <<"<", "a", ">", "<", "/", " ", "a", ">">>,
           <<"<", "a">> \o One \o One \o <<"/", ">">>, <<"<", "/", ">">>, <<"<", ">">>,
           <<"<", "a", ">", "<", "/", ">">>, <<"<", "a", "/", "a">>, <<"<", "a", " ", "b", "/", ">">>}
          \union {Element("a", atts, d).text \o <<"<", "/", "a", ">">> : atts \in {None, Two}, d \in Leaves}
          \union {SubSeq(Element("a", Two, d).text, 1, n) : d \in Leaves, n \in 1..10}}

\* Texts with one character changed, or cut off: most of them are refused.
Spoilt == {[text |-> t, verdict |-> "open", events |-> <<>>] :
             t \in UNION {UNION {{[d.text EXCEPT ![n] = x] : x \in {"<", ">", "-", "]", "!"}} \union {SubSeq(d.text, 1, n)}
                                  : n \in 1..Len(d.text)}
                          : d \in {Element("a", None, e) : e \in Leaves \union {Both(HEADER, CDATA)}}}}

AllTexts == Good \union Bad \union Spoilt
=============================================================================
