----------------------------- MODULE MCScanMerge -----------------------------
(* ScanMerge on small instances.  "three": boxes, duplicated boxes, polygons, *)
(* an empty file, labels left to the reference and accepted or refused by it. *)
(* "two": labels over the limits.  "texts": every text of a few lines, boxes  *)
(* and polygons at, inside and beyond the bounds, odd widths, unusual tokens. *)
EXTENDS ScanMerge

SomeNumber == [t \in {"0", "0.5", "1", "1.2"} |->
    CASE t = "0" -> 0 [] t = "0.5" -> 100 [] t = "1" -> 200 [] t = "1.2" -> 240]
TwoShapes == [c \in {"wide", "tall"} |-> c]

BoxA == <<"0", "0", "0", "1", "1">>
BoxB == <<"0", "0", "0", "0", "1">>
Triangle == <<"0", "0", "0", "1", "0", "1", "1">>
Signed == <<"0", "-0", "0", "1", "0", "1", "1">>
Unclear == <<"inf", "0", "0", "1", "1">>
Refused == <<"0", "word", "0", "1", "1">>

Boxes == {<<c, x, "0.5", "1", w>> : c \in {"0", "1", "inf"}, x \in {"0", "0.5"},
                                    w \in {"0", "1.2", "-0"}}
Polygons == {<<c, "0", "0", x, "0.5", "1", "0">> : c \in {"0", "1"}, x \in {"0.5", "1.2", "-0"}}
            \cup {<<"0", "0.5", "0.5", "0", "0.5", "1", "0.5", "0", "0">>,
                  <<"inf", "0", "0", "0.5", "0.5", "1", "0">>,
                  <<"1", "0", "0", "0", "0.5", "1", "0">>}
Odd == {<<>>, <<"0">>, <<"0", "0.5", "0.5">>, <<"0", "nan", "0.5", "1", "0">>,
        <<"0", "word", "0.5", "1", "0">>, <<"0", "0", "0", "0.5", "0.5", "1">>}
Lines == Boxes \cup Polygons \cup Odd

\* A text that is read has been stripped: its last line is not blank.
Stripped == {text \in UNION {[1..n -> Lines] : n \in 0..3} : text = <<>> \/ Last(text) # <<>>}

SomeImages == [three |-> {"wide", "tall", "broken"}, two |-> {"wide", "broken"},
               texts |-> {"wide"}, infinite |-> {"wide", "broken"}]
SomeTexts ==
    [three |-> {<<>>, <<BoxA, BoxB>>, <<BoxA, BoxB, BoxA>>,
                <<Triangle, Triangle, BoxB \o <<"1", "1">>>>, <<Signed>>, <<Refused>>},
     two |-> {<<BoxA>>, <<Signed>>, <<BoxA, BoxB, BoxA>>, <<Refused>>},
     texts |-> Stripped,
     infinite |-> {<<BoxA>>, <<Unclear>>, <<Signed>>}]

Scan(name, sources, inFlight, single, snapshot, maxFile, maxFallback, changes) ==
    [dataset |-> name, sources |-> sources, inFlight |-> inFlight, single |-> single,
     snapshot |-> snapshot, maxFile |-> maxFile, maxFallback |-> maxFallback,
     maxWrites |-> changes, maxFaults |-> changes]

\* Three steady sources in chunks of two and of three; two sources with a change
\* of the dataset and a failing call; one label of up to three lines.
SomeScans ==
    {Scan("three", 3, 2, FALSE, TRUE, 100, 10, 0), Scan("three", 3, 3, FALSE, FALSE, 100, 10, 0),
     Scan("two", 2, 1, FALSE, TRUE, 10, 7, 1), Scan("two", 2, 2, FALSE, TRUE, 10, 7, 1)}
    \cup {Scan("texts", 1, 1, single, FALSE, 100, 10, 0) : single \in BOOLEAN}
    \cup {Scan("infinite", 1, 1, single, TRUE, 10, 10, 0) : single \in BOOLEAN}

InfiniteClass == {Scan("infinite", 1, 1, TRUE, TRUE, 10, 10, 0)}
=============================================================================
