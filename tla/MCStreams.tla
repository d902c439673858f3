------------------------------ MODULE MCStreams ------------------------------
(* Small instances of Streams for TLC.                                      *)
EXTENDS Streams, TLC

CONSTANTS traffic, weather, ra, rb, s1, s2

Object(road, time, record, available) ==
    [form |-> "object", road |-> road, time |-> time, record |-> record, available |-> available,
     letter |-> "whole"]

Early    == Object(ra, 1, s1, 1)
Again    == Object(ra, 1, s1, 2)      \* the same event, published by a later poll
Ahead    == Object(ra, 3, s1, 3)
Behind   == Object(ra, 2, s2, 4)      \* happened before Ahead, known after it
Old      == Object(rb, 0, s1, 5)      \* published long after it happened
Elsewhere == Object(rb, 5, s1, 5)
Undated  == Object(ra, None, s1, 1)
Early2   == Object(ra, 4, s1, 1)      \* available before it happens
Keyless  == Object(None, 1, s1, 1)
Blank    == [Early2 EXCEPT !.letter = "keyless"]       \* its event_id is of blanks
Garbled  == [Undated EXCEPT !.letter = "unencodable"]
BlankOk  == [Ahead EXCEPT !.letter = "keyless"]        \* valid: no dead letter is made
Array    == [Early EXCEPT !.form = "array"]
Text     == [Early EXCEPT !.form = "text"]

Backlog(first, second) == [t \in Topics |-> IF t = Traffic THEN first ELSE second]

\* Orders of one road's readings, with another road's ahead of them.
Mixtures == {Backlog(s, <<>>) :
    s \in {<<Early, Again, Ahead>>, <<Early, Ahead, Behind>>,
           <<Ahead, Elsewhere, Behind>>, <<Early, Ahead, Elsewhere>>,
           <<Old, Elsewhere, Ahead>>}}
\* What normalization can meet, in both kinds of topic.
Oddities == {Backlog(<<a, b>>, <<c>>) : a \in {Early, Undated, Keyless, Blank},
                                        b \in {BlankOk, Early2}, c \in {Early2, Garbled}}
            \cup {Backlog(<<Array, Ahead>>, <<Early2>>), Backlog(<<Early, Ahead>>, <<Text>>)}
Everything == Mixtures \cup Oddities

Leak == {Backlog(<<Ahead, Behind, Elsewhere>>, <<>>)}
=============================================================================
