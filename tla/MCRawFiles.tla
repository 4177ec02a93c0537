----------------------------- MODULE MCRawFiles -----------------------------
(* Instances of RawFiles: names that meet after sanitizeFilename, a longer *)
(* and a shorter body.                                                    *)
EXTENDS RawFiles

CONSTANTS long, short

MCSize == [b \in Bodies |-> IF b = long THEN 2 ELSE 1]

\* No name, "x", "../x", "....x", " xxxx ", "/".
MCNames == {<<>>, <<"x">>, <<".", ".", "/", "x">>, <<".", ".", ".", ".", "x">>,
            <<Space, "x", "x", "x", "x", Space>>, <<"/">>}

MCTimestamp == [s \in 0..MaxSecond |-> ToString(s)]

Symmetric == Permutations(Conns)
=============================================================================
