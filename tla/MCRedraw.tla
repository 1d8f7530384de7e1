------------------------------ MODULE MCRedraw -------------------------------
(* All texts up to a length, without tabs, and shorter ones with them.       *)
EXTENDS Redraw

UpTo(n, kinds) == UNION {[1 .. m -> kinds] : m \in 0 .. n}

MCTexts == UpTo(6, {"glyph", "newline"}) \cup UpTo(3, {"glyph", "newline", "tab"})

MCGrids == {<<1, 2>>, <<2, 1>>, <<2, 2>>, <<3, 2>>, <<3, 3>>}

==============================================================================
