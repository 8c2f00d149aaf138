--------------------------- MODULE MCForegroundRun ---------------------------
EXTENDS ForegroundRun

CONSTANTS a, b

Pairs == {<<<<a>>, <<a>>>>, <<<<a>>, <<b>>>>, <<<<a, b>>, <<>>>>}

Three == {<<<<a>>, <<b>>, <<b>>>>}

One == {<<<<a>>>>}
=============================================================================
