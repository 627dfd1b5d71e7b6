--------------------------- MODULE MCPresentation ---------------------------
EXTENDS Presentation

CONSTANTS s1, a, b

MCSlots == {s1}
MCFields == {"name", "sid", "crosshair", "flair", "clan"}
MCValues == {a, b}
===============================================================================
