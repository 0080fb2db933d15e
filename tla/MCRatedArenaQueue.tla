------------------------- MODULE MCRatedArenaQueue -------------------------
EXTENDS RatedArenaQueue

CONSTANTS low, mid, high

MCFaction == [g \in Groups |-> IF g = low THEN "horde" ELSE "alliance"]
MCRating == [g \in Groups |-> CASE g = low -> 2 [] g = mid -> 6 [] g = high -> 9]
=============================================================================
