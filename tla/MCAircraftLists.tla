--------------------------- MODULE MCAircraftLists ---------------------------
EXTENDS AircraftLists, TLC

CONSTANTS a1, a2

\* every reader scans aircraftActive, as json and apiUpdate do
ScanActive(r) == Active

\* every reader scans a tile, as globeBin does
ScanTile(r) == CHOOSE t \in Tiles : TRUE

\* two aircraft nobody locates, so that the second moves into the gap the first one leaves,
\* or one that changes its tile
TwoOrLocated == {[a \in {a1, a2} |-> {NoTile}],
                 a1 :> (Tiles \union {NoTile}) @@ a2 :> {}}

=============================================================================
