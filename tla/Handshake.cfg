CONSTANT MaxCells = 3
SPECIFICATION FairSpec
INVARIANT FlipAlone
PROPERTIES FlipEnds BarrierEnds
