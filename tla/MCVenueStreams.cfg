\* Every stream of every adapter, over two connections that end and two moves
\* of the market.
CONSTANTS
    Prices = {1, 2, 3}
    Depth = 1
    Scope = 1
    MaxBackoff = 3
    MaxTrades = 2
    MaxMoves = 2
    MaxDrops = 2
SPECIFICATION FairSpec
INVARIANTS
    CopiesExplained
    BookIsMarket
PROPERTIES
    CrossedOnlyWhenStale
    LinkComesBack
CHECK_DEADLOCK FALSE
