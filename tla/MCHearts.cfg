SPECIFICATION FairSpec
CONSTANTS
    a = a
    b = b
    row1 = row1
    row2 = row2
    cell1 = cell1
    cell2 = cell2
    Recipe = {a, b}
    Title <- OneTitle
    Rows = {row1, row2}
    Contents <- TwoRows
    Cells = {cell1, cell2}
    MaxCopies = 2
    NoRow = NoRow
    NoTap = NoTap
    NoRead = NoRead
INVARIANTS
    TypeOK
    HeartsAgree
    TapFlips
PROPERTIES
    SecondCopyByStaleHeart
    HeartsSettle
