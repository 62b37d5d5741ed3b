CONSTANTS
    Names <- MCNames
    Headers <- MCHeaders
    Words <- MCWords
    Lines <- MCLines
    PrefixOrder <- MCPrefixOrder
    ColumnNames <- MCColumnNames
    FullName <- MCFullName
    SpecFiles <- MCSpecFiles
    GEOCODE_SIZE = 4
    MaxRows = 3
SPECIFICATION Spec
INVARIANTS
    TypeOK
    CellsUnderHeaders
    HeaderKeepsNames
    NoDuplicateColumns
    BatchFits
