SPECIFICATION SearchSpec
CONSTANTS
    FiniteSizes <- DefaultSizes
    TableLengths = {1, 2, 3, 4, 5, 6, 7, 8, 9, 10, 11, 12, 13, 14, 15, 16, 17, 20, 31, 32, 33, 44, 45}
    Requests <- AllRequests
    NoLimit = 2147483647
INVARIANTS
    SearchExact
    FormulaAgrees
PROPERTIES
    SearchEnds
CHECK_DEADLOCK FALSE
