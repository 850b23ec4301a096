\* Every combination of the options of one claim beside another claim.
SPECIFICATION Spec
CONSTANTS
    Mappings <- MappingSet
    Entries <- EntrySet
    Forced <- ForcedNames
    UriAttr = "uri"
    UrlOf <- UrlTable
    LabelOf <- LabelTable
    Pieces <- PieceTable
    Swap <- SwapTable
    Parsed <- JsonTable
    Suffixed <- SuffixTable
    Lowered <- LowerTable
INVARIANTS TypeOK ClaimsAsDocumented FailsOnlyUnfit
