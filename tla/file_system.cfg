CONSTANTS
    BLOCK <- MC_BLOCK
    Blocks <- MC_Blocks
    Inodes <- MC_Inodes
    Dentries <- MC_Dentries
    NFD <- MC_NFD
    Names <- MC_Names
    RtcNames <- MC_RtcNames
    DotNames <- MC_DotNames
    Sizes <- MC_Sizes
    NoName = NoName
SPECIFICATION Spec
INVARIANTS
    FileReadsInOrder
    DirReadsInOrder
