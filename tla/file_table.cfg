CONSTANTS
    NPROC <- MC_NPROC_TINY
    TERM_CAP <- MC_TERM_CAP
    NFD <- MC_NFD_TINY
    Kinds <- MC_Kinds
    WILD = WILD
SPECIFICATION Spec
INVARIANT TypeOK
INVARIANT StdStreamsOpen
