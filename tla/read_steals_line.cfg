CONSTANTS
    NTERM <- MC_NTERM
    KB_BUF_SIZE <- MC_KB_BUF_SIZE
    NUM_COLS <- MC_NUM_COLS
    NUM_ROWS <- MC_NUM_ROWS
    PROMPT_LEN <- MC_PROMPT_LEN
    INDEX_MOD <- MC_INDEX_MOD
    Chars <- MC_Chars
    Keys <- MC_Keys
    NUL = NUL
SPECIFICATION Spec
PROPERTY
    ReadCopiesOwnLine
