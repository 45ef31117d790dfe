CONSTANTS
    Procs <- MC_Procs
    Freqs <- MC_Freqs
    FreqDomain <- MC_FreqDomain
SPECIFICATION Spec
INVARIANTS
    TypeOK
    FrequencyTableCorrect
    ReadWaitsForInterrupt
