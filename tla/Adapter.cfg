SPECIFICATION FairSpec
CONSTANTS
    Pings = TRUE
    Lifetime = TRUE
    MaxDials = 2
    MaxErrs = 6
INVARIANT StateTruthful
PROPERTIES PatientRedial Reconnects AdapterStops
CHECK_DEADLOCK FALSE
