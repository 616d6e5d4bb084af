SPECIFICATION Spec
CONSTANTS
    Malformed = Malformed
    Flags <- AllFlags
    Envs <- AllEnvs
    Files <- AllFiles
    Names <- AllNames
    Variable <- AllVariables
    RateModulus = 1000000
    PortModulus = 65536
INVARIANTS TypeOK RealExecutionIsMeant DefaultsAgree
