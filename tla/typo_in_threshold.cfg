SPECIFICATION Spec
CONSTANTS
    Requests <- MCRequests
    Configurations <- MCConfigurations
    DatabaseFailures = {"P1001", "P2024", "PrismaClientUnknownRequestError", "Error"}
    TickLength = 30
    LastMinute = 90
    NoToken = NoToken
    Nothing = Nothing
INVARIANT
    TyposAreLoud
