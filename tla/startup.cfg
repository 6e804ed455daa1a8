SPECIFICATION FairSpec
CONSTANTS
    Processes = {p1, p2}
    Environments <- MCEnvironments
    Schemas <- MCSchemas
    MaxInt32 = 2
    MaxDisruptions = 2
INVARIANTS ServesSoundly
PROPERTIES SchemaInSteps EventuallyServes
