SPECIFICATION FairSpec
CONSTANTS
    p1 = p1
    p2 = p2
    c1 = c1
    c2 = c2
    Thread <- MCSmallThread
    Program <- MCSmallProgram
    Workers = {c1}
    MaxSize = 2
    MaxItems = 2
PROPERTY
    CloseReleasesAll
