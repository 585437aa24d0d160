SPECIFICATION FairSpec
PROPERTIES
    CleanLineIsHeard
