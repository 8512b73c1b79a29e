SPECIFICATION FairSpec
CONSTANT MaxFailures = 2
PROPERTY AuthorOnly
CHECK_DEADLOCK FALSE
