SPECIFICATION FairSpec
CONSTANT RunControl = {8, 9}
PROPERTY QuitModesStop
CHECK_DEADLOCK FALSE
