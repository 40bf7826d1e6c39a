SPECIFICATION Spec
CONSTANT MaxFrames = 5
INVARIANTS TypeOK NoUseAfterDelete OnlyWindowLeaks
PROPERTY HandedInOrder
CHECK_DEADLOCK FALSE
