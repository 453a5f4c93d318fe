SPECIFICATION FairSpec
CONSTANT Cap = 4
INVARIANTS TypeOK NoSlotRace NoUseAfterFree NoLeak
PROPERTY DestroyEnds
