SPECIFICATION CodebookSpec
CONSTANTS
 BookSize = 3
 FreqLists <- MCFreqLists
INVARIANT
 EveryCodeIsUsed
CHECK_DEADLOCK FALSE
