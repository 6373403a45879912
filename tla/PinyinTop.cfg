SPECIFICATION DictSpec
CONSTANTS
 HalfRange <- MCHalfRange
 HalfOf <- MCHalfOf
 YunmuHalf = {1}
 Wider <- MCWider
 RawFiles <- MCRawFiles
 Again <- MCAgain
 MaxChars = 4
 MinFreq = 60
 TopLemmas = 3
 MaxLpi = 20
 MaxExtendBuf = 2
 CacheLen = 1
 MaxMarks = 20
 MaxStones = 20
 IdRange = 20
 OneFile = TRUE
INVARIANT
 TopIsBest
CHECK_DEADLOCK FALSE
