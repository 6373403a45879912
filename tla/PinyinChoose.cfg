SPECIFICATION PinyinSpec
CONSTANTS
 Lemmas <- MCLemmas
 InitialOf <- MCInitialOf
 Queries <- MCQueries
 Clients = {"ime", "sync"}
 PreAlloc = 1
 CacheSize = 1
 LpiMax = 4
 Limit = 2
 Ratio = 34
 MaxFreq = 1
 MaxBlock = 3
 MaxSyncs = 1
 Alphabet <- MCAlphabet
 Shengmu = {"n", "z"}
 Yunmu = {"a"}
 HalfStrs <- MCHalfStrs
 Syllables <- MCSyllables
 TableSize = 7
 ProbeStep = 123
 Table <- MCTable
 Lexicon <- MCLexicon
 UserPsb = 1
 MaxLen = 3
 MaxLemma = 3
 MaxExt = 4
 NodesARow = 2
 Pruning = 100
 MaxSpellings = 2
 XiAn = FALSE
 Szm = TRUE
 Careful = FALSE
 MaxLearnt = 1
 HalfRange <- MCHalfRange
 HalfOf <- MCHalfOf
 YunmuHalf = {1}
 Wider <- MCWider
 RawFiles <- MCRawFiles
 Again <- MCAgain
 MaxChars = 4
 MinFreq = 60
 TopLemmas = 3
 MaxLpi = 20
 MaxExtendBuf = 2
 CacheLen = 1
 MaxMarks = 20
 MaxStones = 20
 IdRange = 20
 OneFile = TRUE
 Objects = {"ime", "sync"}
 Stored = {"a", "b"}
 MaxTime = 4
 BookSize = 3
 BufferLen = 3
 MaxLine = 4
 FreqLists <- MCFreqLists
 Files <- MCFiles
INVARIANT
 AssertionsHold
CHECK_DEADLOCK FALSE
