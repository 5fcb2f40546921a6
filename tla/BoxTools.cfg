SPECIFICATION Spec
CHECK_DEADLOCK FALSE
CONSTANT
 CharOrder <- Order
 LongWidth = 7
 IntWidth = 5
 Stat <- SomeStat
 Lstat <- SomeLstat
 Terminals = {1}
 Euid = 1
 Egid = 1
 Groups = {1}
 Regex <- SomeRegex
 StatPath <- TreeStat
 LstatPath <- TreeLstat
 Entries <- TreeEntries
 Matches <- SameText
 ModeBits <- Bits
 Now = 100
 Day = 10
 Minute = 4
 Block = 4
 StartFiles <- Files
 Hash <- SomeHash
 MinTries = 256
 TestJobs <- SomeTests
 ExprJobs <- SomeExprs
 FindJobs <- SomeFinds
 FileJobs <- SomeFileJobs
 DiffJobs <- SomeDiffs
 PatchJobs <- SomePatches
 ZipJobs <- SomeZips
 Byte = 3
 LITERALS = 8
 WSIZE = 14
 MAX_MATCH = 5
 TOO_FAR = 4
 max_chain_length = 8
 max_lazy_match = 5
 good_match = 4
 nice_match = 5
 HASH_SIZE = 8
 H_SHIFT = 1
 Xor <- SomeXor
 extra_lbits <- ExtraL
 extra_dbits <- ExtraD
 MAX_BITS = 4
 MAX_BL_BITS = 3
 bl_order <- BlOrder
 StaticLen <- FewBits
 StaticDist = 2
 LIT_BUFSIZE = 32
 DIST_BUFSIZE = 32
 Tried = 4
 RepBits <- Bits112
 CountBits <- Bits223
 LenBits = 2
 Mix <- Mixed
 cplens <- CopyLens
 cplext <- CopyExt
 cpdist <- CopyDist
 cpdext <- ExtraD
 border <- BlOrder
 LitBits = 3
 DistBits = 1
 Stale = 0
 OUTBUFSIZ = 8
 RegexJobs <- SomeRegexes
 SedJobs <- SomeSeds
 CharCode <- CodeOf
 Alphabet <- Signs
 Lower <- SmallLetter
 WordChars <- InWords
 ClassOf <- Classes
 MAX_REGNUM = 255
 MAX_BUF_SIZE = 65536
 RE_DUP_MAX = 32767
 INIT_FAILURE_ALLOC = 5
 re_max_failures = 9
INVARIANT
 AnswersAsPosix
 FilesKept
 DeltasTell
 RestoresData
