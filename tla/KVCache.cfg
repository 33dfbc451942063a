CONSTANTS
    Requests = {1, 2, 3}
    Content <- Conversations
    BlockSize = 2
    NumBlocks = 4
SPECIFICATION OrderlySpec
INVARIANTS
    BlocksSound
    CacheSound
    ChainsPrefixClosed
