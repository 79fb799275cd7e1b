\* Hash trees of an image that is not whole blocks, and of small blocks.
SPECIFICATION Spec
CONSTANTS
    empty = empty
    tree = tree
    image = image
    odd = odd
    remote = remote
    Empty = empty
    Trees = {empty, tree}
    Files = {image, odd}
    Remotes = {remote}
    Size <- Sizes
    BlockSize <- BlockSizes
    HashBlock = 2
    MaxRuns = 2
    Cuts = {FALSE}
INVARIANTS
    TableFindsTree
CHECK_DEADLOCK FALSE
