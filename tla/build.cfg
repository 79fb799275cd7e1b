\* Four runs on one workspace with sources of every kind.
SPECIFICATION Spec
CONSTANTS
    empty = empty
    tree = tree
    image = image
    odd = odd
    remote = remote
    Empty = empty
    Trees = {empty, tree}
    Files = {image, odd}
    Remotes = {remote}
    Size <- Sizes
    BlockSize <- BlockSizes
    HashBlock = 2
    MaxRuns = 4
    Cuts = {FALSE, TRUE}
INVARIANTS
    TypeOK
    AcceptedIsWhole
    TableFindsTreeOtherwise
CHECK_DEADLOCK FALSE
