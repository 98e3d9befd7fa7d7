SPECIFICATION Spec
CONSTANTS
    main = main
    vfs = vfs
    Threads = {main}
    elemsPerBlock = 2
    MaxBlocks = 5
INVARIANT TypeOK
INVARIANT ListsPartition
INVARIANT CountersAgree
INVARIANT Swept
PROPERTY PoolSpec
