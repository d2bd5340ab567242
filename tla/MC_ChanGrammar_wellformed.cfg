CONSTANTS
    HtTable <- MCHtTable
    MaxHtChannel <- MCMaxHtChannel
    Nums <- MCNums
    Centers <- MCCenters
    Words <- MCWords
    Null = Null
SPECIFICATION Spec
INVARIANT DescriptorWellFormed
