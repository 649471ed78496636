\* Streams with indirect lengths, and compressed objects.
SPECIFICATION Spec
CONSTANTS
    Nums <- MCNums
    Offs <- MCOffs
    Documents <- StreamAndLengthDocs
    Clients = {FALSE}
    Direct = Direct
    MaxCalls = 2
    MaxDepth = 16

    
PROPERTIES
    LookupReturns
CHECK_DEADLOCK FALSE
