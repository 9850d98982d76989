SPECIFICATION Spec
CONSTANTS
    Sectors = 5
    Block = 2
    Word = 6
INVARIANTS
    TypeOK
    BadDataMeansFailure
    FilesNeedVolume

    
