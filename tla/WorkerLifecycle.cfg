SPECIFICATION Spec
INVARIANTS
    AllOrNothing
    NothingReleasedTwice
PROPERTIES
    ForeignFileKept
