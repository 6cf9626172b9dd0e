\* Four nodes shared by three lists, two of which have the same tag.
CONSTANTS
    NodeCount = 4
    Lists <- MCLists
    TagOf <- MCTagOf
SPECIFICATION Spec
INVARIANTS
    ListsValidate
    LinkedIffListed
PROPERTY ImplementsSequences
