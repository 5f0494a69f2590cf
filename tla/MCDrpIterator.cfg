\* Every order of Next, SetLooping and SetDone on every small pattern.
CONSTANTS
    Rates <- MCRates
    Patterns <- MCPatterns
SPECIFICATION Spec
INVARIANTS
    TypeOK
    PeekIsFirst
PROPERTY PlaysPattern
