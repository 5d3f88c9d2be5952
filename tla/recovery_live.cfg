\* auto_recover 40: powers of 2, 3 and 8 all pass INT_MAX below it.
CONSTANTS
    AutoRecover = 40
    Factors <- MC_Factors
SPECIFICATION Spec
INVARIANT TypeOK
PROPERTY FailedEventuallyLeaves
