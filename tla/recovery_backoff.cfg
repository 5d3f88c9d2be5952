\* The default auto_recover of 120 with factor 2.
CONSTANTS
    AutoRecover = 120
    Factors = {2}
SPECIFICATION Spec
PROPERTY BackoffNonDecreasing
