\* auto_recover 3 with factor 2 (the spec's failure-and-recovery scenario).
CONSTANTS
    AutoRecover = 3
    Factors = {2}
SPECIFICATION Spec
PROPERTY QuietRunnerForgetsFailures
