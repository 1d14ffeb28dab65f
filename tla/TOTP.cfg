\* Two requests at a time, two secrets, two periods.
CONSTANTS
    Reqs = {r1, r2}
    MaxSecrets = 2
    FirstStep = 3
    MaxStep = 4
SPECIFICATION Spec
SYMMETRY Symmetry
INVARIANTS TypeOK EnabledMeansConfirmed BaselineNotAhead SingleUseSequential
