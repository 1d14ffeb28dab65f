\* Two logins at a time, one period.
CONSTANTS
    Reqs = {r1, r2}
    MaxSecrets = 1
    FirstStep = 3
    MaxStep = 3
SPECIFICATION Spec
INVARIANT SingleUse
