SPECIFICATION Spec
CONSTANTS
    Mission = {m1, m2}
    NoMission = none
INVARIANTS WorksOnOwnRepository
