CONSTANTS
  Values = {{1}}
  Pullers = {"pull", "papi"}
  Producers = {p1}
  Faults = {"fetch", "add", "apply"}
  MaxChanges = 2
  MaxFaults = 2
SPECIFICATION FairSpec
INVARIANT TypeOK
PROPERTIES ListCatchesUp RacesAreRepaired
