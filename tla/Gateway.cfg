SPECIFICATION FairSpec
CONSTANTS
  Gateways = {g, h}
  Readers = {r1, r2}
  Mutations = {m1}
  Exclusive = 2
  Nobody = Nobody
INVARIANTS
  MutationsRunAlone
  OneOwner
  DrainedIsQuiet
PROPERTIES
  MutationStartsClean
  Served
  StopEnds
