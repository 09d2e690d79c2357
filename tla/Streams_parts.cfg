\* Rates and lengths scaled down; a polynomial of five coefficients from buffers
\* of four candidates; seeds of eight bytes.
SPECIFICATION StreamsSpec
CONSTANTS
  Rate128 = 4
  Rate256 = 3
  Rate512 = 2
  MaxIn = 7
  MaxOut = 9
  MaxCalls = 3
  N = 5
  Triples = 2
  MaxRejects = 6
  ML_KEM_SEED_BYTES = 8
\* Entropy ends with its call.
CHECK_DEADLOCK FALSE
INVARIANTS
  SamplesStream
  SeedsSound
PROPERTIES
  ImplementsXof
  EveryCallEnds
