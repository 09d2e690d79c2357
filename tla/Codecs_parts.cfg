\* Vectors of k * 2 coefficients at the boundaries of residues and of fields;
\* polynomials of eight coefficients; every coefficient through compression.
SPECIFICATION CodecsSpec
CONSTANTS
  Levels = {2, 3}
  N = 2
  Coefs = {0, 255, 3328}
  Fields = {3328, 3329, 4095}
  ML_KEM_N = 8
  CiphertextLevels = {2, 4}
  Samples = {0, 1700, 3120, 3327}
\* A ciphertext is done once it is unpacked.
CHECK_DEADLOCK FALSE
INVARIANTS
  PublicKeyReadable
  PackAndUnpackAgree
  CompressionExact
PROPERTIES
  ImportRestores
