SPECIFICATION MCSpec
CONSTANTS
  Half32 = 1048576
  Half64 = 134217728
  Here = 3000000
  AddrTerms <- MCAddrTerms
  Offsets <- MCOffsets
  Pointers <- MCPointers
  Gps <- MCGps
  Vecs <- MCVecs
  MemAttrs <- MCMemAttrs
  RegAttrs <- MCRegAttrs
  Imms <- MCImms
INVARIANT ExpressionIsSum
INVARIANT RefusedIsUnencodable
INVARIANT AddressKept
INVARIANT OperandsKept
INVARIANT ImmediateKept
INVARIANT OneMeaning
INVARIANT DisplacementKept
