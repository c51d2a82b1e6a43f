SPECIFICATION TableSpec
CONSTANTS
  Half32 = 1048576
  Half64 = 134217728
  Here = 3000000
INVARIANT ClaimVp2intersect
