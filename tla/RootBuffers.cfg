SPECIFICATION Spec
CONSTANTS
  r1 = r1
  r2 = r2
  r3 = r3
  r4 = r4
  r5 = r5
  b1 = b1
  b2 = b2
  b3 = b3
  b4 = b4
  Roots = {r1, r2, r3, r4, r5}
  Buffers = {b1, b2, b3, b4}
  PacketCapacity = 2
  Builds = {TRUE, FALSE}
INVARIANTS WritesOwnBuffer BuffersReturned ReportedOnce
