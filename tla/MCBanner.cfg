SPECIFICATION Spec
CONSTANTS
  Bufsize = 6
  PartLengths <- MCPartLengths
  Words = 16
INVARIANTS
  OnlyBannerSent
  BannerComplete
\* The function returns once.
CHECK_DEADLOCK FALSE
