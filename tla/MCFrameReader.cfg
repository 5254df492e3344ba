\* More room before the handshake than after it, as in the build the
\* repository tests.
SPECIFICATION FairSpec
CONSTANTS
  HdrLen = 3
  Payload = 2
  CnxnPayload = 3
  TokenLen = 1
  Lengths <- MCLengths
  MaxFrames = 3
  Flaws <- MCFlaws
INVARIANTS
  TypeOK
  WritesFit
  AnswerFits
PROPERTIES
  ImplementsFrameStream
  AllProcessed
\* The host's frames are finite.
CHECK_DEADLOCK FALSE
