SPECIFICATION FairSpec
CONSTANTS
  \* Four addresses: entries on both sides of the one searched for.
  TrackedPeers = {"p1", "p2"}
  IpCount = 4
  Forwards = {}
  Limits <- MCLimits
  \* Chains up to one certificate too long.
  Keys = {"k1", "k2"}
  Digests = {"sha512", "other"}
  CERT_MAX_DEPTH = 4
  MaxChain = 5
  \* Sums with several carries.
  Base = 4
  ByteBase = 2
  MaxWords = 3
  MaxPieces = 4
  \* Up to four blocks and a tail of every length.
  block_size = 4
  MaxSize = 19
  \* Numbers on both sides of powers of two.
  Numbers = {0, 1, 2, 3, 4}
  NotInt = NotInt
  MaxMembers = 4
  \* Numbers of up to three items.
  ElemBits = 2
  MaxBits = 7
  MaxField = 4
  \* Structures, unions and fields used once, twice, and by each other.
  Inputs <- Descriptions
INVARIANTS
  GetFindsFirst DumpShowsAll
  NoStaleEntries AnswersBounded ExactHitClosest
  FieldsReadBack
   NumbersFit
   
   ChecksumVerifies VerifiedIsExpected
PROPERTIES ReadingEnds OrderSpec
CHECK_DEADLOCK FALSE
