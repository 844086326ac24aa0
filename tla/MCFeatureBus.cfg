SPECIFICATION FairSpec

CONSTANTS
  r1 = r1
  s1 = s1
  s2 = s2
  Readers = {r1}
  Streams = {s1, s2}
  Releases = {0, 1, 2}
  First = 0
  Offers <- MCOffers
  Absent = "absent"
  Pin <- MCPin
  Images = {0, 1}
  NoContract = NoContract
  MaxLen = 2
  MaxFetchErrors = 1
  MaxRelaunches = 1
  MaxFaults = 1

INVARIANTS
  FramesResolve
  CertifiedValues

PROPERTIES
  ImplementsFeed
