CONSTANTS
  MaxEdits = 2
  Broken <- MCBroken
  Wait = 1
  MaxAge = 2
  None = None
SPECIFICATION FairSpec
INVARIANT TypeOK HostRecovers
PROPERTY OnlyVetted GetsTried
