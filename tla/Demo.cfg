SPECIFICATION FairSpec
CONSTANTS
  e1 = e1
  e2 = e2
  k1 = k1
  k2 = k2
  Entities <- MCEntities
  Keys <- MCKeys
  Offers <- MCOffers
  Own = own
  NoEntity = noentity
  HideBlocks = 2
  MaxServed = 4
  MaxInFlight = 1
  MaxWords = 1
INVARIANTS
  TypeOK
  LoginFirst
  EntitiesTracked
  QuietAfterEnd
PROPERTIES
  ResponderSpec
  EndNoticed
CHECK_DEADLOCK FALSE
