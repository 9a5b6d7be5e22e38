\* Two tabs of one browser.
SPECIFICATION SpecP
CONSTANTS
  b1 = b1
  b2 = b2
  t1 = t1
  t2 = t2
  alice = alice
  bob = bob
  Browsers = {b1}
  Tabs = {t1, t2}
  BrowserOf <- TwoTabs
  Users = {alice}
  Draws = {1, 2, 3}
  MaxTrouble = 1
  Nobody = Nobody
  NoToken = NoToken
  Keep = Keep
  NoEntry = NoEntry
INVARIANTS
  RememberedStaysIn
  SignedOutMeansOut
PROPERTIES
  EveryStepNearer
  SetBackOnlyBy
