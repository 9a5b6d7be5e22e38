\* One tab, two users, and up to four expiries, failures, lost answers and restarts.
SPECIFICATION SpecP
CONSTANTS
  b1 = b1
  b2 = b2
  t1 = t1
  t2 = t2
  alice = alice
  bob = bob
  Browsers = {b1}
  Tabs = {t1}
  BrowserOf <- OneTab
  Users = {alice, bob}
  Draws = {1, 2}
  MaxTrouble = 4
  Nobody = Nobody
  NoToken = NoToken
  Keep = Keep
  NoEntry = NoEntry
INVARIANTS
  TypeOKP
  RememberedStaysIn
  SignedOutMeansOut
PROPERTIES
  EveryNavigationLands
