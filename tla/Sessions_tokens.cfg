SPECIFICATION FairSpec
CONSTANTS
  t1 = t1
  t2 = t2
  laptop = laptop
  phone = phone
  Tabs = {t1, t2}
  Browsers = {laptop, phone}
  Placements <- OneBrowserOrTwo
  Accounts = {alice}
  Nobody = Nobody
  MaxTrouble = 2
INVARIANTS
  TypeOK
  DeadTokenExplained
PROPERTIES
  OnlyOwnAccount
  LoginComesIn
