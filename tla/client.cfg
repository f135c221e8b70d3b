SPECIFICATION FairSpec
CONSTANTS
  c1 = c1
  c2 = c2
  c3 = c3
  a = a
  b = b
  Calls = {c1, c2}
  Tabs = {a}
  TabOf <- OneTab
  MaxExpiries = 2
  MaxLogins = 2
CHECK_DEADLOCK FALSE
INVARIANT TypeOK OneRefreshPerTab
PROPERTY CallSettles LogoutOnlyWhenRefused
