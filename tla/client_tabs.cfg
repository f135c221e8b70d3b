SPECIFICATION Spec
CONSTANTS
  c1 = c1
  c2 = c2
  c3 = c3
  a = a
  b = b
  Calls = {c1, c2}
  Tabs = {a, b}
  TabOf <- TwoTabs
  MaxExpiries = 1
  MaxLogins = 1
CHECK_DEADLOCK FALSE
PROPERTY LogoutOnlyWhenRefused
