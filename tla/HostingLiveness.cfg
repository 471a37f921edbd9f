SPECIFICATION LiveSpec
CONSTANTS
  Customers = {cust}  Workspaces = {ws}  Orders = {ord}  GrantKeys = {gk1}
  Clients = {k1, k2}  Towers = {t1}  Nobody = nobody
  Welcome = 2  PromoLife = 1  Amounts = {1}  Price = 2  Readings = {2}
  Batch = 1  MaxTime = 2  MaxAsked = 2  MaxFaults = 1
PROPERTIES HoursAreCaughtUp PaidOrdersAreCredited
CHECK_DEADLOCK FALSE
