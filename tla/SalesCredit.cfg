SPECIFICATION SalesSpec
CONSTANTS
  q1 = q1
  o1 = o1
  o2 = o2
  o3 = o3
  o4 = o4
  n1 = n1
  n2 = n2
  n3 = n3
  s1 = s1
  s2 = s2
  Quotes = {q1}
  Orders = {o1, o2}
  Notes = {n1, n2, n3}
  Customer = Customer
  None = None
  Sessions = {s1, s2}
  Quantity = 2
  CreditLimit = 3
  Opening = 4
SYMMETRY SalesSymmetry
INVARIANT
  OpenWithinCredit
CHECK_DEADLOCK FALSE
