SPECIFICATION SSpec
CONSTANTS
  s1 = s1  s2 = s2  h1 = h1  h2 = h2  h3 = h3  h4 = h4
  Admin = Admin
  Orders = {o1}
  Sellers = {s1, s2}
  Calls = {h1, h2, h3, h4}
  Owner <- Everyone
  Existing <- FirstExists
  MaxUpdates = 3

   
PROPERTIES FulfilmentMovesForward 
CHECK_DEADLOCK FALSE
