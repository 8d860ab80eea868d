CONSTANTS
  None = None
  Proc = {p1}
  NInode = 3
  Name = {a, b}
  MaxLink = 1
  NFILE = 1
SPECIFICATION Spec
INVARIANT NoTypePanic
