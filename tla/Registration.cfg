SPECIFICATION RegSpec
SYMMETRY Sym
CONSTANTS
  None = None
  Name = {u1, u2, u3} Code = {c1} Subject = {i1} Request = {r1, r2} Panel = {p1} Uses = {1}
INVARIANTS RegTypeOK InvitesNotOverspent AdminRemains
