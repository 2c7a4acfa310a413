SPECIFICATION SessionsSpec
SYMMETRY Sym
CONSTANTS
  None = None
  Person = {a1, a2} Sid = {s1, s2} Handler = {h1, h2} Challenge = {k1, k2} Count = {1}
INVARIANTS SignInMintsId PasskeyOwner OneSignInPerAssertion
