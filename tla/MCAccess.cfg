CONSTANTS
  u = u
  r = r
  t = t
  v = v
  w = w
  a = a
  b = b
  Accounts = {u, r}
  Public = Public
  Superuser = Superuser
  Tables = {t}
  Views = {v, w}
  Keys = {1, 2}
  Values = {a, b}
  Predicates <- MCPredicates
  NoText = NoText
  Templates <- MCTemplates
  PrivLists <- MCPrivLists
  PolicyNames = {1, 2}
  Catalogs <- MCCatalogs
  MaxViewDepth = 2
  MaxStatements = 2
  MaxNesting = 4
SPECIFICATION Spec
INVARIANTS ReadsFollowGrants PathsAgree
PROPERTIES ChangesAreAdmitted
CHECK_DEADLOCK FALSE
