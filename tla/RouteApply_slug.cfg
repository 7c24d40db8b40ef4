SPECIFICATION Spec
CONSTANTS
  u = u  v = v  admin = admin  none = none  nobody = nobody
  service_desk = service_desk  basic = basic
  d1 = d1  any = any  a1 = a1  a2 = a2  o1 = o1
  Users = {u, v}
  Admin = admin
  Slugs = {service_desk, basic}
  NoSlug = none
  NoOwner = nobody
  Owner <- MCOwner
  UnsafeSlugs = {service_desk}
  Dids = {d1, any}
  CatchAll = any
  UnsafeDids = {}
  Basic = basic
  Applies = {a1, a2}
  Outbounds = {o1}
  User <- MCUser
  InitRoutes <- MCInitRoutes
  MaxEdits = 1
  MaxCrashes = 0
  MaxChanges = 0
  MaxErrors = 0
PROPERTY RoutesAreApplied
