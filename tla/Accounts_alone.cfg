SPECIFICATION Spec
CONSTANTS
  Names = {n1, n2}
  Linux = {n2}
  CustomRoles = {c1}
  Actions = {a1}
  Reqs = {r1}
  MaxId = 2
  NoUser = NoUser
  NoRole = NoRole
  Unborn = Unborn
  Null = Null
 
PROPERTIES AdminRemains OnlyAdminsPromote PermissionsTakeEffect
CHECK_DEADLOCK FALSE
