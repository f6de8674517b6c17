\* One user, two admin calls; role and menu ids overlap at 2.
CONSTANTS
    Users = {u1}
    Roles = {1, 2}
    Menus = {2}
    Handlers = {h1, h2}
    LoginCall = LoginCall
SPECIFICATION Spec
SYMMETRY CallSymmetry
INVARIANTS
    TypeOK
    CacheFollowsGrants
    OnlineHasPermissions
CHECK_DEADLOCK FALSE
