\* The deletion of a menu and what its error message says of it.
CONSTANTS
    Users = {u1}
    Roles = {1, 2}
    Menus = {2, 3}
    Handlers = {h1, h2}
    LoginCall = LoginCall
SPECIFICATION Spec
PROPERTY
    DeletedMenuHadNoRole
CHECK_DEADLOCK FALSE
