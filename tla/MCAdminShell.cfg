SPECIFICATION Spec
CONSTANTS
    Home = "home"
    Top = "top"
    Pages = {"top", "users"}
    AdminPages = {"users"}
    admin = admin
    viewer = viewer
    Users = {admin, viewer}
    Admins = {admin}
    NoUser = NoUser
    s1 = s1
    Slots = {s1}
    MaxSessions = 2
    MaxMishaps = 1
INVARIANTS
    ShellTypeOK
    SessionGuarded
    TagsDistinct
PROPERTY
    HomeTagKept
CONSTRAINT
    LoginIsAwaited
    TokenLeft
CHECK_DEADLOCK FALSE
