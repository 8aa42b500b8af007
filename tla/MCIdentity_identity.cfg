SPECIFICATION Spec
CONSTANTS
    Login = {"admin", "ada", "bea"}
    Person = {"p1", "p2"}
    Request = {r1, r2, r3}
    Stores <- MCStores
    DefaultAdmin = "admin"
    Configured = {{}, {"bea"}}
    Known = {"p1"}
SYMMETRY Interchangeable
INVARIANTS
    NoAccessOutlivesItsEnd
    OneLoginPerPerson
PROPERTIES
    AnAdminRemains
    PasswordsNeverMix
