SPECIFICATION ClientsSpec
CONSTANTS
    Kind = {"sample", "app", "crd"}
    Namespace = {"n1", "n2"}
    Name = {"a"}
    Label = {"x", "y"}
    None = None
    MaxVersion = 4
INVARIANTS StoresFit FakeAgrees
PROPERTY OnlyItsNamespace
CHECK_DEADLOCK FALSE
