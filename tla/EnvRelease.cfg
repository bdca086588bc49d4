SPECIFICATION Spec
CONSTANTS
    a = a
    b = b
    v1 = v1
    v2 = v2
    Shell = {a, b}
    Revision = {v1, v2}
    None = None
    Cut = Cut
    Engine = "vllm"
SYMMETRY Symmetry
INVARIANTS
    ManifestMeansBuilt
    ActivatedStaysBuilt
    ServersKeepTheirEnvironment
    AbsentMeansHeld
