CONSTANTS
    None = None
    Missing = Missing
    Empty = Empty
    Broken = Broken
    Unknown = Unknown
    h1 = h1
    h2 = h2
    file = file
    other = other
    Servers = {h1, h2}
    Contexts = {"eks", "dev"}
    Entries = {"cluster"}
    Paths = {file, other}
    Disk <- MCDisk
    Jobs = {a, b}
    Configs <- PlainConfigs
    Persistent = FALSE
SPECIFICATION Spec
PROPERTIES IdIsHost
