CONSTANTS
    Lens <- FieldLens
    Fallible = {2, 3}
    Chained = {3}
    DeclOrder <- Declared
    RegField = 2
    Files = {f1, f2}
    Fds = {d1, d2}
    ARefs = {h1, h2}
    Callers = {c1}
    NoFile = NoFile
    NoFd = NoFd
    Has = {"mmap", "llseek", "read_iter", "write_iter", "ioctl", "show_fdinfo"}
    Resolved = {"misc_register", "misc_deregister", "generic_file_open"}
SPECIFICATION MiscSpec
SYMMETRY Symmetry
CHECK_DEADLOCK FALSE
INVARIANTS InitInv FilesInv DeviceInv OpenFilesInv
PROPERTIES EarlyOnlyInWindow 
