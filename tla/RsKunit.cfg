CONSTANTS
    self = self  a = a  b = b
    t0 = t0  t1 = t1  t2 = t2  t3 = t3
    Self = self
    Modules = {self, a, b}
    Names = {t0, t1, t2, t3}
    Cases <- MCCases
    Configs <- MCConfigs
    None = None
SPECIFICATION Spec
INVARIANTS RegistryInv TestsAttributed
