SPECIFICATION Spec
CONSTANTS
    Self = self
    Peers = {p1, p2, p3}
INVARIANT StaleProvidersDontHide
