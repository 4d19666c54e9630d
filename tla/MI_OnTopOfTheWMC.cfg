CONSTANTS
    c1 = c1
    c2 = c2
    c3 = c3
    a = a
    b = b
    d = d
    f = f
    w = w
    v = v
    s1 = s1
    s2 = s2
    Contexts = {c1, c2, c3}
    Layers = {a, b, d, f, w, v}
    LayersOf <- MCLayersOf
    NoAddress = {d}
    Kinds = {"WMSLayer", "WFS"}
    WmsKinds = {"WMSLayer"}
    LayerKinds = {"WMSLayer"}
    Servers = {s1, s2}
    ServersOf <- MCServersOf
    OfferOf <- MCOfferOf
    FileLayer = f
    None = None
    MaxBrowsed = 1
SPECIFICATION Spec
PROPERTIES
    OnTopOfTheWMC
CHECK_DEADLOCK FALSE
