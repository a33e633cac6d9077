CONSTANTS
    f1 = f1
    f2 = f2
    f3 = f3
    f4 = f4
    Fillers <- FourFillers
    MaxIdle = 2
    MaxAge = 2
    Prefill = 3
    MaxWrites = 1
    MaxFrames = 2
    Lengths = {0, 1, 125, 126, 127, 255, 256, 65535, 65536, 1000000}
SPECIFICATION TransportSpec
SYMMETRY Symmetry
INVARIANT WsIsByteStream
