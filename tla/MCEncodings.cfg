SPECIFICATION EncodingsSpec
CONSTANTS
    c1 = c1
    c2 = c2
    Content = {c1, c2}
    MaxLeaves = 7
    Kinds = {"stream", "typed value", "encoded", "program", "element", "asn1 value",
             "hex bytes", "hex number", "hex text", "words", "query", "arguments", "row", "dsn",
             "bmp", "derived key", "block", "deciphered text", "pfx",
             "field elements", "limbs", "field bytes", "scalars", "digest",
             "multiple", "sum", "point", "seed", "tree"}
INVARIANTS
    StreamReadsInput
    RlpIsFaithful
    DerIsFaithful
    HexIsFaithful
    MySQLValuesArrive
    ConfigIsRead
    PfxIsOpened
    CurveIsExact
    OnlySignatureVerifies
    TreeIsReference
CHECK_DEADLOCK FALSE
