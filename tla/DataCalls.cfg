SPECIFICATION CallsSpec
CONSTANTS
    Handles = {h1, h2}
    Names = {"orders", "events"}
    TypeArgs <- MCTypeArgs
    CodeArgs <- MCCodeArgs
INVARIANT LookupsInBounds
