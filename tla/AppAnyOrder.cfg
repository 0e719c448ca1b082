SPECIFICATION Spec
CONSTANTS
    Part <- MCPart
    Apps <- TwoHandlers
    Routes <- MCRoutes
    Payload <- MCPayload
    None = "null"
    MaxPending = 3
INVARIANT AnyOrder
