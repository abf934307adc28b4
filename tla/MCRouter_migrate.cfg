CONSTANTS
  Names <- MCNames
  Truncated <- MCTruncated
  ColonNames = {"ab"}
  TextPrefixes <- MCTextPrefixes
  RoutePaths <- MCLiteralPaths
  RequestPaths <- MCRequestPaths
  StaticPrefixes <- MCStaticPrefixes
  Methods = {"GET", "POST"}
  HYBRID_THRESHOLD = 2
  MaxChildren = 2
  PoolSize = 4
  MaxCalls = 3
  RouterEnv = {}
SPECIFICATION RouterSpec
PROPERTY MigrationTransparent
CHECK_DEADLOCK FALSE
