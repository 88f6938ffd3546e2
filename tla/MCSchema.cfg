SPECIFICATION SchemaSpec
CONSTANT SchemaDraws <- MCSchemaDraws
INVARIANT RequestTypesOccur
CHECK_DEADLOCK FALSE
