SPECIFICATION GenSpec
CONSTANT Primitive <- Primitives
CONSTANT PrimSize <- PrimSizes
CONSTANT Hash <- CollidingHash
CONSTANT SpecFile <- SpecFiles
CONSTANT Tag <- Tags
CONSTANT MaxParse = 3
CONSTANT Camel <- CamelNames
CONSTANT Snake <- SnakeNames
CONSTANT PyEnumAttribute <- EnumAttributes
CHECK_DEADLOCK FALSE
INVARIANTS GenTypeOK VerdictRight ViewsHold RefersBack  DocsAgree LibrariesAgree
