SPECIFICATION Spec
CONSTANTS
    r1 = r1
    r2 = r2
    r3 = r3
    shop = shop
    blog = blog
    internal = internal
    Rows <- MCRows
    Schemas = {shop, blog, internal}
    System = {internal}
    SchemaOf <- MCSchemaOf
    KeyOf <- MCKeyOf
    Filters = {{}, {shop}}
    Costs = {1, 2}
    Limit = 1
INVARIANTS
    TypeOK
    CollectInv
PROPERTIES
    CostliestFirst
