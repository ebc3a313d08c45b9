SPECIFICATION Spec
CONSTANTS
    shop = shop
    blog = blog
    t1 = t1
    t2 = t2
    t3 = t3
    Schemas = {shop, blog}
    Threads = {t1, t2, t3}
    Lengths = {1, 3, 9}
    MaxTotal = 10
    MaxInfo = 8
    MinInfo = 4
    TaskTypes = {1, 2, 3, 6, 7}
    Details <- MCDetails
INVARIANTS
    TypeOK
    Usable
    ProcessListCut
    Truthful
