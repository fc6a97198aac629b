SPECIFICATION Spec
CONSTANTS
    alice = alice
    bob = bob
    cash = cash
    mate = mate
    cola = cola
    fresh = fresh
    unknown = unknown
    Mate = Mate
    Cola = Cola
    Beer = Beer
    r1 = r1
    r2 = r2
    r3 = r3
    Users <- MCUsers
    Cash = cash
    Items <- MCItems
    NoItem = NoItem
    Names <- MCNames
    Requests = {r1, r2}
    Workload <- LostUpdateWorkload
    OpeningCredit <- MCOpeningCredit
    OpeningItems <- MCOpeningItems
    MaxColumn = 6
INVARIANT CreditAddsUp
