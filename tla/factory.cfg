\* two factories, two addresses; prices between ticks, below one tick and
\* out of order, with a book of up to seven levels
CONSTANTS
    Books = {b1, b2}
    Ratios = {3, 4}
    Prices = {0, 30000, 33333, 62500, 100000, 150000, 200001}
    Radj = 100000
    MaxLevels = 7
SPECIFICATION Spec
CHECK_DEADLOCK FALSE
INVARIANTS
    RegistriesAgree
    OrdersAtTheirPrices
    SeenPricesComeBack
