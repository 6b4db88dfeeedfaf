SPECIFICATION Spec
CONSTANTS
    Amounts = {1, 2}
    Currencies = {"USD", "EUR"}
    Words = {"pool", "lake"}
    Bodies = {b1}
    Notes = {"raise"}
INVARIANTS
    NoDriftButByNull
    SettledMoney
