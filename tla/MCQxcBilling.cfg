SPECIFICATION FairSpec
CONSTANTS
    Threads = {t1}
    NumNics = 2
    NumAccounts = 2
    Owner <- MCOwner
    Tax <- MCTax
    DayTax <- MCDayTax
    NegAllowed = {2}
    Hosts = {"h1", "h2"}
    Tariffs <- MCTariffs
    LogLimit = 2
    NcLimit = 2
    Setups <- MCSetups
INVARIANTS DebtIsBounded BooksBalance CrntSettles PeriodIsBillable DayIsTaxedOnce
PROPERTY BrokeIsCutOff
