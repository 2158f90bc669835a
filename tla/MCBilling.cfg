\* Two requests, and connections for both to hold one and wait for another, or
\* to get it.  Two orders, a worker and an API thread for the payments.
CONSTANTS
    Orders <- MCOrders
    Users <- MCUsers
    UserOf <- MCUserOf
    Scanners = {worker}
    Readers = {api}
    MaxFaults = 1
    Requests = {r1, r2}
    Accounts = {ann, bob}
    PoolSizes = {2, 4}
    Opening = 1
    MaxErrors = 1
SPECIFICATION BillingSpec
INVARIANTS TypeOK NoSharedAddress ActivatedOnlyIfPaid
    CreditsMatchGrants CreditsTypeOK BalanceIsLogged PaidIffBought
PROPERTIES KeepsPaymentPromise PaymentNotForgotten PaidEventuallyConfirmed EveryRequestEnds
CHECK_DEADLOCK FALSE
