------------------------------ MODULE Credits ------------------------------
(***************************************************************************)
(* The credits of the users on PostgreSQL: check_and_consume, add_credits  *)
(* and get_user_vip_status of BillingService (billing_service.py),         *)
(* purchase_indicator (community_service.py), and the connections they go  *)
(* through (db_postgres.py).  The schema of SQLite has no credits log and  *)
(* no purchases: there all three fail and change nothing.                  *)
(*                                                                         *)
(* Every change of a balance is a read and, in another transaction, the    *)
(* write of an absolute value beside a line of the credits log.  The read  *)
(* (get_user_credits) opens a connection of its own, even when its caller  *)
(* holds one, and takes every error for a balance of 0: the error of a     *)
(* pool that had no connection for DB_POOL_ACQUIRE_TIMEOUT seconds, too.   *)
(* A purchase also asks for the membership on a second connection, which   *)
(* begins with an ALTER of the table of the users.                         *)
(*                                                                         *)
(* Who has updated a row keeps it locked, and the table shared, until its  *)
(* transaction ends; the ALTER needs the table for itself.  The database   *)
(* aborts a request of a deadlock it can see; it cannot see that a         *)
(* transaction is idle because its thread waits on another connection.     *)
(***************************************************************************)
EXTENDS Integers, FiniteSets

CONSTANTS
    Requests,       \* requests, each served by a thread of its own
    Accounts,       \* users; each of them sells one indicator
    PoolSizes,      \* the values of DB_POOL_MAX to choose from
    Opening,       \* the balance everybody begins with
    MaxErrors       \* bound: errors of the database

ASSUME CreditsAssumption ==
    /\ PoolSizes \subseteq Nat \ {0}
    /\ Opening \in Nat /\ MaxErrors \in Nat

(***************************************************************************)
(* An operation: a feature is paid for, credits are added, or an indicator *)
(* is bought from another user.  Each is about 1 credit.                   *)
(***************************************************************************)
Consume  == [type : {"consume"}, user : Accounts]
Add      == [type : {"add"}, user : Accounts]
Purchase == {p \in [type : {"purchase"}, user : Accounts, seller : Accounts] :
                p.user # p.seller}
Operations == Consume \cup Add \cup Purchase
NoOperation == [type |-> "none"]

VARIABLES
    poolSize,   \* connections there are
    balance,    \* qd_users.credits
    logged,     \* sum of the amounts in qd_credits_log
    bought,     \* rows of qd_indicator_purchases: buyer and seller
    stage,      \* what each request is about to do
    does,       \* its operation
    known,      \* the balances it has read
    written,    \* accounts its open transaction has updated
    errors,     \* errors so far
    trusted,    \* history: accounts whose balance has not changed since
    overwritten,\* history: a balance was replaced without being known
    charges,    \* history: committed charges for a purchase
    sales       \* history: committed credits to a seller

requestVars == <<stage, does, known, written>>
moneyVars   == <<balance, logged, bought>>
ghostVars   == <<trusted, overwritten, charges, sales>>
creditsVars == <<poolSize, moneyVars, requestVars, errors, ghostVars>>

Stages == {"new", "read", "balance", "connect", "update", "row", "commit",
           "outer", "member", "alter", "vip", "lookup", "readBuyer", "buyer",
           "chargeBuyer", "buyerRow", "readSeller", "seller", "paySeller",
           "insert", "over"}
Pairs == {<<p.user, p.seller>> : p \in Purchase}
PairOf(o) == <<o.user, o.seller>>

(***************************************************************************)
(* A balance is never negative: what is taken was compared before with the *)
(* very number it is taken from, right or wrong.                           *)
(***************************************************************************)
CreditsTypeOK ==
    /\ poolSize \in PoolSizes
    /\ balance \in [Accounts -> Nat] /\ logged \in [Accounts -> Int]
    /\ bought \subseteq Pairs
    /\ stage \in [Requests -> Stages]
    /\ does \in [Requests -> Operations \cup {NoOperation}]
    /\ known \in [Requests -> [Accounts -> Nat]]
    /\ written \in [Requests -> SUBSET Accounts]
    /\ errors \in 0..MaxErrors
    /\ trusted \in [Requests -> SUBSET Accounts]
    /\ overwritten \in BOOLEAN
    /\ charges \in [Pairs -> Nat] /\ sales \in [Pairs -> Nat]

NobodyKnows == [u \in Accounts |-> 0]

CreditsInit ==
    /\ poolSize \in PoolSizes
    /\ balance = [u \in Accounts |-> Opening]
    /\ logged = [u \in Accounts |-> 0]
    /\ bought = {}
    /\ stage = [r \in Requests |-> "new"]
    /\ does = [r \in Requests |-> NoOperation]
    /\ known = [r \in Requests |-> NobodyKnows]
    /\ written = [r \in Requests |-> {}]
    /\ errors = 0
    /\ trusted = [r \in Requests |-> {}]
    /\ overwritten = FALSE
    /\ charges = [p \in Pairs |-> 0] /\ sales = [p \in Pairs |-> 0]

-----------------------------------------------------------------------------
(***************************************************************************)
(* Connections.  Some requests hold one, some a second one besides.        *)
(***************************************************************************)
Unconnected == {"new", "read", "connect", "outer", "over"}
Twice       == {"alter", "vip", "buyer", "seller"}

Connected == {r \in Requests : stage[r] \notin Unconnected}
Doubly    == {r \in Requests : stage[r] \in Twice}

CanConnect == Cardinality(Connected) + Cardinality(Doubly) < poolSize

\* Bug variant of TimesOut: acquiring a connection waits for ever.
NeverTimesOut == FALSE

TimesOut == ~CanConnect

(***************************************************************************)
(* Locks.  A first UPDATE takes the table, then waits for its row; whoever *)
(* has the table keeps it to the end.  An ALTER waits for all of them, and *)
(* what comes after it in the queue of the table, a mere read too, waits   *)
(* for it.  No lock_timeout ends the waiting.                              *)
(***************************************************************************)
HasTable(r) == stage[r] \in {"row", "commit", "buyerRow", "readSeller", "seller",
                             "paySeller", "insert"}

TableQueued(r) == \E p \in Requests \ {r} : stage[p] = "alter"
CanAlter(r)    == \A p \in Requests \ {r} : ~HasTable(p)

\* The account whose row a request has asked for.
Updates(r) ==
    CASE stage[r] \in {"row", "buyerRow"} -> {does[r].user}
      [] stage[r] = "paySeller" -> {does[r].seller}
      [] OTHER -> {}

Blocks(p, r) == p # r /\ Updates(r) # {} /\ Updates(r) \subseteq written[p]
Blocked(r) == \E p \in Requests : Blocks(p, r)

\* What the database sees of a deadlock: everybody waits for a row.
Deadlocked(r) ==
    \E S \in SUBSET Requests :
        r \in S /\ \A q \in S : \E p \in S : Blocks(p, q)

-----------------------------------------------------------------------------
(***************************************************************************)
(* What the actions are made of.                                           *)
(***************************************************************************)
Move(r, to) == stage' = [stage EXCEPT ![r] = to]

\* A request that is over remembers nothing.
End(r) ==
    /\ Move(r, "over")
    /\ known' = [known EXCEPT ![r] = NobodyKnows]
    /\ written' = [written EXCEPT ![r] = {}]
    /\ UNCHANGED does

Amount(r, u) == IF does[r].type = "add" \/ u # does[r].user THEN 1 ELSE -1

\* Bug variant of LogLines: the sale is not logged.
LogsBuyerOnly(r) ==
    [u \in Accounts |-> IF u \in written[r] /\ u = does[r].user
                        THEN logged[u] + Amount(r, u) ELSE logged[u]]

LogLines(r) ==
    [u \in Accounts |-> IF u \in written[r]
                        THEN logged[u] + Amount(r, u) ELSE logged[u]]

(***************************************************************************)
(* The open transaction of r becomes visible, balances and log lines       *)
(* together.  Other requests know those balances no longer.                *)
(***************************************************************************)
Publish(r) ==
    LET new == written[r]
    IN  /\ balance' = [u \in Accounts |->
              IF u \in new THEN known[r][u] + Amount(r, u) ELSE balance[u]]
        /\ logged' = LogLines(r)
        /\ overwritten' = (overwritten \/ ~(new \subseteq trusted[r]))
        /\ trusted' = [q \in Requests |-> trusted[q] \ new]
        /\ IF does[r].type = "purchase"
           THEN /\ charges' = [charges EXCEPT ![PairOf(does[r])] =
                       @ + (IF does[r].user \in new THEN 1 ELSE 0)]
                /\ sales' = [sales EXCEPT ![PairOf(does[r])] =
                       @ + (IF does[r].seller \in new THEN 1 ELSE 0)]
           ELSE UNCHANGED <<charges, sales>>

\* An error of the database, or of the commit; the caller rolls back.
Error == errors < MaxErrors /\ errors' = errors + 1

(***************************************************************************)
(* get_user_credits: the balance, or 0 when it cannot be read.             *)
(***************************************************************************)
Reads(r) == IF stage[r] \in {"readSeller", "seller"} THEN does[r].seller
            ELSE does[r].user

AfterReading(r) ==
    CASE stage[r] \in {"read", "balance"} -> "connect"
      [] stage[r] \in {"readBuyer", "buyer"} -> "chargeBuyer"
      [] OTHER -> "paySeller"

GetNothing(r) ==
    /\ known' = [known EXCEPT ![r][Reads(r)] = 0]
    /\ trusted' = [trusted EXCEPT ![r] = @ \ {Reads(r)}]
    /\ Move(r, AfterReading(r))
    /\ UNCHANGED <<poolSize, moneyVars, does, written, overwritten, charges,
                   sales>>

\* It opens a connection of its own,
ConnectToRead(r) ==
    /\ stage[r] \in {"read", "readBuyer", "readSeller"}
    /\ \/ /\ CanConnect
          /\ Move(r, CASE stage[r] = "read" -> "balance"
                       [] stage[r] = "readBuyer" -> "buyer"
                       [] OTHER -> "seller")
          /\ UNCHANGED <<poolSize, moneyVars, does, known, written, ghostVars>>
       \/ TimesOut /\ GetNothing(r)
    /\ UNCHANGED errors

\* and reads, when no ALTER is before it.
ReadBalance(r) ==
    /\ stage[r] \in {"balance", "buyer", "seller"}
    /\ ~TableQueued(r)
    /\ known' = [known EXCEPT ![r][Reads(r)] = balance[Reads(r)]]
    /\ trusted' = [trusted EXCEPT ![r] = @ \cup {Reads(r)}]
    /\ Move(r, AfterReading(r))
    /\ UNCHANGED <<poolSize, moneyVars, does, written, errors, overwritten,
                   charges, sales>>

ReadFails(r) ==
    /\ stage[r] \in {"balance", "buyer", "seller"}
    /\ Error /\ GetNothing(r)

-----------------------------------------------------------------------------
(***************************************************************************)
(* check_and_consume and add_credits.                                      *)
(***************************************************************************)
Begin(r) ==
    /\ stage[r] = "new"
    /\ \E o \in Operations :
          /\ does' = [does EXCEPT ![r] = o]
          /\ Move(r, IF o.type = "purchase" THEN "outer" ELSE "read")
    /\ UNCHANGED <<poolSize, moneyVars, known, written, errors, ghostVars>>

\* Bug variant of Affords: the balance is not compared with the cost.
NeverRefuses(r) == TRUE

Affords(r) == does[r].type = "add" \/ known[r][does[r].user] >= 1

Connect(r) ==
    /\ stage[r] = "connect" /\ Affords(r) /\ CanConnect
    /\ Move(r, "update")
    /\ UNCHANGED <<poolSize, moneyVars, does, known, written, errors, ghostVars>>

\* The first UPDATE of a transaction gets the table,
LockTable(r) ==
    /\ stage[r] \in {"update", "chargeBuyer"}
    /\ Affords(r) /\ ~TableQueued(r)
    /\ Move(r, IF stage[r] = "update" THEN "row" ELSE "buyerRow")
    /\ UNCHANGED <<poolSize, moneyVars, does, known, written, errors, ghostVars>>

\* and the UPDATE is done once no other transaction holds the row.
Update(r) ==
    /\ stage[r] \in {"row", "buyerRow", "paySeller"}
    /\ ~Blocked(r)
    /\ written' = [written EXCEPT ![r] = @ \cup Updates(r)]
    /\ Move(r, CASE stage[r] = "row" -> "commit"
                 [] stage[r] = "buyerRow" -> "readSeller"
                 [] OTHER -> "insert")
    /\ UNCHANGED <<poolSize, moneyVars, does, known, errors, ghostVars>>

Commit(r) ==
    /\ stage[r] = "commit"
    /\ Publish(r) /\ End(r)
    /\ UNCHANGED <<poolSize, bought, errors>>

-----------------------------------------------------------------------------
(***************************************************************************)
(* purchase_indicator.                                                     *)
(***************************************************************************)
ConnectOuter(r) ==
    /\ stage[r] = "outer" /\ CanConnect
    /\ Move(r, "member")
    /\ UNCHANGED <<poolSize, moneyVars, does, known, written, errors, ghostVars>>

(***************************************************************************)
(* get_user_vip_status, on a second connection: the table is altered, and  *)
(* that is committed before the membership is read.  An error ends it, or  *)
(* its ALTER; without an answer there is no membership, and the price is   *)
(* to be paid.                                                             *)
(***************************************************************************)
AskMembership(r) ==
    /\ \/ stage[r] = "member" /\ CanConnect /\ Move(r, "alter")
       \/ stage[r] = "member" /\ TimesOut /\ Move(r, "lookup")
       \/ stage[r] = "alter" /\ CanAlter(r) /\ Move(r, "vip")
       \/ stage[r] = "vip" /\ ~TableQueued(r) /\ Move(r, "lookup")
    /\ UNCHANGED <<poolSize, moneyVars, does, known, written, errors, ghostVars>>

MembershipFails(r) ==
    /\ \/ stage[r] \in {"alter", "vip"} /\ Move(r, "lookup")
       \/ stage[r] = "alter" /\ Move(r, "vip")
    /\ Error
    /\ UNCHANGED <<poolSize, moneyVars, does, known, written, ghostVars>>

CheckPurchase(r) ==
    /\ stage[r] = "lookup"
    /\ PairOf(does[r]) \notin bought
    /\ Move(r, "readBuyer")
    /\ UNCHANGED <<poolSize, moneyVars, does, known, written, errors, ghostVars>>

AlreadyPurchased(r) ==
    /\ stage[r] = "lookup"
    /\ PairOf(does[r]) \in bought
    /\ End(r)
    /\ UNCHANGED <<poolSize, moneyVars, errors, ghostVars>>

\* Bug variant of InsertPurchase: no constraint keeps the purchase unique.
InsertPurchaseAgain(r) ==
    /\ stage[r] = "insert"
    /\ bought' = bought \cup {PairOf(does[r])}
    /\ Publish(r) /\ End(r)
    /\ UNCHANGED <<poolSize, errors>>

\* The purchase row, the copy of the indicator, and the commit of it all.
InsertPurchase(r) ==
    /\ stage[r] = "insert"
    /\ PairOf(does[r]) \notin bought
    /\ bought' = bought \cup {PairOf(does[r])}
    /\ Publish(r) /\ End(r)
    /\ UNCHANGED <<poolSize, errors>>

-----------------------------------------------------------------------------
(***************************************************************************)
(* A request ends without a commit: what its transaction wrote is undone.  *)
(***************************************************************************)
RollBack(r) == End(r) /\ UNCHANGED <<poolSize, moneyVars, ghostVars>>

RefuseCredits(r) ==
    /\ stage[r] \in {"connect", "chargeBuyer"} /\ ~Affords(r)
    /\ RollBack(r) /\ UNCHANGED errors

ConnectTimesOut(r) ==
    /\ TimesOut
    /\ stage[r] = "outer" \/ (stage[r] = "connect" /\ Affords(r))
    /\ RollBack(r) /\ UNCHANGED errors

\* UNIQUE(indicator_id, buyer_id).
PurchaseExists(r) ==
    /\ stage[r] = "insert" /\ PairOf(does[r]) \in bought
    /\ RollBack(r) /\ UNCHANGED errors

DeadlockAborts(r) ==
    /\ Deadlocked(r)
    /\ RollBack(r) /\ UNCHANGED errors

\* An error of a statement, on the connection the request writes with.
DatabaseFails(r) ==
    /\ stage[r] \notin Unconnected \cup Twice
    /\ stage[r] \notin {"balance", "readBuyer", "readSeller"}
    /\ Error
    /\ RollBack(r)

Proceed(r) ==
    \/ ConnectToRead(r) \/ ReadBalance(r)
    \/ Connect(r) \/ LockTable(r) \/ Update(r) \/ Commit(r)
    \/ ConnectOuter(r) \/ AskMembership(r) \/ CheckPurchase(r)
    \/ AlreadyPurchased(r) \/ InsertPurchase(r)
    \/ RefuseCredits(r) \/ ConnectTimesOut(r) \/ PurchaseExists(r)
    \/ DeadlockAborts(r)

Fails(r) == ReadFails(r) \/ MembershipFails(r) \/ DatabaseFails(r)

CreditsNext == \E r \in Requests : Begin(r) \/ Proceed(r) \/ Fails(r)

\* A thread that serves a request is scheduled.
CreditsFairness == \A r \in Requests : WF_creditsVars(Proceed(r))

CreditsSpec == CreditsInit /\ [][CreditsNext]_creditsVars /\ CreditsFairness

-----------------------------------------------------------------------------
(***************************************************************************)
(* The log explains every balance, as long as nobody replaced a balance    *)
(* that it had failed to read or that had changed since: timeouts, errors, *)
(* deadlocks and refusals never take or give credits by themselves.        *)
(***************************************************************************)
BalanceIsLogged ==
    ~overwritten => \A u \in Accounts : balance[u] = Opening + logged[u]

(***************************************************************************)
(* Who has an indicator has paid for it and its seller was paid, once;     *)
(* nobody pays without getting it, and no seller is paid for nothing.      *)
(***************************************************************************)
PaidIffBought ==
    \A p \in Pairs :
        LET has == IF p \in bought THEN 1 ELSE 0
        IN  charges[p] = has /\ sales[p] = has

(***************************************************************************)
(* An ALTER waits for a purchase that has charged its buyer, and the read  *)
(* of that purchase's seller waits behind the ALTER.  The purchase cannot  *)
(* go on, and the database sees no cycle: its transaction is idle.         *)
(***************************************************************************)
Hung == \E p, q \in Requests : p # q /\ stage[p] = "alter" /\ stage[q] = "seller"

(***************************************************************************)
(* Every request ends, also when the pool is full of requests that each    *)
(* wait for a second connection, and when two purchases each wait for the  *)
(* row the other has updated.  Only a purchase whose ALTER meets another   *)
(* purchase in the middle may leave everybody waiting.                     *)
(***************************************************************************)
EveryRequestEnds ==
    \A r \in Requests : stage[r] # "new" ~> (stage[r] = "over" \/ Hung)
=============================================================================
