---------------------------- MODULE UsdtPayment ----------------------------
(***************************************************************************)
(* Membership orders paid in USDT (services/usdt_payment_service.py) and the *)
(* activation of the membership (BillingService.purchase_membership).       *)
(*                                                                          *)
(* An order gets a deposit address of its own.  The background worker of      *)
(* every server process and every GET of an order refresh it: they read the   *)
(* row, ask the chain outside of any transaction, and write what they found    *)
(* in short transactions guarded by the status in the row.  So two of them     *)
(* work on one order with rows read at different times.  Confirming an order   *)
(* and activating the membership are separate transactions.                   *)
(***************************************************************************)
EXTENDS Integers, FiniteSets, FiniteSetsExt, Functions

CONSTANTS Orders,     \* order requests; the id of the row they insert
          Users,
          UserOf,     \* the user who sends each request
          Scanners,   \* UsdtOrderWorker threads, one per server process
          Readers,    \* API threads that serve get_order
          MaxFaults   \* bound: errors of the chain or the database, and crashes

ASSUME UserAssumption     == UserOf \in [Orders -> Users] /\ IsFiniteSet(Orders)
ASSUME CheckerAssumption  ==
    Scanners \intersect Readers = {} /\ IsFiniteSet(Scanners \union Readers)
ASSUME MaxFaultsAssumption == MaxFaults \in Nat

Checkers == Scanners \union Readers

VARIABLES status,     \* the status column; "numbering" before the INSERT
          index,      \* address_index: the deposit address
          chainPaid,  \* the transfer is confirmed on the chain
          ripe,       \* the confirm delay since paid_at is over
          overdue,    \* expires_at is over
          vip,        \* membership periods of each user (vip_expires_at)
          credits,    \* bonus grants in the credits of each user
          grants,     \* activations committed for each order (history)
          pc,         \* where each checker is in its refresh
          rows,       \* status of the rows it read and has yet to refresh
          cur,        \* the order it is refreshing
          base,       \* the vip_expires_at it read
          faults

orders   == <<status, index>>
world    == <<chainPaid, ripe, overdue>>
accounts == <<vip, credits, grants>>
checkers == <<pc, rows, cur, base>>
vars     == <<status, index, chainPaid, ripe, overdue, vip, credits, grants,
              pc, rows, cur, base, faults>>

Inserted == {"pending", "paid", "expired", "confirmed"}
Statuses == Inserted \union {"absent", "numbering", "rejected"}
Places   == {"idle", "found", "late", "confirm", "write", "activate", "grant"}

\* Row "absent": the checker did not read it, or is done with it.
TypeOK ==
    /\ status    \in [Orders -> Statuses]
    /\ index     \in [Orders -> Nat]
    /\ chainPaid \in [Orders -> BOOLEAN]
    /\ ripe      \in [Orders -> BOOLEAN]
    /\ overdue   \in [Orders -> BOOLEAN]
    /\ vip       \in [Users -> Nat]
    /\ credits   \in [Users -> Nat]
    /\ grants    \in [Orders -> Nat]
    /\ pc        \in [Checkers -> Places]
    /\ rows      \in [Checkers -> [Orders -> Inserted \union {"absent"}]]
    /\ cur       \in [Checkers -> SUBSET Orders]
    /\ base      \in [Checkers -> Nat]
    /\ faults    \in 0..MaxFaults

Nothing == [o \in Orders |-> "absent"]

Init ==
    /\ status    = Nothing
    /\ index     = [o \in Orders |-> 0]
    /\ chainPaid = [o \in Orders |-> FALSE]
    /\ ripe      = [o \in Orders |-> FALSE]
    /\ overdue   = [o \in Orders |-> FALSE]
    /\ vip       = [u \in Users |-> 0]
    /\ credits   = [u \in Users |-> 0]
    /\ grants    = [o \in Orders |-> 0]
    /\ pc        = [c \in Checkers |-> "idle"]
    /\ rows      = [c \in Checkers |-> Nothing]
    /\ cur       = [c \in Checkers |-> {}]
    /\ base      = [c \in Checkers |-> 0]
    /\ faults    = 0

Fault == faults < MaxFaults /\ faults' = faults + 1

-----------------------------------------------------------------------------
(* create_order: the next index is read and then inserted.                  *)

Numbered == {o \in Orders : status[o] \in Inserted}

NumberOrder(o) ==
    /\ status[o] = "absent"
    /\ status' = [status EXCEPT ![o] = "numbering"]
    /\ index'  = [index EXCEPT ![o] = IF Numbered = {} THEN 0
                                      ELSE 1 + Max({index[p] : p \in Numbered})]
    /\ UNCHANGED <<world, accounts, checkers, faults>>

\* Bug variant of InsertOrder: no unique index on the address.
InsertUnchecked(o) ==
    /\ status[o] = "numbering"
    /\ status' = [status EXCEPT ![o] = "pending"]
    /\ UNCHANGED <<index, world, accounts, checkers, faults>>

\* The unique index on (chain, address) refuses the second of two requests that
\* read the same number; create_order answers with an error.
InsertOrder(o) ==
    /\ status[o] = "numbering"
    /\ status' = [status EXCEPT ![o] =
                    IF \E p \in Numbered : index[p] = index[o] THEN "rejected" ELSE "pending"]
    /\ UNCHANGED <<index, world, accounts, checkers, faults>>

-----------------------------------------------------------------------------
(* The customer and the clock.                                              *)

Pay(o) ==
    /\ status[o] \in Inserted /\ ~chainPaid[o]
    /\ chainPaid' = [chainPaid EXCEPT ![o] = TRUE]
    /\ UNCHANGED <<orders, ripe, overdue, accounts, checkers, faults>>

Ripen(o) ==
    /\ status[o] = "paid" /\ ~ripe[o]
    /\ ripe' = [ripe EXCEPT ![o] = TRUE]
    /\ UNCHANGED <<orders, chainPaid, overdue, accounts, checkers, faults>>

Expire(o) ==
    /\ status[o] \in Inserted /\ ~overdue[o]
    /\ overdue' = [overdue EXCEPT ![o] = TRUE]
    /\ UNCHANGED <<orders, chainPaid, ripe, accounts, checkers, faults>>

-----------------------------------------------------------------------------
(* Reading the rows.                                                        *)

\* Bug variant of Scan: paid orders are taken for done.
ScanPendingOnly(c) ==
    /\ pc[c] = "idle" /\ rows[c] = Nothing
    /\ rows' = [rows EXCEPT ![c] =
                  [o \in Orders |-> IF status[o] = "pending" THEN status[o] ELSE "absent"]]
    /\ UNCHANGED <<orders, world, accounts, pc, cur, base, faults>>

\* refresh_all_active_orders reads the pending and the paid rows, not the expired.
Scan(c) ==
    /\ pc[c] = "idle" /\ rows[c] = Nothing
    /\ rows' = [rows EXCEPT ![c] =
                  [o \in Orders |-> IF status[o] \in {"pending", "paid"} THEN status[o] ELSE "absent"]]
    /\ UNCHANGED <<orders, world, accounts, pc, cur, base, faults>>

\* get_order reads one row, whatever its status.
GetOrder(c, o) ==
    /\ pc[c] = "idle" /\ rows[c] = Nothing
    /\ status[o] \in Inserted
    /\ rows' = [rows EXCEPT ![c][o] = status[o]]
    /\ UNCHANGED <<orders, world, accounts, pc, cur, base, faults>>

-----------------------------------------------------------------------------
(* _refresh_one_order_out_of_tx, for one of the rows read.                  *)

GoOn(c, o, place) ==
    /\ pc'   = [pc EXCEPT ![c] = place]
    /\ cur'  = [cur EXCEPT ![c] = {o}]
    /\ rows' = [rows EXCEPT ![c][o] = "absent"]
    /\ UNCHANGED base

\* Done with row o.
Drop(c, o) ==
    /\ pc'   = [pc EXCEPT ![c] = "idle"]
    /\ cur'  = [cur EXCEPT ![c] = {}]
    /\ base' = [base EXCEPT ![c] = 0]
    /\ rows' = [rows EXCEPT ![c][o] = "absent"]

RefreshConfirmed(c, o) ==
    /\ pc[c] = "idle" /\ rows[c][o] = "confirmed"
    /\ Drop(c, o)
    /\ UNCHANGED <<orders, world, accounts, faults>>

\* A paid row only waits for the confirm delay.
RefreshPaid(c, o) ==
    /\ pc[c] = "idle" /\ rows[c][o] = "paid"
    /\ IF ripe[o] THEN GoOn(c, o, "confirm") ELSE Drop(c, o)
    /\ UNCHANGED <<orders, world, accounts, faults>>

\* Bug variant of AskChain: an error of the chain counts as a match.
AskChainCarelessly(c, o) ==
    /\ pc[c] = "idle" /\ rows[c][o] \in {"pending", "expired"}
    /\ IF chainPaid[o] THEN GoOn(c, o, "found") /\ UNCHANGED faults
       ELSE \/ Fault /\ GoOn(c, o, "found")
            \/ UNCHANGED faults /\ Drop(c, o)
    /\ UNCHANGED <<orders, world, accounts>>

\* A pending or expired row: look for the transfer.  An error of the chain is
\* taken like no transfer, and a pending row past its time goes on to expire.
AskChain(c, o) ==
    /\ pc[c] = "idle" /\ rows[c][o] \in {"pending", "expired"}
    /\ \/ chainPaid[o] /\ GoOn(c, o, "found") /\ UNCHANGED faults
       \/ /\ (~chainPaid[o] /\ UNCHANGED faults) \/ Fault
          /\ IF rows[c][o] = "pending" /\ overdue[o] THEN GoOn(c, o, "late") ELSE Drop(c, o)
    /\ UNCHANGED <<orders, world, accounts>>

\* Bug variant of MarkPaid: the UPDATE matches the id only.
MarkPaidUnguarded(c, o) ==
    /\ pc[c] = "found" /\ cur[c] = {o}
    /\ status' = [status EXCEPT ![o] = "paid"]
    /\ GoOn(c, o, "confirm") \/ Drop(c, o)
    /\ UNCHANGED <<index, world, accounts, faults>>

\* The transfer was found: the row becomes paid if it is still pending or
\* expired.  If the transfer is old enough the checker goes on to confirm.
MarkPaid(c, o) ==
    /\ pc[c] = "found" /\ cur[c] = {o}
    /\ \/ /\ status' = [status EXCEPT ![o] = IF @ \in {"pending", "expired"} THEN "paid" ELSE @]
          /\ GoOn(c, o, "confirm") \/ Drop(c, o)
          /\ UNCHANGED faults
       \/ Fault /\ Drop(c, o) /\ UNCHANGED status
    /\ UNCHANGED <<index, world, accounts>>

\* Bug variants of MarkExpired: a status of its own, and an UPDATE that matches
\* the id only.
MarkCancelled(c, o) ==
    /\ pc[c] = "late" /\ cur[c] = {o}
    /\ status' = [status EXCEPT ![o] = "cancelled"]
    /\ Drop(c, o)
    /\ UNCHANGED <<index, world, accounts, faults>>

MarkExpiredUnguarded(c, o) ==
    /\ pc[c] = "late" /\ cur[c] = {o}
    /\ status' = [status EXCEPT ![o] = "expired"]
    /\ Drop(c, o)
    /\ UNCHANGED <<index, world, accounts, faults>>

MarkExpired(c, o) ==
    /\ pc[c] = "late" /\ cur[c] = {o}
    /\ \/ status' = [status EXCEPT ![o] = IF @ = "pending" THEN "expired" ELSE @] /\ UNCHANGED faults
       \/ Fault /\ UNCHANGED status
    /\ Drop(c, o)
    /\ UNCHANGED <<index, world, accounts>>

-----------------------------------------------------------------------------
(* _confirm_and_activate_short_tx.                                          *)

\* The SELECT of the confirming transaction.  It takes no lock.
CheckConfirmed(c, o) ==
    /\ pc[c] = "confirm" /\ cur[c] = {o}
    /\ \/ status[o] # "confirmed" /\ GoOn(c, o, "write") /\ UNCHANGED faults
       \/ status[o] = "confirmed" /\ Drop(c, o) /\ UNCHANGED faults
       \/ Fault /\ Drop(c, o)
    /\ UNCHANGED <<orders, world, accounts>>

\* Its UPDATE and commit.  How many rows matched is not looked at.
WriteConfirmed(c, o) ==
    /\ pc[c] = "write" /\ cur[c] = {o}
    /\ \/ /\ status' = [status EXCEPT ![o] = IF @ \in {"paid", "pending"} THEN "confirmed" ELSE @]
          /\ GoOn(c, o, "activate")
          /\ UNCHANGED faults
       \/ Fault /\ Drop(c, o) /\ UNCHANGED status
    /\ UNCHANGED <<index, world, accounts>>

\* purchase_membership reads vip_expires_at ...
ReadMembership(c, o) ==
    /\ pc[c] = "activate" /\ cur[c] = {o}
    /\ pc'   = [pc EXCEPT ![c] = "grant"]
    /\ base' = [base EXCEPT ![c] = vip[UserOf[o]]]
    /\ UNCHANGED <<orders, world, accounts, rows, cur, faults>>

\* Bug variant of WriteMembership: the credits are read before the row is locked.
WriteMembershipStale(c, o) ==
    /\ pc[c] = "grant" /\ cur[c] = {o}
    /\ vip'     = [vip EXCEPT ![UserOf[o]] = base[c] + 1]
    /\ credits' = [credits EXCEPT ![UserOf[o]] = base[c] + 1]
    /\ grants'  = [grants EXCEPT ![o] = @ + 1]
    /\ Drop(c, o)
    /\ UNCHANGED <<orders, world, faults>>

\* ... and writes the extended value.  The credits are read after that UPDATE has
\* locked the user's row, so they are up to date.  An error loses the activation.
WriteMembership(c, o) ==
    /\ pc[c] = "grant" /\ cur[c] = {o}
    /\ \/ /\ vip'     = [vip EXCEPT ![UserOf[o]] = base[c] + 1]
          /\ credits' = [credits EXCEPT ![UserOf[o]] = @ + 1]
          /\ grants'  = [grants EXCEPT ![o] = @ + 1]
          /\ UNCHANGED faults
       \/ Fault /\ UNCHANGED accounts
    /\ Drop(c, o)
    /\ UNCHANGED <<orders, world>>

\* The process dies and is started again, with nothing in hand.
Crash(c) ==
    /\ Fault
    /\ pc'   = [pc EXCEPT ![c] = "idle"]
    /\ cur'  = [cur EXCEPT ![c] = {}]
    /\ base' = [base EXCEPT ![c] = 0]
    /\ rows' = [rows EXCEPT ![c] = Nothing]
    /\ UNCHANGED <<orders, world, accounts>>

-----------------------------------------------------------------------------
Refresh(c) ==
    \E o \in Orders :
        \/ RefreshConfirmed(c, o) \/ RefreshPaid(c, o) \/ AskChain(c, o)
        \/ MarkPaid(c, o) \/ MarkExpired(c, o)
        \/ CheckConfirmed(c, o) \/ WriteConfirmed(c, o)
        \/ ReadMembership(c, o) \/ WriteMembership(c, o)

Next ==
    \/ \E o \in Orders : NumberOrder(o) \/ InsertOrder(o) \/ Pay(o) \/ Ripen(o) \/ Expire(o)
    \/ \E c \in Scanners : Scan(c)
    \/ \E c \in Readers, o \in Orders : GetOrder(c, o)
    \/ \E c \in Checkers : Refresh(c) \/ Crash(c)

Spec == Init /\ [][Next]_vars

\* The worker threads scan and refresh, and the confirm delay passes; nobody has
\* to pay or to open the page of an order.
Fairness ==
    /\ \A c \in Scanners : WF_vars(Scan(c) \/ Refresh(c))
    /\ \A o \in Orders : WF_vars(Ripen(o))

FairSpec == Spec /\ Fairness

-----------------------------------------------------------------------------
(* Properties.                                                              *)

\* Two orders never share a deposit address, although two requests may read the
\* same next index: otherwise one transfer would pay both.
NoSharedAddress ==
    \A o, p \in Numbered : o # p => index[o] # index[p]

\* A membership is activated only for an order whose transfer is on the chain,
\* whatever errors and stale rows the checkers work with.
ActivatedOnlyIfPaid == \A o \in Orders : grants[o] > 0 => chainPaid[o]

\* A found payment is not forgotten: a paid order only becomes confirmed, and a
\* confirmed one stays so, while slower checkers still hold it as pending.
PaymentNotForgotten ==
    [][\A o \in Orders :
          /\ status[o] = "paid" => status'[o] \in {"paid", "confirmed"}
          /\ status[o] = "confirmed" => status'[o] = "confirmed"]_vars

GrantsOf(u) == SumFunctionOnSet(grants, {o \in Orders : UserOf[o] = u})

\* Concurrent activations never lose bonus credits of a user, and add no more
\* membership periods than were granted.
CreditsMatchGrants ==
    \A u \in Users : credits[u] = GrantsOf(u) /\ vip[u] <= GrantsOf(u)

\* The promise read off the table: an expired order is open, and one that is not
\* inserted does not exist.
Payment == INSTANCE PaymentPromise WITH
    phase <- [o \in Orders |-> CASE status[o] \in {"pending", "expired"} -> "open"
                                 [] status[o] \in {"paid", "confirmed"} -> status[o]
                                 [] OTHER -> "none"],
    transfer <- chainPaid,
    activations <- grants,
    MaxActivations <- Cardinality(Checkers)

\* However many checkers work on an order with rows of different age, they keep
\* what a payment promises (PaymentPromise): no transfer, status or activation is
\* taken back or made up, and a checker activates the membership at most once.
KeepsPaymentPromise == Payment!Spec

\* A transfer that is on the chain leads to confirmation without the customer
\* coming back, unless the order expires.
PaidEventuallyConfirmed ==
    \A o \in Orders : chainPaid[o] ~> status[o] \in {"confirmed", "expired"}

\* What the docstring of _confirm_and_activate_short_tx promises: an order
\* activates a membership at most once.
ActivatedOnce == \A o \in Orders : grants[o] <= 1

\* What the docstring of UsdtOrderWorker promises: a paid order is confirmed and
\* its membership activated.
ConfirmedLeadsToActivated ==
    \A o \in Orders : status[o] = "confirmed" ~> grants[o] > 0
=============================================================================
