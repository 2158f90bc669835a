----------------------------- MODULE MCBilling -----------------------------
(***************************************************************************)
(* The two ways money comes and goes: membership orders paid in USDT (two  *)
(* orders of one user, as in MCUsdtPayment) and credits that are consumed, *)
(* added and spent on indicators.  They share no variable; a behaviour     *)
(* moves one of them, chosen at the start, and leaves the other alone.     *)
(***************************************************************************)
EXTENDS MCUsdtPayment, Credits

VARIABLE focus      \* the part that moves

billingVars == <<vars, creditsVars, focus>>

BillingInit ==
    /\ Init /\ CreditsInit
    /\ focus \in {"orders", "credits"}
    /\ focus = "orders" => poolSize = CHOOSE n \in PoolSizes : TRUE

BillingNext ==
    /\ UNCHANGED focus
    /\ \/ focus = "orders" /\ Next /\ UNCHANGED creditsVars
       \/ focus = "credits" /\ CreditsNext /\ UNCHANGED vars

(***************************************************************************)
(* Fairness and CreditsFairness, for the part that moves.                  *)
(***************************************************************************)
InOrders(A)  == focus = "orders" /\ A
InCredits(A) == focus = "credits" /\ A

BillingSpec ==
    /\ BillingInit /\ [][BillingNext]_billingVars
    /\ \A c \in Scanners : WF_vars(InOrders(Scan(c) \/ Refresh(c)))
    /\ \A o \in Orders : WF_vars(InOrders(Ripen(o)))
    /\ \A r \in Requests : WF_creditsVars(InCredits(Proceed(r)))
=============================================================================
