--------------------------- MODULE Billing_proofs ---------------------------
(***************************************************************************)
(* Proofs about the two ways money comes and goes: UsdtPayment, for any      *)
(* orders, users, workers and API threads, and Credits, for any requests,    *)
(* accounts, size of the pool, opening balance and number of errors.         *)
(***************************************************************************)
EXTENDS UsdtPayment, Credits, Sums

-----------------------------------------------------------------------------
(* UsdtPayment.                                                              *)

(* The inductive invariant.                                                  *)

\* An order is paid or confirmed in the table only if its transfer exists.
PaidIsOnChain ==
    \A o \in Orders : status[o] \in {"paid", "confirmed"} => chainPaid[o]

\* What checker c remembers of order o was true when it was read or done, and
\* the order has not gone back since.
Justified(c, o) ==
    /\ rows[c][o] # "absent" => status[o] \in Inserted
    /\ rows[c][o] \in {"paid", "confirmed"} => status[o] \in {"paid", "confirmed"}
    /\ cur[c] = {o} =>
         /\ status[o] \in Inserted
         /\ pc[c] = "found" => chainPaid[o]
         /\ pc[c] \in {"confirm", "write"} => status[o] \in {"paid", "confirmed"}
         /\ pc[c] \in {"activate", "grant"} => status[o] = "confirmed"

AllJustified == \A c \in Checkers, o \in Orders : Justified(c, o)

\* An order that activated a membership is and stays confirmed: no checker with
\* an older row takes it back to a status from which it would be activated anew.
ActivatedIsConfirmed == \A o \in Orders : grants[o] > 0 => status[o] = "confirmed"

Inv ==
    /\ TypeOK
    /\ PaidIsOnChain
    /\ AllJustified
    /\ ActivatedIsConfirmed

USE UserAssumption, MaxFaultsAssumption

LEMMA InitInv == Init => Inv
  BY DEF Init, Inv, TypeOK, PaidIsOnChain, AllJustified, Justified, ActivatedIsConfirmed,
         Nothing, Statuses, Inserted, Places

\* A finite set of numbers has a greatest one: the elements above a number form
\* a smaller set the greater the number is.
LEMMA HasMax ==
    ASSUME NEW S, S \subseteq Nat, IsFiniteSet(S), S # {}
    PROVE  Max(S) \in S
  <1> DEFINE Above(m) == {k \in S : k > m}
             Aboves   == {Above(m) : m \in S}
  <1>1. IsWellFoundedOn(StrictSubsetOrdering(S), SUBSET S)
    BY FS_StrictSubsetOrderingWellFounded, FS_FiniteSubsetsOfFinite
  <1>2. Aboves \subseteq SUBSET S /\ Aboves # {}
    OBVIOUS
  <1>3. PICK A \in Aboves : \A B \in Aboves : ~ (<<B, A>> \in StrictSubsetOrdering(S))
    <2> HIDE DEF Aboves
    <2> QED
      BY <1>1, <1>2, WFMin
  <1>4. PICK m \in S : A = Above(m)
    OBVIOUS
  <1>5. ASSUME NEW n \in S, ~ (m >= n) PROVE FALSE
    <2>1. m \in Nat /\ n \in Nat /\ n > m
      BY <1>5
    <2>2. \A k \in S : k > n => k > m
      BY <2>1
    <2>3. Above(n) \subseteq Above(m) /\ n \in Above(m) /\ n \notin Above(n)
      <3>1. Above(n) \subseteq Above(m)
        BY <2>2
      <3>2. n \in Above(m) /\ ~ (n > n)
        BY <2>1
      <3> QED
        BY <3>1, <3>2
    <2>4. Above(n) \in Aboves
      OBVIOUS
    <2>5. <<Above(n), A>> \in StrictSubsetOrdering(S)
      BY <1>4, <2>3 DEF StrictSubsetOrdering
    <2> QED
      BY <1>3, <2>4, <2>5
  <1> QED
    BY <1>5 DEF Max

LEMMA NextIndexIsNat ==
    ASSUME TypeOK, Numbered # {}
    PROVE  1 + Max({index[p] : p \in Numbered}) \in Nat
  <1> DEFINE S == {index[p] : p \in Numbered}
  <1>1. S \subseteq Nat /\ S # {}
    <2>1. \A p \in Numbered : index[p] \in Nat
      BY DEF TypeOK, Numbered
    <2> QED
      BY <2>1
  <1>2. IsFiniteSet(S)
    <2>1. IsFiniteSet(Numbered)
      BY FS_Subset DEF Numbered
    <2>2. [p \in Numbered |-> index[p]] \in Surjection(Numbered, S)
      BY DEF Surjection
    <2> HIDE DEF S
    <2> QED
      BY <2>1, <2>2, FS_Surjection
  <1>3. Max(S) \in Nat
    <2> HIDE DEF S
    <2> QED
      BY <1>1, <1>2, HasMax
  <1> QED
    BY <1>3

\* Forgetting a row keeps the type of the rows a checker holds.
LEMMA RowsType ==
    ASSUME TypeOK, NEW c \in Checkers, NEW o \in Orders,
           NEW row \in Inserted \union {"absent"},
           rows' = [rows EXCEPT ![c][o] = row]
    PROVE  rows' \in [Checkers -> [Orders -> Inserted \union {"absent"}]]
  <1>1. [rows[c] EXCEPT ![o] = row] \in [Orders -> Inserted \union {"absent"}]
    BY DEF TypeOK
  <1> QED
    BY <1>1 DEF TypeOK

\* A checker's own variables keep their types, whether it goes on or drops the row.
CheckersType ==
    /\ pc   \in [Checkers -> Places]
    /\ rows \in [Checkers -> [Orders -> Inserted \union {"absent"}]]
    /\ cur  \in [Checkers -> SUBSET Orders]
    /\ base \in [Checkers -> Nat]

LEMMA GoOnType ==
    ASSUME TypeOK, NEW c \in Checkers, NEW o \in Orders, NEW place \in Places,
           GoOn(c, o, place)
    PROVE  CheckersType'
  <1>1. rows' \in [Checkers -> [Orders -> Inserted \union {"absent"}]]
    BY RowsType DEF GoOn
  <1> QED
    BY <1>1 DEF GoOn, CheckersType, TypeOK

LEMMA DropType ==
    ASSUME TypeOK, NEW c \in Checkers, NEW o \in Orders, Drop(c, o)
    PROVE  CheckersType'
  <1>1. rows' \in [Checkers -> [Orders -> Inserted \union {"absent"}]]
    BY RowsType DEF Drop
  <1> QED
    BY <1>1 DEF Drop, CheckersType, TypeOK, Places

(* Every step keeps the types.                                               *)
LEMMA TypeStep == TypeOK /\ [Next]_vars => TypeOK'
  <1> SUFFICES ASSUME TypeOK, [Next]_vars PROVE TypeOK'
    OBVIOUS
  <1> USE DEF TypeOK, Statuses, Inserted, Places, orders, world, accounts, checkers
  <1>1. ASSUME NEW o \in Orders, NumberOrder(o) PROVE TypeOK'
    <2> DEFINE i == IF Numbered = {} THEN 0 ELSE 1 + Max({index[p] : p \in Numbered})
    <2>1. i \in Nat
      BY NextIndexIsNat
    <2>2. index' = [index EXCEPT ![o] = i] /\ status' = [status EXCEPT ![o] = "numbering"]
      BY <1>1 DEF NumberOrder
    <2> HIDE DEF i
    <2> QED
      BY <1>1, <2>1, <2>2 DEF NumberOrder
  <1>2. ASSUME NEW o \in Orders, InsertOrder(o) \/ Pay(o) \/ Ripen(o) \/ Expire(o) PROVE TypeOK'
    BY <1>2 DEF InsertOrder, Pay, Ripen, Expire
  <1>3. ASSUME NEW c \in Scanners, Scan(c) PROVE TypeOK'
    BY <1>3 DEF Scan, Checkers
  <1>4. ASSUME NEW c \in Readers, NEW o \in Orders, GetOrder(c, o) PROVE TypeOK'
    BY <1>4 DEF GetOrder, Checkers
  <1>5. ASSUME NEW c \in Checkers, Refresh(c) PROVE TypeOK'
    <2>1. PICK o \in Orders :
             \/ RefreshConfirmed(c, o) \/ RefreshPaid(c, o) \/ AskChain(c, o)
             \/ MarkPaid(c, o) \/ MarkExpired(c, o)
             \/ CheckConfirmed(c, o) \/ WriteConfirmed(c, o)
             \/ ReadMembership(c, o) \/ WriteMembership(c, o)
      BY <1>5 DEF Refresh
    <2>c. CheckersType'
      <3>1. CASE ReadMembership(c, o)
        BY <3>1 DEF ReadMembership, CheckersType
      <3> HIDE DEF TypeOK, Inserted
      <3>2. CASE \E place \in Places : GoOn(c, o, place)
        BY <3>2, GoOnType
      <3>3. CASE Drop(c, o)
        BY <3>3, DropType
      <3> QED
        BY <2>1, <3>1, <3>2, <3>3
           DEF RefreshConfirmed, RefreshPaid, AskChain, MarkPaid, MarkExpired,
               CheckConfirmed, WriteConfirmed, WriteMembership
    <2> USE <2>c DEF CheckersType, Fault
    <2>2. CASE RefreshConfirmed(c, o) \/ RefreshPaid(c, o)
      BY <2>2 DEF RefreshConfirmed, RefreshPaid
    <2>3. CASE AskChain(c, o)
      BY <2>3 DEF AskChain
    <2>4. CASE MarkPaid(c, o)
      <3>1. status' \in [Orders -> Statuses]
        BY <2>4 DEF MarkPaid
      <3>2. faults' \in 0..MaxFaults
        BY <2>4 DEF MarkPaid
      <3> QED
        BY <2>4, <3>1, <3>2 DEF MarkPaid
    <2>5. CASE MarkExpired(c, o)
      <3>1. status' \in [Orders -> Statuses]
        BY <2>5 DEF MarkExpired
      <3>2. faults' \in 0..MaxFaults
        BY <2>5 DEF MarkExpired
      <3> QED
        BY <2>5, <3>1, <3>2 DEF MarkExpired
    <2>6. CASE CheckConfirmed(c, o)
      BY <2>6 DEF CheckConfirmed
    <2>7. CASE WriteConfirmed(c, o)
      BY <2>7 DEF WriteConfirmed
    <2>8. CASE ReadMembership(c, o)
      BY <2>8 DEF ReadMembership
    <2>9. CASE WriteMembership(c, o)
      <3>1. vip' \in [Users -> Nat] /\ credits' \in [Users -> Nat] /\ grants' \in [Orders -> Nat]
        <4>1. base[c] + 1 \in Nat
          OBVIOUS
        <4>2. CASE /\ vip'     = [vip EXCEPT ![UserOf[o]] = base[c] + 1]
                   /\ credits' = [credits EXCEPT ![UserOf[o]] = @ + 1]
                   /\ grants'  = [grants EXCEPT ![o] = @ + 1]
          <5>1. vip' \in [Users -> Nat]
            BY <4>1, <4>2
          <5>2. credits' \in [Users -> Nat]
            BY <4>2
          <5>3. grants' \in [Orders -> Nat]
            BY <4>2
          <5> QED
            BY <5>1, <5>2, <5>3
        <4>3. CASE UNCHANGED accounts
          BY <4>3
        <4> QED
          BY <2>9, <4>2, <4>3 DEF WriteMembership
      <3>2. faults' \in 0..MaxFaults
        BY <2>9 DEF WriteMembership
      <3> QED
        BY <2>9, <3>1, <3>2 DEF WriteMembership
    <2> QED
      BY <2>1, <2>2, <2>3, <2>4, <2>5, <2>6, <2>7, <2>8, <2>9
  <1>6. ASSUME NEW c \in Checkers, Crash(c) PROVE TypeOK'
    BY <1>6 DEF Crash, Fault, Nothing
  <1>7. CASE UNCHANGED vars
    BY <1>7 DEF vars
  <1> HIDE DEF TypeOK, Statuses, Inserted, Places, orders, world, accounts, checkers
  <1> QED
    BY <1>1, <1>2, <1>3, <1>4, <1>5, <1>6, <1>7 DEF Next

(* No step takes an order back.                                              *)
Forward(o) ==
    /\ chainPaid[o] => chainPaid'[o]
    /\ status[o] \in Inserted => status'[o] \in Inserted
    /\ status[o] \in {"paid", "confirmed"} => status'[o] \in {"paid", "confirmed"}
    /\ status[o] = "confirmed" => status'[o] = "confirmed"

LEMMA OrdersMoveForward ==
    ASSUME TypeOK, [Next]_vars
    PROVE  \A o \in Orders : Forward(o)
  <1> USE DEF TypeOK, Forward, Inserted
  <1>u. ASSUME UNCHANGED <<status, chainPaid>> PROVE \A o \in Orders : Forward(o)
    BY <1>u
  <1>1. ASSUME NEW p \in Orders, NumberOrder(p) \/ InsertOrder(p) \/ Pay(p)
        PROVE  \A o \in Orders : Forward(o)
    BY <1>1 DEF NumberOrder, InsertOrder, Pay, world, orders
  <1>2. ASSUME NEW p \in Orders, Ripen(p) \/ Expire(p) PROVE \A o \in Orders : Forward(o)
    BY <1>2, <1>u DEF Ripen, Expire, orders
  <1>3. ASSUME NEW c \in Checkers, Crash(c) \/ Scan(c) \/ \E p \in Orders : GetOrder(c, p)
        PROVE  \A o \in Orders : Forward(o)
    BY <1>3, <1>u DEF Crash, Scan, GetOrder, orders, world
  <1>4. ASSUME NEW c \in Checkers, NEW p \in Orders,
               \/ RefreshConfirmed(c, p) \/ RefreshPaid(c, p) \/ AskChain(c, p)
               \/ CheckConfirmed(c, p) \/ ReadMembership(c, p) \/ WriteMembership(c, p)
        PROVE  \A o \in Orders : Forward(o)
    BY <1>4, <1>u DEF RefreshConfirmed, RefreshPaid, AskChain, CheckConfirmed,
                      ReadMembership, WriteMembership, orders, world
  <1>5. ASSUME NEW c \in Checkers, NEW p \in Orders,
               MarkPaid(c, p) \/ MarkExpired(c, p) \/ WriteConfirmed(c, p)
        PROVE  \A o \in Orders : Forward(o)
    BY <1>5 DEF MarkPaid, MarkExpired, WriteConfirmed, world
  <1>6. CASE UNCHANGED vars
    BY <1>6, <1>u DEF vars
  <1> QED
    BY <1>1, <1>2, <1>3, <1>4, <1>5, <1>6 DEF Next, Refresh, Checkers

(* What a checker knows stays justified while it keeps or forgets it ...       *)
Remembers(c, o) ==
    /\ rows'[c][o] \in {rows[c][o], "absent"}
    /\ cur'[c] = {o} => cur[c] = {o} /\ pc'[c] = pc[c]

LEMMA KeptJustified ==
    ASSUME NEW c \in Checkers, NEW o \in Orders,
           Justified(c, o), Forward(o), Remembers(c, o)
    PROVE  Justified(c, o)'
  BY DEF Justified, Forward, Remembers

\* ... and dropping a row, or going on with it, is all a refresh does to that.
LEMMA DropRemembers ==
    ASSUME TypeOK, NEW c \in Checkers, NEW o \in Orders, Drop(c, o)
    PROVE  \A d \in Checkers, p \in Orders : Remembers(d, p)
  BY DEF TypeOK, Drop, Remembers

LEMMA GoOnRemembers ==
    ASSUME TypeOK, NEW c \in Checkers, NEW o \in Orders, NEW place, GoOn(c, o, place)
    PROVE  /\ \A d \in Checkers, p \in Orders : <<d, p>> # <<c, o>> => Remembers(d, p)
           /\ rows'[c][o] = "absent" /\ cur'[c] = {o} /\ pc'[c] = place
  BY DEF TypeOK, GoOn, Remembers

LEMMA DropJustified ==
    ASSUME Inv, [Next]_vars, NEW c \in Checkers, NEW o \in Orders, Drop(c, o)
    PROVE  AllJustified'
  BY OrdersMoveForward, DropRemembers, KeptJustified DEF Inv, AllJustified

LEMMA GoOnJustified ==
    ASSUME Inv, [Next]_vars, NEW c \in Checkers, NEW o \in Orders, NEW place, GoOn(c, o, place),
           /\ status'[o] \in Inserted
           /\ place = "found" => chainPaid'[o]
           /\ place \in {"confirm", "write"} => status'[o] \in {"paid", "confirmed"}
           /\ place \in {"activate", "grant"} => status'[o] = "confirmed"
    PROVE  AllJustified'
  <1>1. Justified(c, o)'
    BY GoOnRemembers DEF Justified, Inv, AllJustified
  <1>2. \A d \in Checkers, p \in Orders : <<d, p>> # <<c, o>> => Justified(d, p)'
    BY OrdersMoveForward, GoOnRemembers, KeptJustified DEF Inv, AllJustified
  <1> QED
    BY <1>1, <1>2 DEF AllJustified

LEMMA JustifiedStep == Inv /\ [Next]_vars => AllJustified'
  <1> SUFFICES ASSUME Inv, [Next]_vars PROVE AllJustified'
    OBVIOUS
  <1>0. TypeOK /\ AllJustified
    BY DEF Inv, AllJustified
  <1>f. \A o \in Orders : Forward(o)
    BY <1>0, OrdersMoveForward
  <1>k. (\A c \in Checkers, o \in Orders : Remembers(c, o)) => AllJustified'
    BY <1>0, <1>f, KeptJustified DEF AllJustified
  <1>1. ASSUME UNCHANGED checkers PROVE AllJustified'
    <2>1. \A c \in Checkers, o \in Orders : Remembers(c, o)
      BY <1>1 DEF checkers, Remembers
    <2> QED
      BY <1>k, <2>1
  <1>2. ASSUME NEW c \in Scanners, Scan(c) PROVE AllJustified'
    <2>1. UNCHANGED <<status, pc, cur, chainPaid>>
      BY <1>2 DEF Scan, orders, world
    <2>2. \A d \in Checkers, o \in Orders : rows'[d][o] \in {rows[d][o], "absent", status[o]}
      BY <1>0, <1>2 DEF Scan, TypeOK
    <2>3. \A d \in Checkers, o \in Orders :
             rows'[d][o] = rows[d][o] \/ rows'[d][o] \in {"absent", "pending", "paid"}
      BY <1>0, <1>2 DEF Scan, TypeOK
    <2> QED
      BY <1>0, <2>1, <2>2, <2>3 DEF AllJustified, Justified, Inserted
  <1>3. ASSUME NEW c \in Readers, NEW p \in Orders, GetOrder(c, p) PROVE AllJustified'
    <2>1. UNCHANGED <<status, pc, cur, chainPaid>> /\ status[p] \in Inserted
      BY <1>3 DEF GetOrder, orders, world
    <2>2. \A d \in Checkers, o \in Orders :
             rows'[d][o] = rows[d][o] \/ (o = p /\ rows'[d][o] = status[o])
      BY <1>0, <1>3 DEF GetOrder, TypeOK
    <2> QED
      BY <1>0, <2>1, <2>2 DEF AllJustified, Justified
  <1>4. ASSUME NEW c \in Checkers, NEW o \in Orders, Drop(c, o) PROVE AllJustified'
    BY <1>4, DropJustified
  <1>5. ASSUME NEW c \in Checkers, NEW o \in Orders, RefreshConfirmed(c, o) PROVE AllJustified'
    BY <1>4, <1>5 DEF RefreshConfirmed
  <1>6. ASSUME NEW c \in Checkers, NEW o \in Orders, RefreshPaid(c, o) PROVE AllJustified'
    <2>1. status'[o] \in {"paid", "confirmed"}
      BY <1>0, <1>f, <1>6 DEF RefreshPaid, AllJustified, Justified, Forward
    <2>2. CASE GoOn(c, o, "confirm")
      BY <2>1, <2>2, GoOnJustified DEF Inserted
    <2> QED
      BY <1>4, <1>6, <2>2 DEF RefreshPaid
  <1>7. ASSUME NEW c \in Checkers, NEW o \in Orders, AskChain(c, o) PROVE AllJustified'
    <2>1. status'[o] \in Inserted
      BY <1>0, <1>f, <1>7 DEF AskChain, AllJustified, Justified, Forward
    <2>2. CASE chainPaid[o] /\ GoOn(c, o, "found")
      BY <1>f, <2>1, <2>2, GoOnJustified DEF Forward
    <2>3. CASE GoOn(c, o, "late")
      BY <2>1, <2>3, GoOnJustified
    <2> QED
      BY <1>4, <1>7, <2>2, <2>3 DEF AskChain
  <1>8. ASSUME NEW c \in Checkers, NEW o \in Orders, MarkPaid(c, o) PROVE AllJustified'
    <2>1. ASSUME status' = [status EXCEPT ![o] = IF @ \in {"pending", "expired"} THEN "paid" ELSE @]
          PROVE  status'[o] \in {"paid", "confirmed"}
      <3>1. status[o] \in Inserted
        BY <1>0, <1>8 DEF MarkPaid, AllJustified, Justified
      <3> QED
        BY <1>0, <2>1, <3>1 DEF Inserted, TypeOK
    <2>2. CASE /\ status' = [status EXCEPT ![o] = IF @ \in {"pending", "expired"} THEN "paid" ELSE @]
               /\ GoOn(c, o, "confirm")
      BY <2>1, <2>2, GoOnJustified DEF Inserted
    <2> QED
      BY <1>4, <1>8, <2>2 DEF MarkPaid
  <1>9. ASSUME NEW c \in Checkers, NEW o \in Orders, MarkExpired(c, o) PROVE AllJustified'
    BY <1>4, <1>9 DEF MarkExpired
  <1>10. ASSUME NEW c \in Checkers, NEW o \in Orders, CheckConfirmed(c, o) PROVE AllJustified'
    <2>1. status'[o] \in {"paid", "confirmed"}
      BY <1>0, <1>f, <1>10 DEF CheckConfirmed, AllJustified, Justified, Forward
    <2>2. CASE GoOn(c, o, "write")
      BY <2>1, <2>2, GoOnJustified DEF Inserted
    <2> QED
      BY <1>4, <1>10, <2>2 DEF CheckConfirmed
  <1>11. ASSUME NEW c \in Checkers, NEW o \in Orders, WriteConfirmed(c, o) PROVE AllJustified'
    <2>1. status[o] \in {"paid", "confirmed"}
      BY <1>0, <1>11 DEF WriteConfirmed, AllJustified, Justified
    <2>2. CASE /\ status' = [status EXCEPT ![o] = IF @ \in {"paid", "pending"} THEN "confirmed" ELSE @]
               /\ GoOn(c, o, "activate")
      <3>1. status'[o] = "confirmed"
        BY <1>0, <2>1, <2>2 DEF TypeOK
      <3> QED
        BY <2>2, <3>1, GoOnJustified DEF Inserted
    <2> QED
      BY <1>4, <1>11, <2>2 DEF WriteConfirmed
  <1>12. ASSUME NEW c \in Checkers, NEW o \in Orders, ReadMembership(c, o) PROVE AllJustified'
    <2>1. UNCHANGED <<status, rows, cur, chainPaid>> /\ pc[c] = "activate"
      BY <1>12 DEF ReadMembership, orders, world
    <2>2. \A d \in Checkers : pc'[d] = pc[d] \/ (pc[d] = "activate" /\ pc'[d] = "grant")
      BY <1>0, <1>12 DEF ReadMembership, TypeOK
    <2> QED
      BY <1>0, <2>1, <2>2 DEF AllJustified, Justified
  <1>13. ASSUME NEW c \in Checkers, NEW o \in Orders, WriteMembership(c, o) PROVE AllJustified'
    BY <1>4, <1>13 DEF WriteMembership
  <1>14. ASSUME NEW c \in Checkers, Crash(c) PROVE AllJustified'
    <2>1. \A d \in Checkers, o \in Orders : Remembers(d, o)
      BY <1>0, <1>14 DEF Crash, Nothing, Remembers, TypeOK
    <2> QED
      BY <1>k, <2>1
  <1>15. ASSUME NEW o \in Orders,
                NumberOrder(o) \/ InsertOrder(o) \/ Pay(o) \/ Ripen(o) \/ Expire(o)
         PROVE  AllJustified'
    BY <1>1, <1>15 DEF NumberOrder, InsertOrder, Pay, Ripen, Expire
  <1>16. CASE UNCHANGED vars
    BY <1>1, <1>16 DEF vars, checkers
  <1> QED
    BY <1>2, <1>3, <1>5, <1>6, <1>7, <1>8, <1>9, <1>10, <1>11, <1>12, <1>13, <1>14, <1>15, <1>16
       DEF Next, Refresh

(* A row becomes paid only in the hands of a checker that found the transfer,  *)
(* and confirmed only if it was paid before.                                 *)
LEMMA NewlyPaid ==
    ASSUME Inv, [Next]_vars, NEW o \in Orders,
           status[o] \notin {"paid", "confirmed"}, status'[o] \in {"paid", "confirmed"}
    PROVE  chainPaid[o]
  <1>0. TypeOK /\ AllJustified
    BY DEF Inv
  <1> USE <1>0 DEF TypeOK
  <1>u. status' # status
    OBVIOUS
  <1>1. ASSUME NEW p \in Orders,
               NumberOrder(p) \/ InsertOrder(p) \/ Pay(p) \/ Ripen(p) \/ Expire(p)
        PROVE  FALSE
    BY <1>1 DEF NumberOrder, InsertOrder, Pay, Ripen, Expire, orders
  <1>2. ASSUME NEW c \in Checkers, NEW p \in Orders, MarkPaid(c, p) PROVE chainPaid[o]
    <2>1. p = o /\ cur[c] = {o} /\ pc[c] = "found"
      BY <1>2 DEF MarkPaid
    <2> QED
      BY <2>1 DEF AllJustified, Justified
  <1>3. ASSUME NEW c \in Checkers, NEW p \in Orders, MarkExpired(c, p) PROVE FALSE
    BY <1>3 DEF MarkExpired
  <1>4. ASSUME NEW c \in Checkers, NEW p \in Orders, WriteConfirmed(c, p) PROVE FALSE
    <2>1. p = o /\ cur[c] = {o} /\ pc[c] = "write"
      BY <1>4 DEF WriteConfirmed
    <2> QED
      BY <2>1 DEF AllJustified, Justified
  <1>5. ASSUME NEW c \in Checkers,
               \/ Scan(c) \/ Crash(c)
               \/ \E p \in Orders :
                     \/ GetOrder(c, p) \/ RefreshConfirmed(c, p) \/ RefreshPaid(c, p)
                     \/ AskChain(c, p) \/ CheckConfirmed(c, p)
                     \/ ReadMembership(c, p) \/ WriteMembership(c, p)
        PROVE  FALSE
    BY <1>u, <1>5 DEF Scan, Crash, GetOrder, RefreshConfirmed, RefreshPaid, AskChain,
                      CheckConfirmed, ReadMembership, WriteMembership, orders
  <1>6. CASE UNCHANGED vars
    BY <1>u, <1>6 DEF vars
  <1> QED
    BY <1>1, <1>2, <1>3, <1>4, <1>5, <1>6 DEF Next, Refresh, Checkers

LEMMA PaidStep == Inv /\ [Next]_vars => PaidIsOnChain'
  <1> SUFFICES ASSUME Inv, [Next]_vars, NEW o \in Orders, status'[o] \in {"paid", "confirmed"}
               PROVE  chainPaid'[o]
    BY DEF PaidIsOnChain
  <1>1. chainPaid[o]
    BY NewlyPaid DEF Inv, PaidIsOnChain
  <1> QED
    BY <1>1, OrdersMoveForward DEF Inv, Forward

(* A membership is only granted for a confirmed order.                        *)
LEMMA GrantStep == Inv /\ [Next]_vars => ActivatedIsConfirmed'
  <1> SUFFICES ASSUME Inv, [Next]_vars, NEW o \in Orders, grants'[o] > 0
               PROVE  status[o] = "confirmed"
    BY OrdersMoveForward DEF ActivatedIsConfirmed, Inv, Forward
  <1>0. TypeOK /\ AllJustified /\ ActivatedIsConfirmed
    BY DEF Inv
  <1>1. CASE grants'[o] = grants[o]
    BY <1>0, <1>1 DEF ActivatedIsConfirmed
  <1>2. CASE grants'[o] # grants[o]
    <2>1. PICK c \in Checkers, p \in Orders : WriteMembership(c, p)
      <3>1. grants' # grants
        BY <1>2
      <3> QED
        BY <3>1 DEF Next, Refresh, vars, accounts, Checkers, NumberOrder, InsertOrder,
                    Pay, Ripen, Expire, Scan, GetOrder, RefreshConfirmed, RefreshPaid,
                    AskChain, MarkPaid, MarkExpired, CheckConfirmed, WriteConfirmed,
                    ReadMembership, Crash
    <2>2. p = o /\ cur[c] = {o} /\ pc[c] = "grant"
      BY <1>0, <1>2, <2>1 DEF WriteMembership, TypeOK, accounts
    <2> QED
      BY <1>0, <2>2 DEF AllJustified, Justified
  <1> QED
    BY <1>1, <1>2

(* Addresses stay unique: the table only changes its addresses by an INSERT,  *)
(* and that one is refused when the address is taken.                        *)
LEMMA AddressStep == Inv /\ NoSharedAddress /\ [Next]_vars => NoSharedAddress'
  <1> SUFFICES ASSUME Inv, NoSharedAddress, [Next]_vars PROVE NoSharedAddress'
    OBVIOUS
  <1>0. TypeOK /\ AllJustified
    BY DEF Inv
  <1> USE <1>0 DEF TypeOK, NoSharedAddress, Numbered
  <1>k. ASSUME \A o \in Orders : status'[o] \in Inserted =>
                  status[o] \in Inserted /\ index'[o] = index[o]
        PROVE  NoSharedAddress'
    BY <1>k
  <1>1. ASSUME NEW o \in Orders, NumberOrder(o) PROVE NoSharedAddress'
    BY <1>1, <1>k DEF NumberOrder, Inserted
  <1>2. ASSUME NEW o \in Orders, InsertOrder(o) PROVE NoSharedAddress'
    <2>1. CASE \E p \in Numbered : index[p] = index[o]
      BY <1>2, <1>k, <2>1 DEF InsertOrder, Inserted
    <2>2. CASE ~ \E p \in Numbered : index[p] = index[o]
      <3>1. status'[o] = "pending" /\ index' = index
        BY <1>2, <2>2 DEF InsertOrder
      <3>2. \A p \in Orders \ {o} : status'[p] = status[p]
        BY <1>2 DEF InsertOrder
      <3> QED
        BY <2>2, <3>1, <3>2
    <2> QED
      BY <2>1, <2>2
  <1>3. ASSUME NEW c \in Checkers, NEW o \in Orders,
               MarkPaid(c, o) \/ MarkExpired(c, o) \/ WriteConfirmed(c, o)
        PROVE  NoSharedAddress'
    <2>1. status[o] \in Inserted /\ index' = index
      BY <1>3 DEF MarkPaid, MarkExpired, WriteConfirmed, AllJustified, Justified
    <2>2. \A p \in Orders \ {o} : status'[p] = status[p]
      BY <1>3 DEF MarkPaid, MarkExpired, WriteConfirmed
    <2> QED
      BY <1>k, <2>1, <2>2
  <1>4. ASSUME UNCHANGED orders PROVE NoSharedAddress'
    BY <1>k, <1>4 DEF orders
  <1>5. ASSUME NEW c \in Checkers,
               \/ Scan(c) \/ Crash(c)
               \/ \E p \in Orders :
                     \/ GetOrder(c, p) \/ RefreshConfirmed(c, p) \/ RefreshPaid(c, p)
                     \/ AskChain(c, p) \/ CheckConfirmed(c, p)
                     \/ ReadMembership(c, p) \/ WriteMembership(c, p)
        PROVE  NoSharedAddress'
    BY <1>4, <1>5 DEF Scan, Crash, GetOrder, RefreshConfirmed, RefreshPaid, AskChain,
                      CheckConfirmed, ReadMembership, WriteMembership
  <1>6. ASSUME NEW o \in Orders, Pay(o) \/ Ripen(o) \/ Expire(o) PROVE NoSharedAddress'
    BY <1>4, <1>6 DEF Pay, Ripen, Expire
  <1>7. CASE UNCHANGED vars
    BY <1>4, <1>7 DEF vars, orders
  <1> QED
    BY <1>1, <1>2, <1>3, <1>5, <1>6, <1>7 DEF Next, Refresh, Checkers

\* The inductive invariant holds of every behaviour.
THEOREM InvHolds == Spec => []Inv
  <1>1. Inv /\ [Next]_vars => Inv'
    BY TypeStep, PaidStep, JustifiedStep, GrantStep DEF Inv
  <1> QED
    BY InitInv, <1>1, PTL DEF Spec

\* Every variable keeps its type.
THEOREM TypeCorrect == Spec => []TypeOK
  <1>1. Inv => TypeOK
    BY DEF Inv
  <1> QED
    BY <1>1, InvHolds, PTL

\* Whatever rows the checkers remember and whatever fails, a membership is
\* activated only for an order whose transfer is on the chain.
THEOREM ActivationNeedsPayment == Spec => []ActivatedOnlyIfPaid
  <1>1. Inv => ActivatedOnlyIfPaid
    BY DEF Inv, ActivatedOnlyIfPaid, ActivatedIsConfirmed, PaidIsOnChain
  <1> QED
    BY <1>1, InvHolds, PTL

\* No deposit address is ever shared by two orders.
THEOREM AddressesAreUnique == Spec => []NoSharedAddress
  <1>1. Init => NoSharedAddress
    BY DEF Init, NoSharedAddress, Numbered, Nothing, Inserted
  <1> QED
    BY <1>1, AddressStep, InvHolds, PTL DEF Spec

\* A checker with an outdated row never takes a paid or confirmed order back.
THEOREM PaymentIsRemembered == Spec => PaymentNotForgotten
  <1>1. Inv /\ [Next]_vars =>
          [\A o \in Orders :
              /\ status[o] = "paid" => status'[o] \in {"paid", "confirmed"}
              /\ status[o] = "confirmed" => status'[o] = "confirmed"]_vars
    BY OrdersMoveForward DEF Inv, Forward
  <1> QED
    BY <1>1, InvHolds, PTL DEF Spec, PaymentNotForgotten

-----------------------------------------------------------------------------
(* How often a membership is activated.  The confirming transaction lets any   *)
(* number of checkers through before one of them writes, but each of them     *)
(* activates once, and nobody comes after the first who did.                  *)

\* The checkers that are past the check of the confirming transaction.
Admitted(o) == {c \in Checkers : cur[c] = {o} /\ pc[c] \in {"write", "activate", "grant"}}

ActivationsLimited(o) == grants[o] + Cardinality(Admitted(o)) <= Cardinality(Checkers)

\* What a step does to the activations of an order and to those who may add one.
NobodyAdmitted(o) == grants'[o] = grants[o] /\ Admitted(o)' \subseteq Admitted(o)
NotYetActivated(o) == grants'[o] = 0
ActivatedBy(c, o) ==
    /\ grants'[o] = grants[o] + 1
    /\ c \in Admitted(o) /\ Admitted(o)' \subseteq Admitted(o) \ {c}

LEMMA ActivationMoves ==
    ASSUME Inv, [Next]_vars, NEW o \in Orders
    PROVE  NobodyAdmitted(o) \/ NotYetActivated(o) \/ \E c \in Checkers : ActivatedBy(c, o)
  <1> DEFINE Goal == \/ NobodyAdmitted(o) \/ NotYetActivated(o)
                     \/ \E c \in Checkers : ActivatedBy(c, o)
  <1>0. TypeOK /\ ActivatedIsConfirmed
    BY DEF Inv
  <1>k. ASSUME UNCHANGED grants, \A c \in Checkers : Remembers(c, o) PROVE Goal
    BY <1>k DEF NobodyAdmitted, Admitted, Remembers
  <1>u. ASSUME UNCHANGED <<grants, pc, cur>> PROVE Goal
    BY <1>u DEF NobodyAdmitted, Admitted
  <1>d. ASSUME NEW c \in Checkers, NEW p \in Orders, Drop(c, p), UNCHANGED grants PROVE Goal
    BY <1>0, <1>d, <1>k, DropRemembers
  <1>g. ASSUME NEW c \in Checkers, NEW p \in Orders, NEW place, GoOn(c, p, place),
               UNCHANGED grants, place \notin {"write", "activate", "grant"}
        PROVE  Goal
    <2>1. \A d \in Checkers : d # c => Remembers(d, o)
      BY <1>0, <1>g, GoOnRemembers
    <2>2. c \notin Admitted(o)'
      BY <1>0, <1>g, GoOnRemembers DEF Admitted
    <2> QED
      BY <1>g, <2>1, <2>2 DEF NobodyAdmitted, Admitted, Remembers
  <1>1. ASSUME NEW p \in Orders,
               NumberOrder(p) \/ InsertOrder(p) \/ Pay(p) \/ Ripen(p) \/ Expire(p)
        PROVE  Goal
    BY <1>1, <1>u DEF NumberOrder, InsertOrder, Pay, Ripen, Expire, accounts, checkers
  <1>2. ASSUME NEW c \in Checkers, Scan(c) \/ \E p \in Orders : GetOrder(c, p) PROVE Goal
    BY <1>2, <1>u DEF Scan, GetOrder, accounts
  <1>3. ASSUME NEW c \in Checkers, NEW p \in Orders,
               \/ RefreshConfirmed(c, p) \/ RefreshPaid(c, p) \/ AskChain(c, p)
               \/ MarkPaid(c, p) \/ MarkExpired(c, p)
        PROVE  Goal
    <2>1. UNCHANGED grants /\ (Drop(c, p) \/ \E place \in {"found", "late", "confirm"} : GoOn(c, p, place))
      BY <1>3 DEF RefreshConfirmed, RefreshPaid, AskChain, MarkPaid, MarkExpired, accounts
    <2> QED
      BY <1>d, <1>g, <2>1
  <1>4. ASSUME NEW c \in Checkers, NEW p \in Orders, CheckConfirmed(c, p) PROVE Goal
    <2>1. UNCHANGED grants
      BY <1>4 DEF CheckConfirmed, accounts
    <2>2. CASE Drop(c, p)
      BY <1>d, <2>1, <2>2
    <2>3. CASE status[p] # "confirmed" /\ GoOn(c, p, "write")
      <3>1. CASE p = o
        <4>1. grants[o] \in Nat /\ ~(grants[o] > 0)
          BY <1>0, <2>3, <3>1 DEF ActivatedIsConfirmed, TypeOK
        <4> QED
          BY <2>1, <4>1 DEF NotYetActivated
      <3>2. CASE p # o
        <4>1. \A d \in Checkers : cur'[d] = {o} => Remembers(d, o)
          BY <1>0, <2>3, <3>2, GoOnRemembers
        <4> QED
          BY <2>1, <4>1 DEF NobodyAdmitted, Admitted, Remembers
      <3> QED
        BY <3>1, <3>2
    <2> QED
      BY <1>4, <2>2, <2>3 DEF CheckConfirmed
  <1>5. ASSUME NEW c \in Checkers, NEW p \in Orders, WriteConfirmed(c, p) PROVE Goal
    <2>1. UNCHANGED grants /\ pc[c] = "write" /\ cur[c] = {p}
      BY <1>5 DEF WriteConfirmed, accounts
    <2>2. CASE Drop(c, p)
      BY <1>d, <2>1, <2>2
    <2>3. CASE GoOn(c, p, "activate")
      <3>1. \A d \in Checkers : d # c => Remembers(d, o)
        BY <1>0, <2>3, GoOnRemembers
      <3>2. cur'[c] = cur[c]
        BY <1>0, <2>1, <2>3, GoOnRemembers
      <3> QED
        BY <2>1, <3>1, <3>2 DEF NobodyAdmitted, Admitted, Remembers
    <2> QED
      BY <1>5, <2>2, <2>3 DEF WriteConfirmed
  <1>6. ASSUME NEW c \in Checkers, NEW p \in Orders, ReadMembership(c, p) PROVE Goal
    <2>1. UNCHANGED <<grants, cur>> /\ pc[c] = "activate" /\ pc' = [pc EXCEPT ![c] = "grant"]
      BY <1>6 DEF ReadMembership, accounts
    <2> QED
      BY <1>0, <2>1 DEF NobodyAdmitted, Admitted, TypeOK
  <1>7. ASSUME NEW c \in Checkers, NEW p \in Orders, WriteMembership(c, p) PROVE Goal
    <2>1. Drop(c, p) /\ pc[c] = "grant" /\ cur[c] = {p}
      BY <1>7 DEF WriteMembership
    <2>2. CASE UNCHANGED accounts
      BY <1>d, <2>1, <2>2 DEF accounts
    <2>3. CASE grants' = [grants EXCEPT ![p] = @ + 1]
      <3>1. \A d \in Checkers : Remembers(d, o)
        BY <1>0, <2>1, DropRemembers
      <3>2. CASE p = o
        <4>1. cur'[c] = {}
          BY <1>0, <2>1 DEF Drop, TypeOK
        <4>2. c \in Admitted(o) /\ c \notin Admitted(o)'
          BY <2>1, <3>2, <4>1 DEF Admitted
        <4>3. Admitted(o)' \subseteq Admitted(o)
          BY <3>1 DEF Admitted, Remembers
        <4>4. grants'[o] = grants[o] + 1
          BY <1>0, <2>3, <3>2 DEF TypeOK
        <4> QED
          BY <4>2, <4>3, <4>4 DEF ActivatedBy
      <3>3. CASE p # o
        <4>1. grants'[o] = grants[o]
          BY <1>0, <2>3, <3>3 DEF TypeOK
        <4> QED
          BY <3>1, <4>1 DEF NobodyAdmitted, Admitted, Remembers
      <3> QED
        BY <3>2, <3>3
    <2> QED
      BY <1>7, <2>2, <2>3 DEF WriteMembership
  <1>8. ASSUME NEW c \in Checkers, Crash(c) PROVE Goal
    <2>1. \A d \in Checkers : Remembers(d, o)
      BY <1>0, <1>8 DEF Crash, Nothing, Remembers, TypeOK
    <2> QED
      BY <1>8, <1>k, <2>1 DEF Crash, accounts
  <1>9. CASE UNCHANGED vars
    BY <1>9, <1>u DEF vars
  <1> QED
    BY <1>1, <1>2, <1>3, <1>4, <1>5, <1>6, <1>7, <1>8, <1>9 DEF Next, Refresh, Checkers

LEMMA FiniteCheckers == IsFiniteSet(Checkers)
  BY CheckerAssumption DEF Checkers

LEMMA ActivationStep ==
    ASSUME NEW o \in Orders
    PROVE  Inv /\ ActivationsLimited(o) /\ [Next]_vars => ActivationsLimited(o)'
  <1> SUFFICES ASSUME Inv, ActivationsLimited(o), [Next]_vars PROVE ActivationsLimited(o)'
    OBVIOUS
  <1> DEFINE A == Admitted(o)
             B == Admitted(o)'
  <1>1. A \subseteq Checkers /\ B \subseteq Checkers
    BY DEF Admitted
  <1>2. /\ IsFiniteSet(A) /\ IsFiniteSet(B)
        /\ Cardinality(A) \in Nat /\ Cardinality(B) \in Nat /\ Cardinality(Checkers) \in Nat
        /\ Cardinality(B) <= Cardinality(Checkers)
    BY <1>1, FiniteCheckers, FS_Subset, FS_CardinalityType
  <1>3. grants[o] \in Nat /\ grants[o] + Cardinality(A) <= Cardinality(Checkers)
    BY DEF Inv, TypeOK, ActivationsLimited
  <1> SUFFICES grants'[o] + Cardinality(B) <= Cardinality(Checkers)
    BY DEF ActivationsLimited
  <1>4. CASE NobodyAdmitted(o)
    <2>1. grants'[o] = grants[o] /\ B \subseteq A
      BY <1>4 DEF NobodyAdmitted
    <2> HIDE DEF A, B
    <2>2. Cardinality(B) <= Cardinality(A)
      BY <1>2, <2>1, FS_Subset
    <2> QED
      BY <1>2, <1>3, <2>1, <2>2
  <1>5. CASE NotYetActivated(o)
    <2>1. grants'[o] = 0
      BY <1>5 DEF NotYetActivated
    <2> HIDE DEF A, B
    <2> QED
      BY <1>2, <2>1
  <1>6. ASSUME NEW c \in Checkers, ActivatedBy(c, o)
        PROVE  grants'[o] + Cardinality(B) <= Cardinality(Checkers)
    <2>1. grants'[o] = grants[o] + 1 /\ c \in A /\ B \subseteq A \ {c}
      BY <1>6 DEF ActivatedBy
    <2> HIDE DEF A, B
    <2>2. IsFiniteSet(A \ {c}) /\ Cardinality(A \ {c}) = Cardinality(A) - 1
      BY <1>2, <2>1, FS_RemoveElement
    <2>3. Cardinality(B) <= Cardinality(A) - 1
      BY <2>1, <2>2, FS_Subset
    <2> QED
      BY <1>2, <1>3, <2>1, <2>3
  <1> QED
    BY <1>4, <1>5, <1>6, ActivationMoves

LEMMA ActivationInit ==
    ASSUME NEW o \in Orders
    PROVE  Init => ActivationsLimited(o)
  <1> SUFFICES ASSUME Init PROVE ActivationsLimited(o)
    OBVIOUS
  <1>1. Admitted(o) = {} /\ grants[o] = 0
    BY DEF Init, Admitted
  <1> QED
    BY <1>1, FiniteCheckers, FS_EmptySet, FS_CardinalityType DEF ActivationsLimited

LEMMA ActivationsHold ==
    ASSUME NEW o \in Orders
    PROVE  Spec => []ActivationsLimited(o)
  <1>1. Inv /\ ActivationsLimited(o) /\ [Next]_vars => ActivationsLimited(o)'
    BY ActivationStep
  <1>2. Init => ActivationsLimited(o)
    BY ActivationInit
  <1> QED
    BY <1>1, <1>2, InvHolds, PTL DEF Spec

\* No order activates its membership more often than there are threads that look
\* after orders ...
THEOREM ActivationsBounded ==
    ASSUME NEW o \in Orders
    PROVE  Spec => [](grants[o] <= Cardinality(Checkers))
  <1>1. TypeOK /\ ActivationsLimited(o) => grants[o] <= Cardinality(Checkers)
    <2> SUFFICES ASSUME TypeOK, ActivationsLimited(o) PROVE grants[o] <= Cardinality(Checkers)
      OBVIOUS
    <2>1. /\ Cardinality(Admitted(o)) \in Nat /\ Cardinality(Checkers) \in Nat
      <3>1. Admitted(o) \subseteq Checkers
        BY DEF Admitted
      <3> QED
        BY <3>1, FiniteCheckers, FS_Subset, FS_CardinalityType
    <2>2. grants[o] \in Nat /\ grants[o] + Cardinality(Admitted(o)) <= Cardinality(Checkers)
      BY DEF TypeOK, ActivationsLimited
    <2> QED
      BY <2>1, <2>2
  <1> QED
    BY <1>1, TypeCorrect, ActivationsHold, PTL

\* ... so with one such thread the docstring of _confirm_and_activate_short_tx is
\* right: an order activates its membership at most once.
THEOREM AloneActivatesOnce ==
    ASSUME NEW c, Checkers = {c}
    PROVE  Spec => []ActivatedOnce
  <1>1. Cardinality(Checkers) = 1
    BY FS_Singleton
  <1>2. ASSUME NEW o \in Orders PROVE Spec => [](grants[o] <= 1)
    <2>1. Spec => [](grants[o] <= Cardinality(Checkers))
      BY <1>1, ActivationsBounded
    <2>2. grants[o] <= Cardinality(Checkers) => grants[o] <= 1
      BY <1>1
    <2> QED
      BY <2>1, <2>2, PTL
  <1> QED
    BY <1>2 DEF ActivatedOnce

-----------------------------------------------------------------------------
(* The payment keeps its promise.  What one step does to one order, in the    *)
(* terms of the promise; all the others are untouched by it.                 *)
PhaseOf(s) == CASE s \in {"pending", "expired"} -> "open"
                [] s \in {"paid", "confirmed"} -> s
                [] OTHER -> "none"

\* The table's phases, as the promise sees them.
Phases == [o \in Orders |-> PhaseOf(status[o])]

LEMMA PhaseChanges ==
    ASSUME TypeOK, NEW o \in Orders, NEW s, status' = [status EXCEPT ![o] = s]
    PROVE  Phases' = [Phases EXCEPT ![o] = PhaseOf(s)]
  <1>1. \A p \in Orders : status'[p] = IF p = o THEN s ELSE status[p]
    BY DEF TypeOK
  <1>2. \A p \in Orders : Phases'[p] = IF p = o THEN PhaseOf(s) ELSE Phases[p]
    BY <1>1 DEF Phases
  <1> QED
    BY <1>2 DEF Phases

LEMMA PhaseStays ==
    ASSUME TypeOK, NEW o \in Orders, NEW s, status' = [status EXCEPT ![o] = s],
           PhaseOf(s) = PhaseOf(status[o])
    PROVE  Phases' = Phases
  BY PhaseChanges DEF Phases

LEMMA PaymentStep ==
    Inv /\ (\A o \in Orders : grants'[o] <= Cardinality(Checkers)) /\ [Next]_vars => [Payment!Next]_(Payment!vars)
  <1> SUFFICES ASSUME Inv, \A o \in Orders : grants'[o] <= Cardinality(Checkers), [Next]_vars
               PROVE  [Payment!Next]_(Payment!vars)
    OBVIOUS
  <1> DEFINE phase == [o \in Orders |-> CASE status[o] \in {"pending", "expired"} -> "open"
                                         [] status[o] \in {"paid", "confirmed"} -> status[o]
                                         [] OTHER -> "none"]
  <1>0. TypeOK /\ PaidIsOnChain /\ AllJustified
    BY DEF Inv
  <1>p. phase = Phases /\ phase' = Phases'
    BY DEF Phases, PhaseOf
  <1>f. \A o \in Orders : phase[o] = PhaseOf(status[o])
    BY DEF PhaseOf
  <1> HIDE DEF phase
  <1>u. ASSUME UNCHANGED <<chainPaid, grants, credits>>, phase' = phase
        PROVE  [Payment!Next]_(Payment!vars)
    BY <1>u DEF Payment!vars, phase
  <1>s. ASSUME UNCHANGED status PROVE phase' = phase
    BY <1>s DEF phase
  <1>n. ASSUME NEW o \in Orders,
               \/ Payment!Open(o) \/ Payment!Transfer(o) \/ Payment!Accept(o)
               \/ Payment!Confirm(o) \/ Payment!Activate(o)
        PROVE  [Payment!Next]_(Payment!vars)
    BY <1>n DEF Payment!Next
  <1>1. ASSUME NEW o \in Orders, NumberOrder(o) PROVE phase' = phase
    <2>1. status' = [status EXCEPT ![o] = "numbering"] /\ status[o] = "absent"
      BY <1>1 DEF NumberOrder
    <2>2. PhaseOf("numbering") = PhaseOf("absent")
      BY DEF PhaseOf
    <2> QED
      BY <1>0, <1>p, <2>1, <2>2, PhaseStays
  <1>2. ASSUME NEW o \in Orders, InsertOrder(o) PROVE [Payment!Next]_(Payment!vars)
    <2>1. UNCHANGED <<chainPaid, grants, credits>> /\ status[o] = "numbering"
      BY <1>2 DEF InsertOrder, world, accounts
    <2>2. CASE status' = [status EXCEPT ![o] = "rejected"]
      <3>1. PhaseOf("rejected") = PhaseOf("numbering")
        BY DEF PhaseOf
      <3> QED
        BY <1>0, <1>p, <1>u, <2>1, <2>2, <3>1, PhaseStays
    <2>3. CASE status' = [status EXCEPT ![o] = "pending"]
      <3>1. phase[o] = "none" /\ phase' = [phase EXCEPT ![o] = "open"]
        BY <1>0, <1>p, <1>f, <2>1, <2>3, PhaseChanges DEF PhaseOf
      <3> QED
        BY <1>n, <2>1, <3>1 DEF Payment!Open, phase
    <2> QED
      BY <1>2, <2>2, <2>3 DEF InsertOrder
  <1>3. ASSUME NEW o \in Orders, Pay(o) PROVE [Payment!Next]_(Payment!vars)
    <2>1. /\ chainPaid' = [chainPaid EXCEPT ![o] = TRUE] /\ UNCHANGED <<status, grants, credits>>
          /\ status[o] \in Inserted
      BY <1>3 DEF Pay, orders, accounts
    <2>2. phase[o] # "none"
      BY <1>f, <2>1 DEF PhaseOf, Inserted
    <2> QED
      BY <1>n, <1>s, <2>1, <2>2 DEF Payment!Transfer, phase
  <1>4. ASSUME NEW o \in Orders, Ripen(o) \/ Expire(o) PROVE [Payment!Next]_(Payment!vars)
    BY <1>4, <1>s, <1>u DEF Ripen, Expire, orders, accounts
  <1>5. ASSUME NEW c \in Checkers,
               \/ Scan(c) \/ Crash(c)
               \/ \E p \in Orders :
                     \/ GetOrder(c, p) \/ RefreshConfirmed(c, p) \/ RefreshPaid(c, p)
                     \/ AskChain(c, p) \/ CheckConfirmed(c, p) \/ ReadMembership(c, p)
        PROVE  [Payment!Next]_(Payment!vars)
    BY <1>5, <1>s, <1>u DEF Scan, Crash, GetOrder, RefreshConfirmed, RefreshPaid, AskChain,
                            CheckConfirmed, ReadMembership, orders, world, accounts
  <1>6. ASSUME NEW c \in Checkers, NEW o \in Orders, MarkPaid(c, o)
        PROVE  [Payment!Next]_(Payment!vars)
    <2>1. UNCHANGED <<chainPaid, grants, credits>> /\ cur[c] = {o} /\ pc[c] = "found"
      BY <1>6 DEF MarkPaid, world, accounts
    <2>2. chainPaid[o]
      BY <1>0, <2>1 DEF AllJustified, Justified
    <2>3. CASE status[o] \in {"pending", "expired"} /\ status' = [status EXCEPT ![o] = "paid"]
      <3>1. phase[o] = "open" /\ phase' = [phase EXCEPT ![o] = "paid"]
        BY <1>0, <1>p, <1>f, <2>3, PhaseChanges DEF PhaseOf
      <3> QED
        BY <1>n, <2>1, <2>2, <3>1 DEF Payment!Accept, phase
    <2>4. CASE UNCHANGED status
      BY <1>s, <1>u, <2>1, <2>4
    <2>5. \/ UNCHANGED status
          \/ status[o] \in {"pending", "expired"} /\ status' = [status EXCEPT ![o] = "paid"]
      BY <1>0, <1>6 DEF MarkPaid, TypeOK
    <2> QED
      BY <2>3, <2>4, <2>5
  <1>7. ASSUME NEW c \in Checkers, NEW o \in Orders, MarkExpired(c, o)
        PROVE  [Payment!Next]_(Payment!vars)
    <2>1. UNCHANGED <<chainPaid, grants, credits>>
      BY <1>7 DEF MarkExpired, world, accounts
    <2>2. \/ UNCHANGED status
          \/ status[o] = "pending" /\ status' = [status EXCEPT ![o] = "expired"]
      BY <1>0, <1>7 DEF MarkExpired, TypeOK
    <2>3. PhaseOf("expired") = PhaseOf("pending")
      BY DEF PhaseOf
    <2> QED
      BY <1>0, <1>p, <1>s, <1>u, <2>1, <2>2, <2>3, PhaseStays
  <1>8. ASSUME NEW c \in Checkers, NEW o \in Orders, WriteConfirmed(c, o)
        PROVE  [Payment!Next]_(Payment!vars)
    <2>1. UNCHANGED <<chainPaid, grants, credits>> /\ cur[c] = {o} /\ pc[c] = "write"
      BY <1>8 DEF WriteConfirmed, world, accounts
    <2>2. status[o] \in {"paid", "confirmed"}
      BY <1>0, <2>1 DEF AllJustified, Justified
    <2>3. \/ UNCHANGED status
          \/ status[o] = "paid" /\ status' = [status EXCEPT ![o] = "confirmed"]
      BY <1>0, <1>8, <2>2 DEF WriteConfirmed, TypeOK
    <2>4. CASE status[o] = "paid" /\ status' = [status EXCEPT ![o] = "confirmed"]
      <3>1. phase[o] = "paid" /\ phase' = [phase EXCEPT ![o] = "confirmed"]
        BY <1>0, <1>p, <1>f, <2>4, PhaseChanges DEF PhaseOf
      <3> QED
        BY <1>n, <2>1, <3>1 DEF Payment!Confirm, phase
    <2> QED
      BY <1>s, <1>u, <2>1, <2>3, <2>4
  <1>9. ASSUME NEW c \in Checkers, NEW o \in Orders, WriteMembership(c, o)
        PROVE  [Payment!Next]_(Payment!vars)
    <2>1. UNCHANGED <<status, chainPaid>> /\ cur[c] = {o} /\ pc[c] = "grant"
      BY <1>9 DEF WriteMembership, world, orders
    <2>2. CASE UNCHANGED accounts
      BY <1>s, <1>u, <2>1, <2>2 DEF accounts
    <2>3. CASE /\ grants' = [grants EXCEPT ![o] = @ + 1]
               /\ credits' = [credits EXCEPT ![UserOf[o]] = @ + 1]
      <3>1. phase[o] = "confirmed"
        <4>1. status[o] = "confirmed"
          BY <1>0, <2>1 DEF AllJustified, Justified
        <4> QED
          BY <1>f, <4>1 DEF PhaseOf
      <3>2. grants[o] < Cardinality(Checkers)
        <4>1. grants'[o] = grants[o] + 1 /\ grants'[o] <= Cardinality(Checkers) /\ grants[o] \in Nat
          BY <1>0, <2>3 DEF TypeOK
        <4>2. Cardinality(Checkers) \in Nat
          BY FiniteCheckers, FS_CardinalityType
        <4> QED
          BY <4>1, <4>2
      <3> QED
        BY <1>n, <1>s, <2>1, <2>3, <3>1, <3>2 DEF Payment!Activate, phase
    <2> QED
      BY <1>9, <2>2, <2>3 DEF WriteMembership
  <1>10. ASSUME UNCHANGED vars PROVE [Payment!Next]_(Payment!vars)
    BY <1>10, <1>s, <1>u DEF vars
  <1>11. ASSUME NEW o \in Orders, NumberOrder(o) PROVE [Payment!Next]_(Payment!vars)
    BY <1>1, <1>11, <1>u DEF NumberOrder, world, accounts
  <1> QED
    BY <1>2, <1>3, <1>4, <1>5, <1>6, <1>7, <1>8, <1>9, <1>10, <1>11 DEF Next, Refresh, Checkers

LEMMA PaymentInit == Init => Payment!Init
  <1> SUFFICES ASSUME Init PROVE Payment!Init
    OBVIOUS
  <1>1. \A o \in Orders : status[o] = "absent"
    BY DEF Init, Nothing
  <1>2. [o \in Orders |-> CASE status[o] \in {"pending", "expired"} -> "open"
                          [] status[o] \in {"paid", "confirmed"} -> status[o]
                          [] OTHER -> "none"] = [o \in Orders |-> "none"]
    BY <1>1
  <1> QED
    BY <1>2 DEF Init, Payment!Init

\* Whatever the checkers remember and however they interleave, table, chain and
\* accounts together keep what a payment promises.
THEOREM PaymentKeepsPromise == Spec => KeepsPaymentPromise
  <1> DEFINE Bounded == \A o \in Orders : grants[o] <= Cardinality(Checkers)
  <1>1. Spec => []Bounded
    BY ActivationsBounded
  <1>2. Inv /\ Bounded /\ Bounded' /\ [Next]_vars => [Payment!Next]_(Payment!vars)
    BY PaymentStep
  <1> QED
    BY <1>1, <1>2, InvHolds, PaymentInit, PTL DEF Spec, KeepsPaymentPromise, Payment!Spec

-----------------------------------------------------------------------------
(* The accounts agree with the activations.                                  *)

\* What a checker has read of a membership is not more than was granted.
BaseSound(c) ==
    \A o \in Orders : pc[c] = "grant" /\ cur[c] = {o} => base[c] <= GrantsOf(UserOf[o])

AccountsInv ==
    /\ CreditsMatchGrants
    /\ \A c \in Checkers : BaseSound(c)

LEMMA OrdersOfFinite ==
    ASSUME NEW u
    PROVE  LET S == {o \in Orders : UserOf[o] = u} IN IsFiniteSet(S) /\ S \subseteq Orders
  BY FS_Subset

LEMMA GrantsOfIsNat == ASSUME TypeOK, NEW u PROVE GrantsOf(u) \in Nat
  <1> DEFINE S == {o \in Orders : UserOf[o] = u}
  <1>1. IsFiniteSet(S) /\ \A o \in S : grants[o] \in Nat
    BY OrdersOfFinite DEF TypeOK
  <1> HIDE DEF S
  <1>2. SumFunctionOnSet(grants, S) \in Nat
    BY <1>1, SumIsNatural
  <1> QED
    BY <1>2 DEF GrantsOf, S

LEMMA AccountsInit == Init => AccountsInv
  <1> SUFFICES ASSUME Init PROVE AccountsInv
    OBVIOUS
  <1>1. ASSUME NEW u PROVE GrantsOf(u) = 0
    <2> DEFINE S == {o \in Orders : UserOf[o] = u}
    <2>1. IsFiniteSet(S) /\ \A o \in S : grants[o] = 0
      BY OrdersOfFinite DEF Init
    <2> HIDE DEF S
    <2>2. SumFunctionOnSet(grants, S) = 0
      BY <2>1, SumOfZeros
    <2> QED
      BY <2>2 DEF GrantsOf, S
  <1> QED
    BY <1>1 DEF Init, AccountsInv, CreditsMatchGrants, BaseSound

\* One more activation of an order counts once, for the user of the order.
LEMMA GrantCounts ==
    ASSUME TypeOK, TypeOK', NEW u, NEW o \in Orders, grants'[o] = grants[o] + 1,
           \A p \in Orders \ {o} : grants'[p] = grants[p]
    PROVE  GrantsOf(u)' = IF UserOf[o] = u THEN GrantsOf(u) + 1 ELSE GrantsOf(u)
  <1> DEFINE S == {p \in Orders : UserOf[p] = u}
  <1>1. IsFiniteSet(S) /\ (o \in S <=> UserOf[o] = u)
    BY OrdersOfFinite
  <1>2. /\ \A p \in S : grants[p] \in Nat /\ grants'[p] \in Nat
        /\ \A p \in S \ {o} : grants'[p] = grants[p]
        /\ grants'[o] = grants[o] + 1 /\ grants[o] \in Nat
    BY DEF TypeOK
  <1>3. GrantsOf(u) = SumFunctionOnSet(grants, S) /\ GrantsOf(u)' = SumFunctionOnSet(grants', S)
    BY DEF GrantsOf
  <1> HIDE DEF S
  <1>4. SumFunctionOnSet(grants, S) \in Nat /\ SumFunctionOnSet(grants', S) \in Nat
    BY <1>1, <1>2, SumIsNatural
  <1>5. CASE o \in S
    <2>1. SumFunctionOnSet(grants', S) + grants[o] = SumFunctionOnSet(grants, S) + grants'[o]
      BY <1>1, <1>2, <1>5, SumChange
    <2> QED
      BY <1>1, <1>2, <1>3, <1>4, <1>5, <2>1
  <1>6. CASE o \notin S
    <2>1. \A p \in S : grants[p] \in Nat /\ grants'[p] = grants[p]
      BY <1>2, <1>6
    <2>2. SumFunctionOnSet(grants, S) = SumFunctionOnSet(grants', S)
      BY <1>1, <2>1, SumSame
    <2> QED
      BY <1>1, <1>3, <1>6, <2>2
  <1> QED
    BY <1>5, <1>6

LEMMA AccountsStep == TypeOK /\ TypeOK' /\ AccountsInv /\ [Next]_vars => AccountsInv'
  <1> SUFFICES ASSUME TypeOK, TypeOK', AccountsInv, [Next]_vars PROVE AccountsInv'
    OBVIOUS
  \* The accounts rest, and no checker newly stands before an activation.
  <1>r. ASSUME UNCHANGED accounts,
               \A c \in Checkers :
                  pc'[c] = "grant" => pc[c] = "grant" /\ UNCHANGED <<cur[c], base[c]>>
        PROVE  AccountsInv'
    <2>1. \A u : GrantsOf(u)' = GrantsOf(u)
      BY <1>r DEF GrantsOf, accounts
    <2> QED
      BY <1>r, <2>1 DEF AccountsInv, CreditsMatchGrants, BaseSound, accounts
  <1>1. ASSUME NEW o \in Orders,
               NumberOrder(o) \/ InsertOrder(o) \/ Pay(o) \/ Ripen(o) \/ Expire(o)
        PROVE  AccountsInv'
    BY <1>1, <1>r DEF NumberOrder, InsertOrder, Pay, Ripen, Expire, checkers
  <1>2. ASSUME NEW c \in Checkers, Scan(c) \/ \E o \in Orders : GetOrder(c, o)
        PROVE  AccountsInv'
    BY <1>2, <1>r DEF Scan, GetOrder
  <1>g. ASSUME UNCHANGED accounts, NEW c \in Checkers, NEW o \in Orders,
               Drop(c, o) \/ \E place \in Places \ {"grant"} : GoOn(c, o, place)
        PROVE  AccountsInv'
    <2>1. pc'[c] # "grant"
      BY <1>g DEF Drop, GoOn, TypeOK
    <2>2. \A d \in Checkers \ {c} : UNCHANGED <<pc[d], cur[d], base[d]>>
      BY <1>g DEF Drop, GoOn, TypeOK
    <2> QED
      BY <1>g, <1>r, <2>1, <2>2
  <1>3. ASSUME NEW c \in Checkers, NEW o \in Orders,
               \/ RefreshConfirmed(c, o) \/ RefreshPaid(c, o) \/ AskChain(c, o)
               \/ MarkPaid(c, o) \/ MarkExpired(c, o)
               \/ CheckConfirmed(c, o) \/ WriteConfirmed(c, o)
        PROVE  AccountsInv'
    <2>1. UNCHANGED accounts
      BY <1>3 DEF RefreshConfirmed, RefreshPaid, AskChain, MarkPaid, MarkExpired,
                  CheckConfirmed, WriteConfirmed
    <2>2. Drop(c, o) \/ \E place \in Places \ {"grant"} : GoOn(c, o, place)
      BY <1>3 DEF RefreshConfirmed, RefreshPaid, AskChain, MarkPaid, MarkExpired,
                  CheckConfirmed, WriteConfirmed, Places
    <2> QED
      BY <1>g, <2>1, <2>2
  <1>4. ASSUME NEW c \in Checkers, NEW o \in Orders, ReadMembership(c, o) PROVE AccountsInv'
    <2>1. /\ cur[c] = {o} /\ UNCHANGED <<vip, credits, grants, cur>>
          /\ base'[c] = vip[UserOf[o]]
          /\ \A d \in Checkers \ {c} : UNCHANGED <<pc[d], base[d]>>
      BY <1>4 DEF ReadMembership, accounts, TypeOK
    <2>2. \A u : GrantsOf(u)' = GrantsOf(u)
      BY <2>1 DEF GrantsOf
    <2>3. vip[UserOf[o]] <= GrantsOf(UserOf[o])
      BY DEF AccountsInv, CreditsMatchGrants
    <2>4. BaseSound(c)'
      BY <2>1, <2>2, <2>3 DEF BaseSound
    <2>5. \A d \in Checkers \ {c} : BaseSound(d)'
      BY <2>1, <2>2 DEF AccountsInv, BaseSound
    <2>6. CreditsMatchGrants'
      BY <2>1, <2>2 DEF AccountsInv, CreditsMatchGrants
    <2> QED
      BY <2>4, <2>5, <2>6 DEF AccountsInv
  <1>5. ASSUME NEW c \in Checkers, NEW o \in Orders, WriteMembership(c, o) PROVE AccountsInv'
    <2>1. CASE UNCHANGED accounts
      BY <1>5, <1>g, <2>1 DEF WriteMembership
    <2>2. CASE /\ vip'     = [vip EXCEPT ![UserOf[o]] = base[c] + 1]
               /\ credits' = [credits EXCEPT ![UserOf[o]] = @ + 1]
               /\ grants'  = [grants EXCEPT ![o] = @ + 1]
      <3> DEFINE v == UserOf[o]
      <3>1. v \in Users /\ base[c] \in Nat /\ base[c] <= GrantsOf(v)
        BY <1>5 DEF WriteMembership, AccountsInv, BaseSound, TypeOK
      <3>0. grants'[o] = grants[o] + 1 /\ \A p \in Orders \ {o} : grants'[p] = grants[p]
        BY <2>2 DEF TypeOK
      <3>2. /\ GrantsOf(v)' = GrantsOf(v) + 1
            /\ \A u \in Users \ {v} : GrantsOf(u)' = GrantsOf(u)
        BY <3>0, GrantCounts
      <3>3. \A u \in Users : GrantsOf(u) \in Nat
        BY GrantsOfIsNat
      <3>4. /\ vip'[v] = base[c] + 1 /\ credits'[v] = credits[v] + 1
            /\ \A u \in Users \ {v} : vip'[u] = vip[u] /\ credits'[u] = credits[u]
        BY <2>2, <3>1 DEF TypeOK
      <3> HIDE DEF v
      <3>5. CreditsMatchGrants'
        <4> SUFFICES ASSUME NEW u \in Users
                     PROVE  credits'[u] = GrantsOf(u)' /\ vip'[u] <= GrantsOf(u)'
          BY DEF CreditsMatchGrants
        <4>1. credits[u] = GrantsOf(u) /\ vip[u] <= GrantsOf(u)
          BY DEF AccountsInv, CreditsMatchGrants
        <4> QED
          BY <3>1, <3>2, <3>3, <3>4, <4>1
      <3>6. ASSUME NEW d \in Checkers, NEW p \in Orders, pc'[d] = "grant", cur'[d] = {p}
            PROVE  base'[d] <= GrantsOf(UserOf[p])'
        <4>1. pc[d] = "grant" /\ cur[d] = {p} /\ base'[d] = base[d]
          BY <1>5, <3>6 DEF WriteMembership, Drop, TypeOK
        <4>2. /\ base[d] <= GrantsOf(UserOf[p]) /\ UserOf[p] \in Users
              /\ base[d] \in Nat
          BY <4>1 DEF AccountsInv, BaseSound, TypeOK
        <4> QED
          BY <3>2, <3>3, <4>1, <4>2
      <3> QED
        BY <3>5, <3>6 DEF AccountsInv, BaseSound
    <2> QED
      BY <1>5, <2>1, <2>2 DEF WriteMembership
  <1>6. ASSUME NEW c \in Checkers, Crash(c) PROVE AccountsInv'
    BY <1>6, <1>r DEF Crash, TypeOK
  <1>7. CASE UNCHANGED vars
    BY <1>7, <1>r DEF vars, accounts
  <1> QED
    BY <1>1, <1>2, <1>3, <1>4, <1>5, <1>6, <1>7 DEF Next, Refresh, Checkers

\* However many checkers activate the orders of one user at the same time, on
\* memberships they read before each other's writes, every activation adds its
\* bonus credits, and no period is added that was not granted.
THEOREM CreditsCountGrants == Spec => []CreditsMatchGrants
  <1>1. AccountsInv => CreditsMatchGrants
    BY DEF AccountsInv
  <1> QED
    BY <1>1, AccountsInit, AccountsStep, TypeCorrect, PTL DEF Spec

-----------------------------------------------------------------------------
(* Credits.                                                                  *)

USE CreditsAssumption

-----------------------------------------------------------------------------
(***************************************************************************)
(* The inductive invariant: where a request stands says what it has        *)
(* written and that the buyer could pay.  The balances it trusts are the   *)
(* ones it knows.                                                          *)
(***************************************************************************)
BillingStages  == {"read", "balance", "connect", "update", "row", "commit"}
PurchaseStages == {"outer", "member", "alter", "vip", "lookup", "readBuyer",
                   "buyer", "chargeBuyer", "buyerRow", "readSeller", "seller",
                   "paySeller", "insert"}
Charged        == {"row", "commit", "buyerRow", "readSeller", "seller",
                   "paySeller", "insert"}

WrittenAt(r) ==
    CASE stage[r] \in {"commit", "readSeller", "seller", "paySeller"} -> {does[r].user}
      [] stage[r] = "insert" -> {does[r].user, does[r].seller}
      [] OTHER -> {}

KnowsOperation(r) ==
    /\ stage[r] \in BillingStages => does[r] \in Consume \cup Add
    /\ stage[r] \in PurchaseStages => does[r] \in Purchase

CouldPay(r) == stage[r] \in Charged => Affords(r)

TrustsWhatItKnows(r) ==
    stage[r] # "over" => \A u \in trusted[r] : known[r][u] = balance[u]

Stands(r) ==
    /\ KnowsOperation(r)
    /\ written[r] = WrittenAt(r)
    /\ CouldPay(r)
    /\ TrustsWhatItKnows(r)

CreditsInv ==
    /\ CreditsTypeOK
    /\ \A r \in Requests : Stands(r)
    /\ BalanceIsLogged
    /\ PaidIffBought

LEMMA CreditsInitInv == CreditsInit => CreditsInv
  <1> SUFFICES ASSUME CreditsInit PROVE CreditsInv
    OBVIOUS
  <1>1. CreditsTypeOK
    <2>1. /\ poolSize \in PoolSizes /\ errors \in 0..MaxErrors
          /\ balance \in [Accounts -> Nat] /\ logged \in [Accounts -> Int]
          /\ charges \in [Pairs -> Nat] /\ sales \in [Pairs -> Nat]
      BY DEF CreditsInit
    <2>2. /\ stage \in [Requests -> Stages]
          /\ does \in [Requests -> Operations \cup {NoOperation}]
          /\ known \in [Requests -> [Accounts -> Nat]]
      BY DEF CreditsInit, Stages, NobodyKnows
    <2>3. /\ bought \subseteq Pairs
          /\ written \in [Requests -> SUBSET Accounts]
          /\ trusted \in [Requests -> SUBSET Accounts]
          /\ overwritten \in BOOLEAN
      BY DEF CreditsInit
    <2> QED
      BY <2>1, <2>2, <2>3 DEF CreditsTypeOK
  <1>2. ASSUME NEW r \in Requests PROVE Stands(r)
    BY <1>2 DEF CreditsInit, Stands, KnowsOperation, WrittenAt, CouldPay,
       TrustsWhatItKnows, BillingStages, PurchaseStages, Charged
  <1>3. BalanceIsLogged
    BY DEF CreditsInit, BalanceIsLogged
  <1>4. PaidIffBought
    BY DEF CreditsInit, PaidIffBought
  <1> QED
    BY <1>1, <1>2, <1>3, <1>4 DEF CreditsInv

-----------------------------------------------------------------------------
(***************************************************************************)
(* An action of one request leaves the others where they stand.            *)
(***************************************************************************)
Alone(r) ==
    /\ \A q \in Requests \ {r} :
          /\ stage'[q] = stage[q] /\ does'[q] = does[q]
          /\ known'[q] = known[q] /\ written'[q] = written[q]
          /\ \A u \in trusted'[q] : u \in trusted[q] /\ balance'[u] = balance[u]
    /\ poolSize' = poolSize

LEMMA PairsOfPurchases == \A o \in Purchase : PairOf(o) \in Pairs
  BY DEF PairOf, Pairs

LEMMA OthersStand ==
    ASSUME CreditsInv, NEW r \in Requests, Alone(r),
           NEW q \in Requests, q # r
    PROVE  Stands(q)'
  <1>1. Stands(q)
    BY DEF CreditsInv
  <1>2. /\ stage'[q] = stage[q] /\ does'[q] = does[q]
        /\ known'[q] = known[q] /\ written'[q] = written[q]
        /\ poolSize' = poolSize
        /\ \A u \in trusted'[q] : u \in trusted[q] /\ balance'[u] = balance[u]
    BY DEF Alone
  <1>3. KnowsOperation(q)' /\ CouldPay(q)' /\ written'[q] = WrittenAt(q)'
    BY <1>1, <1>2 DEF Stands, KnowsOperation, CouldPay, WrittenAt, Affords
  <1>4. TrustsWhatItKnows(q)'
    BY <1>1, <1>2 DEF Stands, TrustsWhatItKnows
  <1> QED
    BY <1>2, <1>3, <1>4 DEF Stands

-----------------------------------------------------------------------------
(***************************************************************************)
(* Steps that touch no money.                                              *)
(***************************************************************************)
LEMMA QuietMoney ==
    ASSUME CreditsInv, UNCHANGED <<poolSize, balance, logged, bought,
                                   overwritten, charges, sales>>
    PROVE  BalanceIsLogged' /\ PaidIffBought'
  BY DEF CreditsInv, BalanceIsLogged, PaidIffBought

LEMMA BeginInv ==
    ASSUME CreditsInv, NEW r \in Requests, Begin(r)
    PROVE  CreditsInv'
  <1>1. PICK o \in Operations :
           /\ does' = [does EXCEPT ![r] = o]
           /\ stage' = [stage EXCEPT ![r] =
                           IF o.type = "purchase" THEN "outer" ELSE "read"]
    BY DEF Begin, Move
  <1>2. stage[r] = "new" /\ UNCHANGED <<poolSize, moneyVars, known, written,
                                        errors, ghostVars>>
    BY DEF Begin
  <1>3. CreditsTypeOK'
    BY <1>1, <1>2 DEF CreditsInv, CreditsTypeOK, Stages, moneyVars, ghostVars
  <1>4. Stands(r)'
    <2>1. stage'[r] = (IF o.type = "purchase" THEN "outer" ELSE "read")
          /\ does'[r] = o
      BY <1>1 DEF CreditsInv, CreditsTypeOK
    <2>2. written[r] = {}
      BY <1>2 DEF CreditsInv, Stands, WrittenAt
    <2>3. KnowsOperation(r)'
      BY <2>1 DEF KnowsOperation, BillingStages, PurchaseStages, Operations,
         Consume, Add, Purchase
    <2> QED
      BY <1>2, <2>1, <2>2, <2>3 DEF CreditsInv, Stands, WrittenAt, CouldPay,
         Charged, TrustsWhatItKnows, moneyVars, ghostVars
  <1>5. Alone(r)
    BY <1>1, <1>2 DEF Alone, CreditsInv, CreditsTypeOK, moneyVars, ghostVars
  <1> QED
    BY <1>2, <1>3, <1>4, <1>5, OthersStand, QuietMoney
       DEF CreditsInv, CreditsTypeOK, moneyVars, ghostVars

\* A request goes on from one stage to another: it gets a connection or a lock,
\* or has asked for the membership or looked for the purchase.
GoesOn(r, s) ==
    \/ stage[r] = "read" /\ s = "balance"
    \/ stage[r] = "readBuyer" /\ s = "buyer"
    \/ stage[r] = "readSeller" /\ s = "seller"
    \/ stage[r] = "connect" /\ s = "update"
    \/ stage[r] = "update" /\ s = "row" /\ Affords(r)
    \/ stage[r] = "chargeBuyer" /\ s = "buyerRow" /\ Affords(r)
    \/ stage[r] = "outer" /\ s = "member"
    \/ stage[r] = "member" /\ s \in {"alter", "lookup"}
    \/ stage[r] = "alter" /\ s \in {"vip", "lookup"}
    \/ stage[r] = "vip" /\ s = "lookup"
    \/ stage[r] = "lookup" /\ s = "readBuyer"

\* ConnectToRead, when there is a connection.
ReadConnected(r) == ConnectToRead(r) /\ CanConnect

LEMMA Going ==
    ASSUME NEW r \in Requests,
           \/ ReadConnected(r) \/ Connect(r) \/ LockTable(r) \/ ConnectOuter(r)
           \/ AskMembership(r) \/ MembershipFails(r) \/ CheckPurchase(r)
    PROVE  /\ \E s \in Stages : GoesOn(r, s) /\ stage' = [stage EXCEPT ![r] = s]
           /\ UNCHANGED <<poolSize, moneyVars, does, known, written, ghostVars>>
           /\ UNCHANGED errors \/ Error
  <1>1. CASE ReadConnected(r)
    <2>1. /\ stage[r] \in {"read", "readBuyer", "readSeller"}
          /\ Move(r, CASE stage[r] = "read" -> "balance"
                       [] stage[r] = "readBuyer" -> "buyer"
                       [] OTHER -> "seller")
          /\ UNCHANGED <<poolSize, moneyVars, does, known, written, ghostVars>>
          /\ UNCHANGED errors
      BY <1>1 DEF ReadConnected, ConnectToRead, TimesOut
    <2> QED
      BY <2>1 DEF GoesOn, Move, Stages
  <1>2. CASE Connect(r) \/ ConnectOuter(r) \/ CheckPurchase(r)
    BY <1>2 DEF Connect, ConnectOuter, CheckPurchase, GoesOn, Move, Stages
  <1>3. CASE LockTable(r)
    BY <1>3 DEF LockTable, GoesOn, Move, Stages
  <1>4. CASE AskMembership(r) \/ MembershipFails(r)
    BY <1>4 DEF AskMembership, MembershipFails, GoesOn, Move, Stages
  <1> QED
    BY <1>1, <1>2, <1>3, <1>4

LEMMA GoesOnInv ==
    ASSUME CreditsInv, NEW r \in Requests,
           \/ ReadConnected(r) \/ Connect(r) \/ LockTable(r) \/ ConnectOuter(r)
           \/ AskMembership(r) \/ MembershipFails(r) \/ CheckPurchase(r)
    PROVE  CreditsInv'
  <1>1. PICK s \in Stages : GoesOn(r, s) /\ stage' = [stage EXCEPT ![r] = s]
    BY Going
  <1>2. /\ UNCHANGED <<poolSize, moneyVars, does, known, written, ghostVars>>
        /\ UNCHANGED errors \/ Error
    BY Going
  <1>3. CreditsTypeOK'
    BY <1>1, <1>2 DEF CreditsInv, CreditsTypeOK, Error, moneyVars, ghostVars
  <1>4. Stands(r)'
    <2>1. stage'[r] = s
      BY <1>1 DEF CreditsInv, CreditsTypeOK
    <2>2. Stands(r)
      BY DEF CreditsInv
    <2>3. KnowsOperation(r)'
      BY <1>1, <1>2, <2>1, <2>2 DEF GoesOn, Stands, KnowsOperation, BillingStages,
         PurchaseStages
    <2>4. written'[r] = WrittenAt(r)'
      BY <1>1, <1>2, <2>1, <2>2 DEF GoesOn, Stands, WrittenAt
    <2>5. CouldPay(r)'
      BY <1>1, <1>2, <2>1, <2>2 DEF GoesOn, Stands, CouldPay, Charged, Affords
    <2>6. TrustsWhatItKnows(r)'
      BY <1>1, <1>2, <2>1, <2>2 DEF GoesOn, Stands, TrustsWhatItKnows, moneyVars,
         ghostVars
    <2> QED
      BY <2>3, <2>4, <2>5, <2>6 DEF Stands
  <1>5. Alone(r)
    BY <1>1, <1>2 DEF Alone, CreditsInv, CreditsTypeOK, moneyVars, ghostVars
  <1> QED
    BY <1>2, <1>3, <1>4, <1>5, OthersStand, QuietMoney
       DEF CreditsInv, CreditsTypeOK, moneyVars, ghostVars

\* A request ends without a commit.
LEMMA EndsInv ==
    ASSUME CreditsInv, NEW r \in Requests, End(r), errors' \in 0..MaxErrors,
           UNCHANGED <<poolSize, moneyVars, ghostVars>>
    PROVE  CreditsInv'
  <1>1. /\ stage' = [stage EXCEPT ![r] = "over"]
        /\ known' = [known EXCEPT ![r] = NobodyKnows]
        /\ written' = [written EXCEPT ![r] = {}]
        /\ does' = does
    BY DEF End, Move
  <1>2. CreditsTypeOK'
    BY <1>1 DEF CreditsInv, CreditsTypeOK, Stages, NobodyKnows, moneyVars, ghostVars
  <1>3. Stands(r)'
    <2>1. stage'[r] = "over" /\ written'[r] = {}
      BY <1>1 DEF CreditsInv, CreditsTypeOK
    <2> QED
      BY <2>1 DEF Stands, KnowsOperation, WrittenAt, CouldPay, Charged,
         TrustsWhatItKnows, BillingStages, PurchaseStages
  <1>4. Alone(r)
    BY <1>1 DEF Alone, CreditsInv, CreditsTypeOK, moneyVars, ghostVars
  <1> QED
    BY <1>2, <1>3, <1>4, OthersStand, QuietMoney
       DEF CreditsInv, CreditsTypeOK, moneyVars, ghostVars

-----------------------------------------------------------------------------
(***************************************************************************)
(* Reading a balance.                                                      *)
(***************************************************************************)
\* A balance is known and trusted, or taken for 0 and not trusted.
Gets(r, u) ==
    \/ /\ known' = [known EXCEPT ![r][u] = balance[u]]
       /\ trusted' = [trusted EXCEPT ![r] = @ \cup {u}]
    \/ /\ known' = [known EXCEPT ![r][u] = 0]
       /\ trusted' = [trusted EXCEPT ![r] = @ \ {u}]

LEMMA GetTyped ==
    ASSUME CreditsInv, NEW r \in Requests, NEW u \in Accounts, Gets(r, u)
    PROVE  /\ known' \in [Requests -> [Accounts -> Nat]]
           /\ trusted' \in [Requests -> SUBSET Accounts]
           /\ \A q \in Requests \ {r} :
                 known'[q] = known[q] /\ trusted'[q] = trusted[q]
           /\ \A v \in Accounts \ {u} : known'[r][v] = known[r][v]
           /\ trusted'[r] \subseteq trusted[r] \cup {u}
           /\ u \in trusted'[r] => known'[r][u] = balance[u]
  <1>1. CASE /\ known' = [known EXCEPT ![r][u] = balance[u]]
             /\ trusted' = [trusted EXCEPT ![r] = @ \cup {u}]
    BY <1>1 DEF CreditsInv, CreditsTypeOK
  <1>2. CASE /\ known' = [known EXCEPT ![r][u] = 0]
             /\ trusted' = [trusted EXCEPT ![r] = @ \ {u}]
    BY <1>2 DEF CreditsInv, CreditsTypeOK
  <1> QED
    BY <1>1, <1>2 DEF Gets

\* ConnectToRead, when the pool had no connection.
ReadGivenUp(r) == ConnectToRead(r) /\ ~CanConnect

LEMMA ReadsInv ==
    ASSUME CreditsInv, NEW r \in Requests,
           ReadGivenUp(r) \/ ReadBalance(r) \/ ReadFails(r)
    PROVE  CreditsInv'
  <1> DEFINE u == Reads(r)
             s == AfterReading(r)
  <1>1. /\ Gets(r, u)
        /\ stage' = [stage EXCEPT ![r] = s]
        /\ UNCHANGED <<poolSize, moneyVars, does, written, overwritten, charges, sales>>
        /\ UNCHANGED errors \/ Error
        /\ stage[r] \in {"read", "balance", "readBuyer", "buyer", "readSeller", "seller"}
    BY DEF ReadGivenUp, ConnectToRead, ReadBalance, ReadFails, GetNothing, Gets, Move
  <1>2. \/ stage[r] \in {"read", "balance"} /\ s = "connect" /\ u = does[r].user
        \/ stage[r] \in {"readBuyer", "buyer"} /\ s = "chargeBuyer" /\ u = does[r].user
        \/ stage[r] \in {"readSeller", "seller"} /\ s = "paySeller" /\ u = does[r].seller
    BY <1>1 DEF Reads, AfterReading
  <1> HIDE DEF u, s
  <1>3. Stands(r) /\ KnowsOperation(r)
    BY DEF CreditsInv, Stands
  <1>4. u \in Accounts /\ (s = "paySeller" => u # does[r].user)
    BY <1>2, <1>3 DEF KnowsOperation, BillingStages, PurchaseStages, Consume,
       Add, Purchase
  <1>5. CreditsTypeOK'
    <2>1. s \in Stages
      BY <1>2 DEF Stages
    <2>2. /\ known' \in [Requests -> [Accounts -> Nat]]
          /\ trusted' \in [Requests -> SUBSET Accounts]
      BY <1>1, <1>4, GetTyped
    <2>3. errors' \in 0..MaxErrors
      BY <1>1 DEF CreditsInv, CreditsTypeOK, Error
    <2>4. stage' \in [Requests -> Stages]
      BY <1>1, <2>1 DEF CreditsInv, CreditsTypeOK
    <2> QED
      BY <1>1, <2>2, <2>3, <2>4 DEF CreditsInv, CreditsTypeOK, moneyVars
  <1>6. Stands(r)'
    <2>1. stage'[r] = s /\ does'[r] = does[r] /\ written'[r] = written[r]
      BY <1>1 DEF CreditsInv, CreditsTypeOK
    <2>2. KnowsOperation(r)'
      BY <1>2, <1>3, <2>1 DEF KnowsOperation, BillingStages, PurchaseStages
    <2>3. written'[r] = WrittenAt(r)'
      BY <1>2, <1>3, <2>1 DEF Stands, WrittenAt
    <2>4. CouldPay(r)'
      <3>1. CASE s = "paySeller"
        <4>1. does[r] \in Purchase
          BY <1>2, <1>3, <3>1 DEF KnowsOperation, PurchaseStages
        <4>2. Affords(r)
          BY <1>2, <1>3, <3>1 DEF Stands, CouldPay, Charged
        <4>3. known'[r][does[r].user] = known[r][does[r].user]
          BY <1>1, <1>4, <3>1, <4>1, GetTyped DEF Purchase
        <4> QED
          BY <2>1, <4>2, <4>3 DEF CouldPay, Affords
      <3>2. CASE s # "paySeller"
        BY <1>2, <2>1, <3>2 DEF CouldPay, Charged
      <3> QED
        BY <3>1, <3>2
    <2>5. TrustsWhatItKnows(r)'
      <3>1. \A v \in trusted[r] : v \in Accounts /\ known[r][v] = balance[v]
        BY <1>1, <1>3 DEF Stands, TrustsWhatItKnows, CreditsInv, CreditsTypeOK
      <3>2. balance' = balance
        BY <1>1 DEF moneyVars
      <3> QED
        BY <1>1, <1>4, <3>1, <3>2, GetTyped DEF TrustsWhatItKnows
    <2> QED
      BY <2>2, <2>3, <2>4, <2>5 DEF Stands
  <1>7. Alone(r)
    BY <1>1, <1>4, GetTyped
       DEF Alone, CreditsInv, CreditsTypeOK, moneyVars
  <1> QED
    BY <1>1, <1>5, <1>6, <1>7, OthersStand, QuietMoney
       DEF CreditsInv, CreditsTypeOK, moneyVars

LEMMA UpdateInv ==
    ASSUME CreditsInv, NEW r \in Requests, Update(r)
    PROVE  CreditsInv'
  <1>1. PICK s \in {"commit", "readSeller", "insert"} :
           /\ stage' = [stage EXCEPT ![r] = s]
           /\ \/ stage[r] = "row" /\ s = "commit"
              \/ stage[r] = "buyerRow" /\ s = "readSeller"
              \/ stage[r] = "paySeller" /\ s = "insert"
    BY DEF Update, Move
  <1>2. /\ written' = [written EXCEPT ![r] = @ \cup Updates(r)]
        /\ UNCHANGED <<poolSize, moneyVars, does, known, errors, ghostVars>>
    BY DEF Update
  <1>3. Stands(r) /\ KnowsOperation(r) /\ Affords(r)
    BY <1>1 DEF CreditsInv, Stands, CouldPay, Charged
  <1>4. Updates(r) \subseteq Accounts
    BY <1>1, <1>3 DEF Updates, KnowsOperation, BillingStages, PurchaseStages,
       Consume, Add, Purchase
  <1>5. CreditsTypeOK'
    BY <1>1, <1>2, <1>4
       DEF CreditsInv, CreditsTypeOK, Stages, moneyVars, ghostVars
  <1>6. Stands(r)'
    <2>1. stage'[r] = s /\ written'[r] = written[r] \cup Updates(r)
      BY <1>1, <1>2 DEF CreditsInv, CreditsTypeOK
    <2>2. written'[r] = WrittenAt(r)'
      BY <1>1, <1>2, <1>3, <2>1 DEF Stands, WrittenAt, Updates
    <2>3. KnowsOperation(r)' /\ CouldPay(r)'
      BY <1>1, <1>2, <1>3, <2>1 DEF KnowsOperation, CouldPay, Affords,
         BillingStages, PurchaseStages
    <2>4. TrustsWhatItKnows(r)'
      BY <1>1, <1>2, <1>3, <2>1 DEF Stands, TrustsWhatItKnows, moneyVars, ghostVars
    <2> QED
      BY <2>2, <2>3, <2>4 DEF Stands
  <1>7. Alone(r)
    BY <1>1, <1>2 DEF Alone, CreditsInv, CreditsTypeOK, moneyVars, ghostVars
  <1> QED
    BY <1>2, <1>5, <1>6, <1>7, OthersStand, QuietMoney
       DEF CreditsInv, CreditsTypeOK, moneyVars, ghostVars

-----------------------------------------------------------------------------
(***************************************************************************)
(* What a transaction has written becomes visible.                         *)
(***************************************************************************)
Publishing == {"commit", "insert"}

LEMMA PublishTyped ==
    ASSUME CreditsInv, NEW r \in Requests, stage[r] \in Publishing, Publish(r)
    PROVE  /\ balance' \in [Accounts -> Nat] /\ logged' \in [Accounts -> Int]
           /\ overwritten' \in BOOLEAN
           /\ trusted' \in [Requests -> SUBSET Accounts]
           /\ charges' \in [Pairs -> Nat] /\ sales' \in [Pairs -> Nat]
  <1> DEFINE new == written[r]
  <1>1. Stands(r) /\ KnowsOperation(r) /\ Affords(r) /\ new \in SUBSET Accounts
    BY DEF CreditsInv, Stands, CouldPay, Charged, Publishing, CreditsTypeOK
  <1>2. ASSUME NEW u \in Accounts
        PROVE  /\ Amount(r, u) \in {1, -1}
               /\ known[r][u] + Amount(r, u) \in Nat
    BY <1>1 DEF Amount, Affords, CreditsInv, CreditsTypeOK
  <1>3. balance' \in [Accounts -> Nat]
    BY <1>2 DEF Publish, CreditsInv, CreditsTypeOK
  <1>4. logged' \in [Accounts -> Int]
    <2>1. \A u \in Accounts : logged[u] \in Int /\ logged[u] + Amount(r, u) \in Int
      BY <1>2 DEF CreditsInv, CreditsTypeOK
    <2> QED
      BY <2>1 DEF Publish, LogLines
  <1>5. overwritten' \in BOOLEAN
    BY DEF Publish, CreditsInv, CreditsTypeOK
  <1>6. trusted' \in [Requests -> SUBSET Accounts]
    BY DEF Publish, CreditsInv, CreditsTypeOK
  <1>7. charges' \in [Pairs -> Nat] /\ sales' \in [Pairs -> Nat]
    <2>1. charges \in [Pairs -> Nat] /\ sales \in [Pairs -> Nat]
      BY DEF CreditsInv, CreditsTypeOK
    <2>2. PICK m \in {0, 1}, n \in {0, 1} :
             \/ UNCHANGED <<charges, sales>>
             \/ /\ charges' = [charges EXCEPT ![PairOf(does[r])] = @ + m]
                /\ sales' = [sales EXCEPT ![PairOf(does[r])] = @ + n]
      BY DEF Publish
    <2> QED
      BY <2>1, <2>2
  <1> QED
    BY <1>3, <1>4, <1>5, <1>6, <1>7

\* Requests know what they trust; a balance that is replaced unknown says so.
LEMMA PublishLogs ==
    ASSUME CreditsInv, NEW r \in Requests, stage[r] \in Publishing, Publish(r)
    PROVE  BalanceIsLogged'
  <1> SUFFICES ASSUME ~overwritten', NEW u \in Accounts
               PROVE  balance'[u] = Opening + logged'[u]
    BY DEF BalanceIsLogged
  <1>1. /\ ~overwritten /\ written[r] \subseteq trusted[r]
        /\ balance' = [v \in Accounts |->
              IF v \in written[r] THEN known[r][v] + Amount(r, v)
              ELSE balance[v]]
        /\ logged' = LogLines(r)
    BY DEF Publish
  <1>2. u \in written[r] => known[r][u] = balance[u]
    BY <1>1 DEF CreditsInv, Stands, TrustsWhatItKnows, Publishing
  <1>3. balance[u] = Opening + logged[u]
    BY <1>1 DEF CreditsInv, BalanceIsLogged
  <1>4. /\ Amount(r, u) \in Int /\ balance[u] \in Int /\ logged[u] \in Int
        /\ Opening \in Int
    BY DEF Amount, CreditsInv, CreditsTypeOK
  <1> QED
    BY <1>1, <1>2, <1>3, <1>4 DEF LogLines

\* The balances of others that are still trusted have not changed.
LEMMA PublishKeepsTrust ==
    ASSUME CreditsInv, NEW r \in Requests, stage[r] \in Publishing, Publish(r)
    PROVE  \A q \in Requests, u \in Accounts :
              u \in trusted'[q] =>
                 /\ u \in trusted[q] /\ u \notin written[r]
                 /\ balance'[u] = balance[u]
  BY DEF Publish

\* A purchase counts what its transaction holds, anything else nothing.
LEMMA PublishCounts ==
    ASSUME CreditsInv, NEW r \in Requests, stage[r] \in Publishing, Publish(r),
           NEW p \in Pairs
    PROVE  IF stage[r] # "commit" /\ p = PairOf(does[r])
           THEN /\ charges'[p] = charges[p]
                      + (IF does[r].user \in written[r] THEN 1 ELSE 0)
                /\ sales'[p] = sales[p]
                      + (IF does[r].seller \in written[r] THEN 1 ELSE 0)
           ELSE charges'[p] = charges[p] /\ sales'[p] = sales[p]
  <1>1. KnowsOperation(r)
    BY DEF CreditsInv, Stands
  <1>2. CASE stage[r] = "commit"
    <2>1. does[r].type # "purchase"
      BY <1>1, <1>2 DEF KnowsOperation, BillingStages, Consume, Add
    <2> QED
      BY <1>2, <2>1 DEF Publish
  <1>3. CASE stage[r] # "commit"
    <2>1. does[r].type = "purchase"
      BY <1>1, <1>3 DEF KnowsOperation, PurchaseStages, Publishing, Purchase
    <2>2. /\ charges' = [charges EXCEPT ![PairOf(does[r])] =
                 @ + (IF does[r].user \in written[r] THEN 1 ELSE 0)]
          /\ sales' = [sales EXCEPT ![PairOf(does[r])] =
                 @ + (IF does[r].seller \in written[r] THEN 1 ELSE 0)]
      BY <2>1 DEF Publish
    <2>3. charges \in [Pairs -> Nat] /\ sales \in [Pairs -> Nat]
      BY DEF CreditsInv, CreditsTypeOK
    <2> QED
      BY <1>3, <2>2, <2>3
  <1> QED
    BY <1>2, <1>3

LEMMA PublishAlone ==
    ASSUME CreditsInv, NEW r \in Requests, stage[r] \in Publishing, Publish(r),
           poolSize' = poolSize,
           \A q \in Requests \ {r} :
              /\ stage'[q] = stage[q] /\ does'[q] = does[q]
              /\ known'[q] = known[q] /\ written'[q] = written[q]
    PROVE  Alone(r)
  BY PublishKeepsTrust, PublishTyped DEF Alone

-----------------------------------------------------------------------------
(***************************************************************************)
(* The two commits.                                                        *)
(***************************************************************************)
LEMMA CommitInv ==
    ASSUME CreditsInv, NEW r \in Requests, Commit(r)
    PROVE  CreditsInv'
  <1>1. /\ stage[r] \in Publishing /\ stage[r] = "commit"
        /\ Publish(r) /\ UNCHANGED <<poolSize, bought, errors, does>>
        /\ stage' = [stage EXCEPT ![r] = "over"]
        /\ known' = [known EXCEPT ![r] = NobodyKnows]
        /\ written' = [written EXCEPT ![r] = {}]
    BY DEF Commit, Publishing, End, Move
  <1>2. CreditsTypeOK'
    BY <1>1, PublishTyped DEF CreditsInv, CreditsTypeOK, Stages, NobodyKnows
  <1>3. BalanceIsLogged'
    BY <1>1, PublishLogs
  <1>4. PaidIffBought'
    BY <1>1, PublishCounts DEF CreditsInv, PaidIffBought
  <1>5. Stands(r)'
    <2>1. stage'[r] = "over" /\ written'[r] = {}
      BY <1>1 DEF CreditsInv, CreditsTypeOK
    <2> QED
      BY <2>1 DEF Stands, KnowsOperation, WrittenAt, CouldPay, Charged,
         TrustsWhatItKnows, BillingStages, PurchaseStages
  <1>6. Alone(r)
    BY <1>1, PublishAlone DEF CreditsInv, CreditsTypeOK
  <1> QED
    BY <1>2, <1>3, <1>4, <1>5, <1>6, OthersStand DEF CreditsInv, CreditsTypeOK

LEMMA InsertPurchaseInv ==
    ASSUME CreditsInv, NEW r \in Requests, InsertPurchase(r)
    PROVE  CreditsInv'
  <1> DEFINE pair == PairOf(does[r])
  <1>1. /\ stage[r] \in Publishing /\ stage[r] = "insert" /\ pair \notin bought
        /\ Publish(r) /\ UNCHANGED <<poolSize, errors, does>>
        /\ bought' = bought \cup {pair}
        /\ stage' = [stage EXCEPT ![r] = "over"]
        /\ known' = [known EXCEPT ![r] = NobodyKnows]
        /\ written' = [written EXCEPT ![r] = {}]
    BY DEF InsertPurchase, Publishing, End, Move
  <1>2. /\ Stands(r) /\ does[r] \in Purchase /\ does[r].seller # does[r].user
        /\ pair \in Pairs
        /\ written[r] = {does[r].user, does[r].seller}
    BY <1>1, PairsOfPurchases DEF CreditsInv, Stands, KnowsOperation,
       PurchaseStages, WrittenAt, Purchase
  <1>3. CreditsTypeOK'
    BY <1>1, <1>2, PublishTyped
       DEF CreditsInv, CreditsTypeOK, Stages, NobodyKnows
  <1>4. BalanceIsLogged'
    BY <1>1, PublishLogs
  <1>5. ASSUME NEW p \in Pairs
        PROVE  /\ charges[p] \in Nat
               /\ sales'[p] = IF p = pair THEN sales[p] + 1 ELSE sales[p]
               /\ charges'[p] = IF p = pair THEN charges[p] + 1 ELSE charges[p]
    BY <1>1, <1>2, PublishCounts DEF CreditsInv, CreditsTypeOK
  <1>6. PaidIffBought'
    <2> SUFFICES ASSUME NEW p \in Pairs
                 PROVE  LET has == IF p \in bought' THEN 1 ELSE 0
                        IN  charges'[p] = has /\ sales'[p] = has
      BY DEF PaidIffBought
    <2>1. LET has == IF p \in bought THEN 1 ELSE 0
          IN  charges[p] = has /\ sales[p] = has
      BY DEF CreditsInv, PaidIffBought
    <2>2. CASE p # pair
      BY <1>1, <1>5, <2>1, <2>2
    <2>3. CASE p = pair
      BY <1>1, <1>2, <1>5, <2>1, <2>3
    <2> QED
      BY <2>2, <2>3
  <1>7. Stands(r)'
    <2>1. stage'[r] = "over" /\ written'[r] = {}
      BY <1>1 DEF CreditsInv, CreditsTypeOK
    <2> QED
      BY <2>1 DEF Stands, KnowsOperation, WrittenAt, CouldPay, Charged,
         TrustsWhatItKnows, BillingStages, PurchaseStages
  <1>8. Alone(r)
    BY <1>1, PublishAlone DEF CreditsInv, CreditsTypeOK
  <1> QED
    BY <1>3, <1>4, <1>6, <1>7, <1>8, OthersStand DEF CreditsInv, CreditsTypeOK

-----------------------------------------------------------------------------
(***************************************************************************)
(* The theorems.                                                           *)
(***************************************************************************)
LEMMA ProceedInv ==
    ASSUME CreditsInv, NEW r \in Requests, Proceed(r)
    PROVE  CreditsInv'
  <1>1. CASE \/ Connect(r) \/ LockTable(r) \/ ConnectOuter(r) \/ AskMembership(r)
             \/ CheckPurchase(r)
    BY <1>1, GoesOnInv
  <1>2. CASE ConnectToRead(r) \/ ReadBalance(r)
    BY <1>2, GoesOnInv, ReadsInv DEF ReadConnected, ReadGivenUp
  <1>3. CASE Update(r)
    BY <1>3, UpdateInv
  <1>4. CASE Commit(r) \/ InsertPurchase(r)
    BY <1>4, CommitInv, InsertPurchaseInv
  <1>5. CASE \/ AlreadyPurchased(r) \/ RefuseCredits(r) \/ ConnectTimesOut(r)
             \/ PurchaseExists(r) \/ DeadlockAborts(r)
    <2>1. End(r) /\ UNCHANGED <<poolSize, moneyVars, errors, ghostVars>>
      BY <1>5 DEF AlreadyPurchased, RefuseCredits, ConnectTimesOut,
         PurchaseExists, DeadlockAborts, RollBack
    <2> QED
      BY <2>1, EndsInv DEF CreditsInv, CreditsTypeOK
  <1> QED
    BY <1>1, <1>2, <1>3, <1>4, <1>5 DEF Proceed

LEMMA FailsInv ==
    ASSUME CreditsInv, NEW r \in Requests, Fails(r)
    PROVE  CreditsInv'
  <1>1. CASE DatabaseFails(r)
    BY <1>1, EndsInv
       DEF DatabaseFails, RollBack, Error, CreditsInv, CreditsTypeOK
  <1> QED
    BY <1>1, ReadsInv, GoesOnInv DEF Fails

LEMMA CreditsNextInv == CreditsInv /\ [CreditsNext]_creditsVars => CreditsInv'
  <1> SUFFICES ASSUME CreditsInv, [CreditsNext]_creditsVars PROVE CreditsInv'
    OBVIOUS
  <1>1. CASE UNCHANGED creditsVars
    BY <1>1 DEF creditsVars, moneyVars, requestVars, ghostVars, CreditsInv,
       CreditsTypeOK, Stands, KnowsOperation, WrittenAt, CouldPay, Affords,
       TrustsWhatItKnows, BalanceIsLogged, PaidIffBought
  <1> QED
    BY <1>1, BeginInv, ProceedInv, FailsInv DEF CreditsNext

LEMMA CreditsInvariant == CreditsSpec => []CreditsInv
  BY CreditsInitInv, CreditsNextInv, PTL DEF CreditsSpec

(***************************************************************************)
(* No balance ever falls below zero, however requests interleave           *)
(* (check_and_consume, purchase_indicator).                                *)
(***************************************************************************)
THEOREM CreditsTyped == CreditsSpec => []CreditsTypeOK
  <1>1. CreditsInv => CreditsTypeOK
    BY DEF CreditsInv
  <1> QED
    BY <1>1, CreditsInvariant, PTL

(***************************************************************************)
(* The log explains every balance as long as none was replaced unknown:    *)
(* with any number of requests, a rollback, a deadlock or a full pool does *)
(* not separate a balance from its log.                                    *)
(***************************************************************************)
THEOREM CreditsLogged == CreditsSpec => []BalanceIsLogged
  <1>1. CreditsInv => BalanceIsLogged
    BY DEF CreditsInv
  <1> QED
    BY <1>1, CreditsInvariant, PTL

(***************************************************************************)
(* An indicator is owned by who paid for it, its seller was paid once, and *)
(* nobody pays without getting it (purchase_indicator).                    *)
(***************************************************************************)
THEOREM PurchasesPaid == CreditsSpec => []PaidIffBought
  <1>1. CreditsInv => PaidIffBought
    BY DEF CreditsInv
  <1> QED
    BY <1>1, CreditsInvariant, PTL

-----------------------------------------------------------------------------
(***************************************************************************)
(* When no balance is overwritten.  Requests that come one after the other *)
(* and meet no error know every balance they replace, as long as the pool  *)
(* has the second connection a purchase asks for.                          *)
(***************************************************************************)
Active(r)  == stage[r] \notin {"new", "over"}
OneAtATime == \A q, r \in Requests : Active(q) /\ Active(r) => q = r
Undisturbed == OneAtATime /\ errors = 0

\* The accounts whose balances r is about to replace.
MustKnow(r) ==
    CASE stage[r] \in {"connect", "update", "row", "commit", "chargeBuyer", "buyerRow",
                       "readSeller", "seller"} -> {does[r].user}
      [] stage[r] \in {"paySeller", "insert"} -> {does[r].user, does[r].seller}
      [] OTHER -> {}

KnowsWhatItReplaces == ~overwritten /\ \A r \in Requests : MustKnow(r) \subseteq trusted[r]

LEMMA WrittenIsKnown ==
    ASSUME CreditsInv, KnowsWhatItReplaces, NEW r \in Requests
    PROVE  written[r] \subseteq trusted[r]
  <1>1. written[r] = WrittenAt(r)
    BY DEF CreditsInv, Stands
  <1> QED
    BY <1>1 DEF WrittenAt, MustKnow, KnowsWhatItReplaces

\* What the others must know does not change by a step of r that leaves them
\* their trust, or when they are not active.
LEMMA OthersKnow ==
    ASSUME KnowsWhatItReplaces, Undisturbed, NEW r \in Requests, Active(r),
           NEW q \in Requests, q # r,
           stage'[q] = stage[q], does'[q] = does[q], poolSize' = poolSize
    PROVE  MustKnow(q)' \subseteq trusted'[q]
  <1>1. stage[q] \in {"new", "over"}
    BY DEF Undisturbed, OneAtATime, Active
  <1> QED
    BY <1>1 DEF MustKnow

\* A lone request gets the connection it asks for.
LEMMA LoneConnects ==
    ASSUME CreditsInv, Undisturbed, poolSize > 1,
           NEW r \in Requests, stage[r] \in {"read", "readBuyer", "readSeller"}
    PROVE  CanConnect
  <1>1. Connected \subseteq {r} /\ Doubly = {}
    <2>1. \A q \in Connected \cup Doubly : q \in Requests /\ Active(q)
      BY DEF Connected, Doubly, Unconnected, Twice, Active
    <2>2. Active(r)
      BY DEF Active
    <2>3. Connected \cup Doubly \subseteq {r}
      BY <2>1, <2>2 DEF Undisturbed, OneAtATime
    <2>4. r \notin Doubly
      BY DEF Doubly, Twice
    <2> QED
      BY <2>3, <2>4
  <1>2. IsFiniteSet({r}) /\ Cardinality({r}) = 1 /\ Cardinality({}) = 0
    BY FS_Singleton, FS_EmptySet
  <1>3. /\ Cardinality(Connected) \in Nat /\ Cardinality(Connected) <= 1
        /\ Cardinality(Doubly) = 0
    BY <1>1, <1>2, FS_Subset, FS_CardinalityType
  <1>4. poolSize \in Nat
    BY DEF CreditsInv, CreditsTypeOK
  <1> QED
    BY <1>3, <1>4 DEF CanConnect

\* A commit of a lone request replaces no balance it does not know.
LEMMA LonePublish ==
    ASSUME CreditsInv, KnowsWhatItReplaces, NEW r \in Requests, Publish(r)
    PROVE  /\ ~overwritten'
           /\ \A q \in Requests : trusted'[q] = trusted[q] \ written[r]
  BY WrittenIsKnown DEF Publish, KnowsWhatItReplaces

LEMMA UndisturbedStep ==
    CreditsInv /\ KnowsWhatItReplaces /\ Undisturbed /\ errors' = 0 /\ poolSize > 1
        /\ [CreditsNext]_creditsVars => KnowsWhatItReplaces'
  <1> SUFFICES ASSUME CreditsInv, KnowsWhatItReplaces, Undisturbed, errors' = 0, poolSize > 1,
                      [CreditsNext]_creditsVars
               PROVE  KnowsWhatItReplaces'
    OBVIOUS
  <1>0. CreditsTypeOK
    BY DEF CreditsInv
  <1> USE DEF moneyVars, ghostVars
  <1>k. ASSUME NEW r \in Requests, Active(r), ~overwritten', UNCHANGED poolSize,
               \A q \in Requests \ {r} : stage'[q] = stage[q] /\ does'[q] = does[q],
               MustKnow(r)' \subseteq trusted'[r]
        PROVE  KnowsWhatItReplaces'
    BY <1>k, OthersKnow DEF KnowsWhatItReplaces
  <1>m. ASSUME NEW r \in Requests, NEW to, Move(r, to)
        PROVE  /\ stage'[r] = to
               /\ \A q \in Requests \ {r} : stage'[q] = stage[q]
    BY <1>0, <1>m DEF Move, CreditsTypeOK
  <1>1. ASSUME NEW r \in Requests, Begin(r) PROVE KnowsWhatItReplaces'
    <2>1. PICK o \in Operations :
             /\ does' = [does EXCEPT ![r] = o]
             /\ stage' = [stage EXCEPT ![r] = IF o.type = "purchase" THEN "outer" ELSE "read"]
      BY <1>1 DEF Begin, Move
    <2>2. UNCHANGED <<poolSize, overwritten, trusted>>
      BY <1>1 DEF Begin
    <2>3. MustKnow(r)' = {}
      BY <1>0, <2>1 DEF MustKnow, CreditsTypeOK
    <2>4. ASSUME NEW q \in Requests, q # r PROVE MustKnow(q)' \subseteq trusted'[q]
      <3>1. stage'[q] = stage[q] /\ does'[q] = does[q]
        BY <1>0, <2>1, <2>4 DEF CreditsTypeOK
      <3>2. MustKnow(q)' = MustKnow(q)
        BY <2>2, <3>1 DEF MustKnow
      <3> QED
        BY <2>2, <2>4, <3>2 DEF KnowsWhatItReplaces
    <2> QED
      BY <2>2, <2>3, <2>4 DEF KnowsWhatItReplaces
  <1>2. ASSUME NEW r \in Requests, ReadBalance(r) PROVE KnowsWhatItReplaces'
    <2>1. /\ stage[r] \in {"balance", "buyer", "seller"}
          /\ UNCHANGED <<poolSize, does, overwritten>>
          /\ Move(r, AfterReading(r))
          /\ trusted' = [trusted EXCEPT ![r] = @ \cup {Reads(r)}]
      BY <1>2 DEF ReadBalance
    <2>2. Active(r) /\ trusted'[r] = trusted[r] \cup {Reads(r)}
      BY <1>0, <2>1 DEF Active, CreditsTypeOK
    <2>3. stage'[r] = AfterReading(r)
      BY <1>m, <2>1
    <2>4. MustKnow(r)' \subseteq MustKnow(r) \cup {Reads(r)}
      BY <2>1, <2>3 DEF MustKnow, AfterReading, Reads
    <2>5. MustKnow(r)' \subseteq trusted'[r]
      BY <2>2, <2>4 DEF KnowsWhatItReplaces
    <2>6. \A q \in Requests \ {r} : stage'[q] = stage[q] /\ does'[q] = does[q]
      BY <1>m, <2>1
    <2> QED
      BY <1>k, <2>1, <2>2, <2>5, <2>6 DEF KnowsWhatItReplaces
  <1>3. ASSUME NEW r \in Requests, ReadFails(r) \/ MembershipFails(r) PROVE FALSE
    BY <1>3 DEF ReadFails, MembershipFails, Error, Undisturbed
  <1>4. ASSUME NEW r \in Requests,
               \/ ConnectToRead(r) \/ Connect(r) \/ LockTable(r) \/ ConnectOuter(r)
               \/ AskMembership(r) \/ CheckPurchase(r)
        PROVE  KnowsWhatItReplaces'
    <2>1. ConnectToRead(r) => ReadConnected(r)
      BY LoneConnects DEF ReadConnected, ConnectToRead
    <2>2. /\ \E s \in Stages : GoesOn(r, s) /\ stage' = [stage EXCEPT ![r] = s]
          /\ UNCHANGED <<poolSize, does, overwritten, trusted>>
      BY <1>4, <2>1, Going
    <2>3. PICK s \in Stages : GoesOn(r, s) /\ stage' = [stage EXCEPT ![r] = s]
      BY <2>2
    <2>4. stage'[r] = s /\ \A q \in Requests \ {r} : stage'[q] = stage[q]
      BY <1>m, <2>3 DEF Move
    <2>5. Active(r) /\ MustKnow(r)' = MustKnow(r)
      BY <2>2, <2>3, <2>4 DEF GoesOn, Active, MustKnow
    <2> QED
      BY <1>k, <2>2, <2>4, <2>5 DEF KnowsWhatItReplaces
  <1>5. ASSUME NEW r \in Requests, Update(r) PROVE KnowsWhatItReplaces'
    <2>1. UNCHANGED <<poolSize, does, overwritten, trusted>>
      BY <1>5 DEF Update
    <2>2. \/ stage[r] = "row" /\ Move(r, "commit")
          \/ stage[r] = "buyerRow" /\ Move(r, "readSeller")
          \/ stage[r] = "paySeller" /\ Move(r, "insert")
      BY <1>5 DEF Update
    <2>3. Active(r)
      BY <2>2 DEF Active
    <2>4. MustKnow(r)' = MustKnow(r)
      BY <1>m, <2>1, <2>2 DEF MustKnow
    <2>5. \A q \in Requests \ {r} : stage'[q] = stage[q]
      BY <1>m, <2>2
    <2> QED
      BY <1>k, <2>1, <2>3, <2>4, <2>5 DEF KnowsWhatItReplaces
  <1>6. ASSUME NEW r \in Requests, Active(r), End(r), UNCHANGED poolSize, ~overwritten'
        PROVE  KnowsWhatItReplaces'
    <2>1. Move(r, "over") /\ UNCHANGED does
      BY <1>6 DEF End
    <2>2. MustKnow(r)' = {}
      BY <1>m, <2>1 DEF MustKnow
    <2> QED
      BY <1>k, <1>m, <1>6, <2>1, <2>2
  <1>7. ASSUME NEW r \in Requests, Commit(r) \/ InsertPurchase(r) PROVE KnowsWhatItReplaces'
    <2>1. stage[r] \in {"commit", "insert"} /\ Publish(r) /\ End(r) /\ UNCHANGED poolSize
      BY <1>7 DEF Commit, InsertPurchase
    <2> QED
      BY <1>6, <2>1, LonePublish DEF Active
  <1>8. ASSUME NEW r \in Requests,
               \/ AlreadyPurchased(r) \/ RefuseCredits(r) \/ ConnectTimesOut(r)
               \/ PurchaseExists(r) \/ DeadlockAborts(r) \/ DatabaseFails(r)
        PROVE  KnowsWhatItReplaces'
    <2>1. End(r) /\ UNCHANGED <<poolSize, overwritten, trusted>>
      BY <1>8 DEF AlreadyPurchased, RefuseCredits, ConnectTimesOut, PurchaseExists,
                  DeadlockAborts, DatabaseFails, RollBack
    <2>2. ~overwritten'
      BY <2>1 DEF KnowsWhatItReplaces
    <2>3. CASE Active(r)
      BY <1>6, <2>1, <2>2, <2>3
    <2>4. CASE ~Active(r)
      <3>1. Move(r, "over") /\ UNCHANGED does
        BY <2>1 DEF End
      <3>2. ASSUME NEW q \in Requests PROVE MustKnow(q)' \subseteq trusted'[q]
        <4>1. CASE q = r
          BY <1>m, <3>1, <4>1 DEF MustKnow
        <4>2. CASE q # r
          <5>1. stage'[q] = stage[q]
            BY <1>m, <3>1, <4>2
          <5>2. MustKnow(q)' = MustKnow(q)
            BY <2>1, <3>1, <5>1 DEF MustKnow
          <5> QED
            BY <2>1, <5>2 DEF KnowsWhatItReplaces
        <4> QED
          BY <4>1, <4>2
      <3> QED
        BY <2>2, <3>2 DEF KnowsWhatItReplaces
    <2> QED
      BY <2>3, <2>4
  <1>9. CASE UNCHANGED creditsVars
    BY <1>9 DEF creditsVars, requestVars, KnowsWhatItReplaces, MustKnow
  <1> QED
    BY <1>1, <1>2, <1>3, <1>4, <1>5, <1>7, <1>8, <1>9 DEF CreditsNext, Proceed, Fails

\* Taken one after the other, requests keep every balance equal to its log: what
\* the excuse of BalanceIsLogged is for happens between requests, not within one.
THEOREM UndisturbedBalances ==
    CreditsSpec /\ [](Undisturbed /\ poolSize > 1) =>
        [](\A u \in Accounts : balance[u] = Opening + logged[u])
  <1>1. CreditsInit => KnowsWhatItReplaces
    BY DEF CreditsInit, KnowsWhatItReplaces, MustKnow
  <1>2. CreditsInv /\ KnowsWhatItReplaces /\ (Undisturbed /\ poolSize > 1)
            /\ (Undisturbed /\ poolSize > 1)' /\ [CreditsNext]_creditsVars
            => KnowsWhatItReplaces'
    BY UndisturbedStep DEF Undisturbed
  <1>3. CreditsInv /\ KnowsWhatItReplaces => \A u \in Accounts : balance[u] = Opening + logged[u]
    BY DEF CreditsInv, BalanceIsLogged, KnowsWhatItReplaces
  <1> QED
    BY <1>1, <1>2, <1>3, CreditsInvariant, PTL DEF CreditsSpec
=============================================================================
