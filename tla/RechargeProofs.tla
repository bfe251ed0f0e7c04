--------------------------- MODULE RechargeProofs ---------------------------
(***************************************************************************)
(* Recharge orders for every set of orders, accounts and concurrent        *)
(* requests: an account has one pending order, an order is credited once,  *)
(* a paid order stays paid, and every completed checkout has exactly one  *)
(* grant, which is one for its payment when methods settle at checkout.    The argument is about   *)
(* row locks: what a transaction has read under a lock is still true when  *)
(* it commits.                                                             *)
(***************************************************************************)
EXTENDS Recharge, TLAPS

\* An order whose URL was never returned has no session in its row, no
\* event, no request and no payment.
Unpayable ==
    \A o \in Orders : call[o] # "done" =>
        /\ ~session[o] /\ status[o] # "paid" /\ credited[o] = 0
        /\ stripe[o] \notin {"processing", "paid", "failed"}
        /\ \A e \in events : e.order # o
        /\ \A h \in Handlers : handler[h].order # o

\* The row is inserted when the transaction of the call commits.
NotInserted == \A o \in Orders : call[o] \in {"none", "begun"} => status[o] = "none"

\* What a call has read and locked are the pending orders of its account.
ReadsPending ==
    \A c \in Orders : call[c] = "begun" => old[c] = Pending(Owner[c])

\* A row lock has one holder.
LocksExclude ==
    /\ \A h, k \in Handlers, o \in Orders : Holds(h, o) /\ Holds(k, o) => h = k
    /\ \A c \in Orders, h \in Handlers :
         call[c] = "begun" => \A o \in old[c] : ~Holds(h, o)

\* What a request has read under its lock still holds.
ReadsHold ==
    \A h \in Handlers :
        /\ handler[h].pc = "crediting" =>
             handler[h].ok = (status[handler[h].order] # "paid")
        /\ handler[h].pc = "closing" =>
             handler[h].ok = (status[handler[h].order] = "pending")

LockInv ==
    /\ TypeOK /\ Unpayable /\ NotInserted /\ ReadsPending /\ LocksExclude /\ ReadsHold
    /\ OnePending /\ CreditedOnce

\* No call holds a lock at first.
LEMMA LockInvInit == Init => LockInv
BY NoOrderAssumption, OwnerAssumption
DEF Init, LockInv, TypeOK, Unpayable, NotInserted, ReadsPending, LocksExclude,
    ReadsHold, OnePending, CreditedOnce, Pending, Holds, Idle

\* Every action keeps the types.
LEMMA TypeStep ==
    ASSUME TypeOK, [Next]_rechargeVars
    PROVE  TypeOK'
<1> USE OwnerAssumption, NoOrderAssumption DEF TypeOK
<1>1. ASSUME NEW o \in Orders,
             CreateBegin(o) \/ CreateCommit(o) \/ CreateDies(o) \/ CheckoutOk(o)
               \/ CreateFails(o) \/ SaveSession(o)
      PROVE TypeOK'
  <2>1. CASE CreateBegin(o)
    BY <2>1 DEF CreateBegin, Pending, orderVars, invoiceVars, stripeVars
  <2>2. CASE CreateCommit(o)
    BY <2>2 DEF CreateCommit, invoiceVars, stripeVars
  <2>3. CASE CreateDies(o)
    BY <2>3 DEF CreateDies, orderVars, invoiceVars, stripeVars
  <2>4. CASE CheckoutOk(o)
    BY <2>4 DEF CheckoutOk, orderVars, invoiceVars
  <2>5. CASE CreateFails(o)
    BY <2>5 DEF CreateFails, invoiceVars
  <2>6. CASE SaveSession(o)
    BY <2>6 DEF SaveSession, invoiceVars, stripeVars
  <2> QED
    BY <1>1, <2>1, <2>2, <2>3, <2>4, <2>5, <2>6
<1>2. ASSUME NEW o \in Orders,
             Pay(o) \/ PayLater(o) \/ LatePayment(o) \/ SessionExpires(o) \/ Expire(o)
               \/ ApplyFind(o) \/ ApplyIssue(o)
      PROVE TypeOK'
  <2>1. CASE Pay(o) \/ PayLater(o) \/ LatePayment(o)
    <3>1. /\ UNCHANGED <<orderVars, createVars, handler, invoiceVars>>
          /\ \E t \in EventType, paid \in BOOLEAN : Send(t, o, paid)
          /\ \E x \in {"paid", "failed", "processing"} :
               stripe' = [stripe EXCEPT ![o] = x]
      BY <2>1 DEF Pay, PayLater, LatePayment, EventType
    <3>2. events' \in SUBSET Event
      BY <3>1 DEF Send, Event
    <3>3. stripe' \in [Orders -> {"none", "open", "processing", "paid", "failed", "expired"}]
      BY <3>1
    <3> QED
      BY <3>1, <3>2, <3>3 DEF orderVars, createVars, invoiceVars
  <2>2. CASE SessionExpires(o)
    BY <2>2 DEF SessionExpires, orderVars, createVars, invoiceVars
  <2>3. CASE Expire(o)
    BY <2>3 DEF Expire, createVars, invoiceVars, stripeVars
  <2>4. CASE ApplyFind(o)
    BY <2>4 DEF ApplyFind, orderVars, createVars, stripeVars
  <2>5. CASE ApplyIssue(o)
    BY <2>5 DEF ApplyIssue, orderVars, createVars, stripeVars
  <2> QED
    BY <1>2, <2>1, <2>2, <2>3, <2>4, <2>5
<1>3. ASSUME NEW h \in Handlers, NEW e \in events, Notify(h, e) PROVE TypeOK'
  BY <1>3 DEF Notify, LockRow, Event, orderVars, createVars, invoiceVars, stripeVars
<1>4. ASSUME NEW h \in Handlers, NEW o \in Orders, Query(h, o) PROVE TypeOK'
  BY <1>4 DEF Query, orderVars, createVars, invoiceVars, stripeVars
<1>5. ASSUME NEW h \in Handlers,
             QueryAnswered(h) \/ CreditPaid(h) \/ CloseOrder(h) \/ RequestEnds(h)
      PROVE TypeOK'
  <2>0. handler[h].pc # "idle" => handler[h].order \in Orders
    BY DEF Idle
  <2>1. CASE QueryAnswered(h)
    <3>1. PICK pc \in {"crediting", "closing"} : LockRow(h, handler[h].order, pc)
      BY <2>1 DEF QueryAnswered
    <3>2. handler[h].order \in Orders
      BY <2>0, <2>1 DEF QueryAnswered
    <3> QED
      BY <2>1, <3>1, <3>2 DEF QueryAnswered, LockRow, orderVars, createVars,
                              invoiceVars, stripeVars
  <2>2. CASE CreditPaid(h)
    BY <2>2, <2>0 DEF CreditPaid, createVars, invoiceVars, stripeVars
  <2>3. CASE CloseOrder(h)
    BY <2>3, <2>0 DEF CloseOrder, createVars, invoiceVars, stripeVars
  <2>4. CASE RequestEnds(h)
    BY <2>4 DEF RequestEnds, orderVars, createVars, invoiceVars, stripeVars
  <2> QED
    BY <1>5, <2>1, <2>2, <2>3, <2>4
<1>6. CASE SweepOrders
  BY <1>6 DEF SweepOrders, createVars, invoiceVars, stripeVars
<1>7. CASE UNCHANGED rechargeVars
  BY <1>7 DEF rechargeVars, orderVars, createVars, invoiceVars, stripeVars
<1> QED
  BY <1>1, <1>2, <1>3, <1>4, <1>5, <1>6, <1>7 DEF Next
-----------------------------------------------------------------------------
\* What the steps of Stripe, of time and of the invoices can touch.
LEMMA QuietStep ==
    ASSUME LockInv, NEW o \in Orders,
           Pay(o) \/ PayLater(o) \/ LatePayment(o) \/ SessionExpires(o) \/ Expire(o)
             \/ ApplyFind(o) \/ ApplyIssue(o)
    PROVE  /\ UNCHANGED <<status, session, credited, call, old, handler>>
           /\ \A e \in events' : e \in events \/ call[e.order] = "done"
           /\ \A x \in Orders :
                call[x] # "done" => stripe'[x] \notin {"processing", "paid", "failed"}
<1> USE DEF LockInv, TypeOK, Unpayable
<1>1. CASE Pay(o) \/ PayLater(o)
  BY <1>1 DEF Pay, PayLater, Send, orderVars, createVars
<1>2. CASE LatePayment(o)
  BY <1>2 DEF LatePayment, Send, orderVars, createVars
<1>3. CASE SessionExpires(o)
  BY <1>3 DEF SessionExpires, orderVars, createVars
<1>4. CASE Expire(o) \/ ApplyFind(o) \/ ApplyIssue(o)
  BY <1>4 DEF Expire, ApplyFind, ApplyIssue, orderVars, createVars, stripeVars
<1> QED
  BY <1>1, <1>2, <1>3, <1>4

\* What the row and gap locks give survives every action.
LEMMA LockInvStep ==
    ASSUME LockInv, TypeOK', [Next]_rechargeVars
    PROVE  LockInv'
<1> DEFINE Rest == /\ Unpayable /\ NotInserted /\ ReadsPending /\ LocksExclude
                   /\ ReadsHold /\ OnePending /\ CreditedOnce
<1> USE OwnerAssumption, NoOrderAssumption
    DEF LockInv, TypeOK, Unpayable, NotInserted, ReadsPending, LocksExclude, ReadsHold,
        OnePending, CreditedOnce, Pending, Holds
<1>1. ASSUME NEW o \in Orders,
             Pay(o) \/ PayLater(o) \/ LatePayment(o) \/ SessionExpires(o) \/ Expire(o)
               \/ ApplyFind(o) \/ ApplyIssue(o)
      PROVE Rest'
  BY <1>1, QuietStep
<1>2. ASSUME NEW o \in Orders, CreateBegin(o) PROVE Rest'
  BY <1>2 DEF CreateBegin, RowFree, Creating, orderVars, stripeVars
<1>3. ASSUME NEW o \in Orders, CreateCommit(o) PROVE Rest'
  <2>1. /\ UNCHANGED <<session, credited, handler, stripe, events>>
        /\ call[o] = "begun" /\ status[o] = "none"
        /\ call' = [call EXCEPT ![o] = "created"] /\ old' = [old EXCEPT ![o] = {}]
        /\ \A x \in Orders : call[x] = "begun" /\ Owner[x] = Owner[o] => x = o
        /\ old[o] = {x \in Orders : Owner[x] = Owner[o] /\ status[x] = "pending"}
    BY <1>3 DEF CreateCommit, Creating, stripeVars
  <2>2. \A x \in Orders :
          /\ x = o => status'[x] = "pending"
          /\ x \in old[o] => status'[x] = "closed"
          /\ x # o /\ x \notin old[o] => status'[x] = status[x]
    BY <2>1, <1>3 DEF CreateCommit
  <2>3. Unpayable' /\ NotInserted' /\ CreditedOnce'
    BY <2>1, <2>2
  <2>4. ReadsPending' /\ OnePending'
    BY <2>1, <2>2
  <2>5. LocksExclude'
    BY <2>1
  <2>6. ASSUME NEW h \in Handlers, handler[h].pc \in {"crediting", "closing"}
        PROVE  /\ handler[h].order \in Orders
               /\ status'[handler[h].order] = status[handler[h].order]
    <3>1. handler[h].order \in Orders
      BY <2>6 DEF Idle
    <3>2. handler[h].order # o /\ handler[h].order \notin old[o]
      BY <2>1, <2>6, <3>1
    <3> QED
      BY <2>2, <3>1, <3>2
  <2>7. ReadsHold'
    BY <2>1, <2>6
  <2> QED
    BY <2>3, <2>4, <2>5, <2>7
<1>4. ASSUME NEW o \in Orders, CreateDies(o) \/ CheckoutOk(o) PROVE Rest'
  BY <1>4 DEF CreateDies, CheckoutOk, orderVars, stripeVars
<1>5. ASSUME NEW o \in Orders, CreateFails(o) PROVE Rest'
  BY <1>5 DEF CreateFails, RowFree, Creating
<1>6. ASSUME NEW o \in Orders, SaveSession(o) PROVE Rest'
  BY <1>6 DEF SaveSession, stripeVars
<1>7. ASSUME NEW h \in Handlers, NEW e \in events, Notify(h, e) PROVE Rest'
  BY <1>7 DEF Notify, LockRow, RowFree, Creating, Idle, Event, orderVars, createVars, stripeVars
<1>8. ASSUME NEW h \in Handlers, NEW o \in Orders, Query(h, o) PROVE Rest'
  BY <1>8 DEF Query, Idle, orderVars, createVars, stripeVars
<1>9. ASSUME NEW h \in Handlers, QueryAnswered(h) PROVE Rest'
  <2>1. PICK pc \in {"crediting", "closing"} : LockRow(h, handler[h].order, pc)
    BY <1>9 DEF QueryAnswered
  <2>2. handler[h].order \in Orders /\ handler[h].pc = "asked"
    BY <1>9 DEF QueryAnswered, Idle
  <2>3. UNCHANGED <<orderVars, createVars, stripeVars>>
    BY <1>9 DEF QueryAnswered
  <2> QED
    BY <2>1, <2>2, <2>3 DEF LockRow, RowFree, Creating, orderVars, createVars, stripeVars
<1>10. ASSUME NEW h \in Handlers, CreditPaid(h) PROVE Rest'
  <2> DEFINE o == handler[h].order
  <2>1. /\ o \in Orders /\ Holds(h, o)
        /\ handler' = [handler EXCEPT ![h] = Idle]
        /\ UNCHANGED <<session, call, old, stripe, events>>
    BY <1>10 DEF CreditPaid, Idle, createVars, stripeVars
  <2>2. \/ /\ status[o] # "paid" /\ status' = [status EXCEPT ![o] = "paid"]
           /\ credited' = [credited EXCEPT ![o] = @ + 1]
        \/ UNCHANGED <<status, credited>>
    BY <1>10 DEF CreditPaid
  <2>3. call[o] = "done"
    BY <2>1
  <2>4. \A q \in Handlers : q # h => ~Holds(q, o)
    BY <1>10, <2>1 DEF CreditPaid
  <2>5. \A c \in Orders : call[c] = "begun" => o \notin old[c]
    BY <1>10, <2>1 DEF CreditPaid
  <2> HIDE DEF o
  <2>6. Unpayable' /\ NotInserted'
    BY <2>1, <2>2, <2>3 DEF Idle
  <2>7. ReadsPending' /\ OnePending' /\ CreditedOnce'
    BY <2>1, <2>2, <2>5, SMTT(30)
  <2>8. LocksExclude'
    BY <2>1 DEF Idle
  <2>9. ReadsHold'
    BY <2>1, <2>2, <2>4 DEF Idle
  <2> QED
    BY <2>6, <2>7, <2>8, <2>9
<1>11. ASSUME NEW h \in Handlers, CloseOrder(h) PROVE Rest'
  BY <1>11 DEF CloseOrder, Idle, createVars, stripeVars
<1>12. ASSUME NEW h \in Handlers, RequestEnds(h) PROVE Rest'
  BY <1>12 DEF RequestEnds, Idle, orderVars, createVars, stripeVars
<1>13. CASE SweepOrders
  <2>1. PICK late \in SUBSET Orders :
          /\ \A o \in late : status[o] = "pending" /\ RowFree(o)
          /\ status' = [o \in Orders |-> IF o \in late THEN "closed" ELSE status[o]]
          /\ UNCHANGED <<session, credited, call, old, handler, stripe, events>>
    BY <1>13 DEF SweepOrders, createVars, stripeVars
  <2>2. \A o \in late, c \in Orders : call[c] = "begun" => Owner[c] # Owner[o]
    BY <2>1 DEF RowFree, Creating
  <2>3. \A o \in late, h \in Handlers : ~Holds(h, o)
    BY <2>1 DEF RowFree
  <2>4. Unpayable' /\ NotInserted' /\ CreditedOnce' /\ OnePending'
    BY <2>1
  <2>5. ReadsPending' /\ LocksExclude'
    BY <2>1, <2>2
  <2>6. ReadsHold'
    BY <2>1, <2>3 DEF Idle
  <2> QED
    BY <2>4, <2>5, <2>6
<1>14. CASE UNCHANGED rechargeVars
  BY <1>14 DEF rechargeVars, orderVars, createVars, stripeVars
<1> QED
  BY <1>1, <1>2, <1>3, <1>4, <1>5, <1>6, <1>7, <1>8, <1>9, <1>10, <1>11, <1>12,
     <1>13, <1>14 DEF Next
-----------------------------------------------------------------------------
\* What the row and gap locks give holds in every behaviour.
LEMMA LockInvHolds == Safety => []LockInv
<1>1. LockInv /\ [Next]_rechargeVars => LockInv'
  BY TypeStep, LockInvStep DEF LockInv
<1> QED
  BY <1>1, LockInvInit, PTL DEF Safety

\* Orders, calls, requests and Stripe's events keep their types.
THEOREM RechargeTypes == Safety => []TypeOK
<1>1. LockInv => TypeOK
  BY DEF LockInv
<1> QED
  BY <1>1, LockInvHolds, PTL

\* However many calls an account makes at once, gap locks and row locks leave
\* it with one pending order.
THEOREM OneOrderPending == Safety => []OnePending
<1>1. LockInv => OnePending
  BY DEF LockInv
<1> QED
  BY <1>1, LockInvHolds, PTL

\* However many webhooks and queries credit an order at once, its coins are
\* granted once, and it is marked paid with them.
THEOREM OrdersCreditedOnce == Safety => []CreditedOnce
<1>1. LockInv => CreditedOnce
  BY DEF LockInv
<1> QED
  BY <1>1, LockInvHolds, PTL

\* Nothing closes an order that was paid.
LEMMA PaidStep ==
    ASSUME LockInv, [Next]_rechargeVars, NEW x \in Orders, status[x] = "paid"
    PROVE  status'[x] = "paid"
<1> USE DEF LockInv, TypeOK
<1>1. ASSUME NEW o \in Orders, CreateCommit(o) PROVE status'[x] = "paid"
  BY <1>1 DEF CreateCommit, NotInserted, ReadsPending, Pending
<1>2. ASSUME NEW o \in Orders, CreateFails(o) PROVE status'[x] = "paid"
  BY <1>2 DEF CreateFails, Unpayable
<1>3. ASSUME NEW h \in Handlers, CreditPaid(h) PROVE status'[x] = "paid"
  BY <1>3 DEF CreditPaid
<1>4. ASSUME NEW h \in Handlers, CloseOrder(h) PROVE status'[x] = "paid"
  BY <1>4 DEF CloseOrder, ReadsHold
<1>5. CASE SweepOrders
  BY <1>5 DEF SweepOrders
<1>6. CASE UNCHANGED status
  BY <1>6
<1> QED
  BY <1>1, <1>2, <1>3, <1>4, <1>5, <1>6
  DEF Next, CreateBegin, CreateDies, CheckoutOk, SaveSession, Pay, PayLater, LatePayment,
      SessionExpires, Expire, ApplyFind, ApplyIssue, Notify, Query, QueryAnswered,
      RequestEnds, rechargeVars, orderVars

\* Neither the sweeper, a query with an old answer of Stripe, nor a newer or
\* failing CreateRecharge takes an order out of "paid".
THEOREM PaidOrdersStay == Safety => PaidStaysPaid
<1>1. LockInv /\ [Next]_rechargeVars =>
        [\A o \in Orders : status[o] = "paid" => status'[o] = "paid"]_rechargeVars
  BY PaidStep
<1> QED
  BY <1>1, LockInvHolds, PTL DEF PaidStaysPaid, Safety
-----------------------------------------------------------------------------
\* One invoice at most, for an order that is paid, as is one applied for.
PaidForInvoice ==
    \A o \in Orders :
        /\ invoices[o] \in {0, 1}
        /\ o \in applying \/ invoices[o] # 0 => status[o] = "paid"

\* Invoices stay at most one per order, and for paid orders only.
LEMMA InvoiceStep ==
    ASSUME LockInv, PaidForInvoice, [Next]_rechargeVars
    PROVE  PaidForInvoice'
<1> USE DEF LockInv, TypeOK, PaidForInvoice
<1>1. \A x \in Orders : status[x] = "paid" => status'[x] = "paid"
  BY PaidStep DEF LockInv
<1>2. ASSUME NEW o \in Orders, ApplyFind(o) PROVE PaidForInvoice'
  BY <1>1, <1>2 DEF ApplyFind
<1>3. ASSUME NEW o \in Orders, ApplyIssue(o) PROVE PaidForInvoice'
  BY <1>1, <1>3 DEF ApplyIssue
<1>4. CASE UNCHANGED <<invoices, applying>>
  BY <1>1, <1>4
<1> QED
  BY <1>2, <1>3, <1>4
  DEF Next, CreateBegin, CreateCommit, CreateDies, CheckoutOk, CreateFails, SaveSession,
      Pay, PayLater, LatePayment, SessionExpires, Expire, Notify, Query, QueryAnswered,
      CreditPaid, CloseOrder, RequestEnds, SweepOrders, invoiceVars, rechargeVars

\* The order is looked up before the transaction that issues the invoice, and
\* is still paid then: an order is invoiced once and only for its coins.
THEOREM InvoicesAreForCredits == Safety => []InvoiceForCredit
<1>1. Init => PaidForInvoice
  <2> SUFFICES ASSUME Init, NEW o \in Orders
               PROVE  invoices[o] = 0 /\ o \notin applying
    BY DEF PaidForInvoice
  <2> QED
    BY DEF Init
<1>2. LockInv /\ PaidForInvoice /\ [Next]_rechargeVars => PaidForInvoice'
  BY InvoiceStep
<1>3. LockInv /\ PaidForInvoice => InvoiceForCredit
  <2> SUFFICES ASSUME LockInv, PaidForInvoice, NEW o \in Orders
               PROVE  invoices[o] <= credited[o]
    BY DEF InvoiceForCredit
  <2> QED
    BY DEF LockInv, TypeOK, PaidForInvoice, CreditedOnce
<1> QED
  BY <1>1, <1>2, <1>3, LockInvHolds, PTL DEF Safety
-----------------------------------------------------------------------------
\* The checkout of every credited order, of every paid answer and of every
\* event that credits is completed; it is paid unless it settles later.
Reported(o) == o \in Completed /\ (~AsyncMethods => stripe[o] = "paid")

CreditsReported ==
    /\ \A o \in Orders : credited[o] > 0 => Reported(o)
    /\ \A o \in Completed : Reported(o)
    /\ \A e \in events : Reported(e.order)
    /\ \A h \in Handlers :
         (handler[h].pc = "asked" /\ handler[h].ok) \/ handler[h].pc = "crediting"
            => Reported(handler[h].order)

\* Every credit goes back to a completion that Stripe reported.
LEMMA ReportedStep ==
    ASSUME LockInv, CreditsReported, [Next]_rechargeVars
    PROVE  CreditsReported'
<1> USE NoOrderAssumption DEF LockInv, TypeOK, CreditsReported, Completed, Reported
<1>1. ASSUME NEW o \in Orders, CheckoutOk(o) PROVE CreditsReported'
  BY <1>1 DEF CheckoutOk, orderVars, Unpayable, Event, Idle
<1>2. ASSUME NEW o \in Orders, CreateFails(o) PROVE CreditsReported'
  BY <1>2 DEF CreateFails, Unpayable, Event, Idle
<1>3. ASSUME NEW o \in Orders, Pay(o) PROVE CreditsReported'
  BY <1>3 DEF Pay, Send, orderVars, Event, Idle
<1>4. ASSUME NEW o \in Orders, SessionExpires(o) PROVE CreditsReported'
  BY <1>4 DEF SessionExpires, orderVars, Event, Idle
<1>5. ASSUME NEW o \in Orders, PayLater(o) PROVE CreditsReported'
  BY <1>5 DEF PayLater, Send, orderVars, Event, Idle
<1>6. ASSUME NEW o \in Orders, LatePayment(o) PROVE CreditsReported'
  BY <1>6 DEF LatePayment, Send, orderVars, Event, Idle
<1>7. ASSUME NEW h \in Handlers, NEW e \in events, Notify(h, e) PROVE CreditsReported'
  BY <1>7 DEF Notify, LockRow, orderVars, stripeVars
<1>8. ASSUME NEW h \in Handlers, NEW o \in Orders, Query(h, o) PROVE CreditsReported'
  BY <1>8 DEF Query, orderVars, stripeVars
<1>9. ASSUME NEW h \in Handlers, QueryAnswered(h) PROVE CreditsReported'
  BY <1>9 DEF QueryAnswered, LockRow, orderVars, stripeVars
<1>10. ASSUME NEW h \in Handlers, CreditPaid(h) PROVE CreditsReported'
  BY <1>10 DEF CreditPaid, stripeVars, Idle
<1>11. ASSUME NEW h \in Handlers, CloseOrder(h) \/ RequestEnds(h) PROVE CreditsReported'
  BY <1>11 DEF CloseOrder, RequestEnds, orderVars, stripeVars, Idle
<1>12. CASE UNCHANGED <<credited, handler, stripe, events>>
  BY <1>12
<1> QED
  BY <1>1, <1>2, <1>3, <1>4, <1>5, <1>6, <1>7, <1>8, <1>9, <1>10, <1>11, <1>12
  DEF Next, CreateBegin, CreateCommit, CreateDies, SaveSession, Expire, ApplyFind,
      ApplyIssue, SweepOrders, rechargeVars, orderVars, stripeVars

\* Credits are reported ones in every behaviour.
LEMMA ReportedHolds == Safety => [](LockInv /\ CreditsReported)
<1>1. Init => CreditsReported
  BY DEF Init, CreditsReported, Completed, Idle
<1>2. LockInv /\ CreditsReported /\ [Next]_rechargeVars => CreditsReported'
  BY ReportedStep
<1> QED
  BY <1>1, <1>2, LockInvHolds, PTL DEF Safety

\* When every payment method settles at checkout, coins are granted only for
\* money that has arrived.
THEOREM CreditsArePaid ==
    ASSUME ~AsyncMethods
    PROVE  Safety => []CreditOnlyPaid
<1>1. CreditsReported => CreditOnlyPaid
  BY DEF CreditsReported, Reported, CreditOnlyPaid
<1> QED
  BY <1>1, ReportedHolds, PTL

\* Every step grants the coins of one completed checkout, or stutters.
LEMMA PaymentStep ==
    ASSUME LockInv, CreditsReported, [Next]_rechargeVars
    PROVE  [Payments!Next]_<<Completed, credited>>
<1> USE DEF LockInv, TypeOK, Completed
<1>1. ASSUME NEW o \in Orders, Pay(o) PROVE Payments!Commit(o)
  BY <1>1 DEF Pay, Payments!Commit, orderVars
<1>2. ASSUME NEW o \in Orders, PayLater(o) PROVE Payments!Commit(o)
  BY <1>2 DEF PayLater, Payments!Commit, orderVars
<1>3. ASSUME NEW h \in Handlers, CreditPaid(h), handler[h].ok
      PROVE \E o \in Orders : Payments!Apply(o)
  <2>1. handler[h].order \in Orders
    BY <1>3 DEF CreditPaid, Idle
  <2>2. credited[handler[h].order] = 0 /\ handler[h].order \in Completed
    BY <1>3, <2>1 DEF CreditPaid, ReadsHold, CreditedOnce, CreditsReported, Reported
  <2> QED
    BY <1>3, <2>1, <2>2 DEF CreditPaid, Payments!Apply, stripeVars
<1>4. ASSUME NEW h \in Handlers, CreditPaid(h), ~handler[h].ok
      PROVE UNCHANGED <<Completed, credited>>
  BY <1>4 DEF CreditPaid, stripeVars
<1>5. ASSUME NEW o \in Orders, CheckoutOk(o) \/ CreateFails(o)
      PROVE UNCHANGED <<Completed, credited>>
  BY <1>5 DEF CheckoutOk, CreateFails, orderVars, Unpayable
<1>6. ASSUME NEW o \in Orders, SessionExpires(o)
      PROVE UNCHANGED <<Completed, credited>>
  BY <1>6 DEF SessionExpires, orderVars
<1>7. ASSUME NEW o \in Orders, LatePayment(o)
      PROVE UNCHANGED <<Completed, credited>>
  BY <1>7, ZenonT(40) DEF LatePayment, orderVars
<1>8. CASE UNCHANGED <<credited, stripe>>
  BY <1>8
<1> QED
  BY <1>1, <1>2, <1>3, <1>4, <1>5, <1>6, <1>7, <1>8
  DEF Next, CreateBegin, CreateCommit, CreateDies, SaveSession, Expire, Notify, LockRow,
      Query, QueryAnswered, CloseOrder, RequestEnds, ApplyFind, ApplyIssue, SweepOrders,
      rechargeVars, orderVars, stripeVars, Payments!Next

\* One grant of coins for every completed checkout, none without one: the
\* recharge implements the exactly-once specification.
THEOREM RechargeImplementsOnce == Safety => PaymentExactlyOnce
<1>1. Init => Payments!Init
  BY DEF Init, Payments!Init, Completed
<1>2. LockInv /\ CreditsReported /\ [Next]_rechargeVars
        => [Payments!Next]_<<Completed, credited>>
  BY PaymentStep
<1> QED
  BY <1>1, <1>2, ReportedHolds, PTL DEF Safety, PaymentExactlyOnce, Payments!Spec
=============================================================================
