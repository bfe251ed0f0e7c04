------------------------------ MODULE Recharge ------------------------------
(***************************************************************************)
(* Recharge orders (wallet/service.go, wallet/repo.go) and the invoices    *)
(* issued for them (invoice/service.go).  An order is created, paid on a   *)
(* Stripe Checkout page, and credited by a webhook or by a query of its    *)
(* owner, while the sweeper, a newer order or the query close it.          *)
(*                                                                         *)
(* Every database transaction takes its row locks in one step and commits  *)
(* in a later one.  Stripe is external: sessions, payments, and events     *)
(* that are delivered any number of times, in any order.                   *)
(***************************************************************************)
EXTENDS Naturals

CONSTANTS
    Orders,        \* out_trade_no of every CreateRecharge call
    Accounts,
    Owner,         \* the account that makes the call
    Handlers,      \* webhook and query requests served at the same time
    NoOrder,       \* no order: a handler that is idle
    AsyncMethods   \* TRUE: Stripe offers methods that settle after checkout

ASSUME OwnerAssumption == Owner \in [Orders -> Accounts]
ASSUME NoOrderAssumption == NoOrder \notin Orders
ASSUME AsyncAssumption == AsyncMethods \in BOOLEAN

VARIABLES
    status,     \* wallet_recharge_orders.status
    session,    \* stripe_session is stored in the row
    due,        \* expire_at has passed
    credited,   \* times the coins of the order were granted
    call,       \* where CreateRecharge is for this order
    old,        \* the pending orders that call has read and locked
    handler,    \* [pc, order, ok]: a request and what it has read
    invoices,   \* times an invoice was issued for the order
    applying,   \* applications that have found the order paid
    stripe,     \* the Checkout session of the order at Stripe
    events      \* webhook events Stripe delivers, and delivers again

orderVars == <<status, session, due, credited>>
stripeVars == <<stripe, events>>
invoiceVars == <<invoices, applying>>
createVars == <<call, old>>
rechargeVars == <<orderVars, createVars, handler, invoiceVars, stripeVars>>

EventType == {"completed", "async_succeeded", "async_failed"}
Event == [type : EventType, order : Orders, paid : BOOLEAN]
Idle == [pc |-> "idle", order |-> NoOrder, ok |-> FALSE]

TypeOK ==
    /\ status \in [Orders -> {"none", "pending", "paid", "closed"}]
    /\ session \in [Orders -> BOOLEAN]
    /\ due \in [Orders -> BOOLEAN]
    /\ credited \in [Orders -> Nat]
    /\ call \in [Orders -> {"none", "begun", "created", "checkout", "done", "failed"}]
    /\ old \in [Orders -> SUBSET Orders]
    /\ handler \in [Handlers -> {Idle} \union
                      [pc : {"asked", "crediting", "closing"}, order : Orders, ok : BOOLEAN]]
    /\ invoices \in [Orders -> Nat]
    /\ applying \in SUBSET Orders
    /\ stripe \in [Orders -> {"none", "open", "processing", "paid", "failed", "expired"}]
    /\ events \in SUBSET Event

Init ==
    /\ status = [o \in Orders |-> "none"]
    /\ session = [o \in Orders |-> FALSE]
    /\ due = [o \in Orders |-> FALSE]
    /\ credited = [o \in Orders |-> 0]
    /\ call = [o \in Orders |-> "none"]
    /\ old = [o \in Orders |-> {}]
    /\ handler = [h \in Handlers |-> Idle]
    /\ invoices = [o \in Orders |-> 0]
    /\ applying = {}
    /\ stripe = [o \in Orders |-> "none"]
    /\ events = {}
-----------------------------------------------------------------------------
Pending(a) == {o \in Orders : Owner[o] = a /\ status[o] = "pending"}

\* pendingOrders without FOR UPDATE: no other transaction notices the call.
CreatingUnlocked(a) == {}

\* Calls of account a that hold the lock of its pending range.
Creating(a) == {o \in Orders : Owner[o] = a /\ call[o] = "begun"}

\* Request h has locked the row of order o.
Holds(h, o) == handler[h].pc \in {"crediting", "closing"} /\ handler[h].order = o

\* No other transaction has the row of order o locked.
RowFree(o) ==
    /\ \A h \in Handlers : ~Holds(h, o)
    /\ \A c \in Creating(Owner[o]) : o \notin old[c]

\* CreateRecharge, first statement of its transaction: the pending orders are
\* read FOR UPDATE.  Rows exclude each other; on an empty range two calls get
\* the gap lock together, and each then keeps the other from inserting.
CreateBegin(o) ==
    /\ call[o] = "none"
    /\ \A p \in Pending(Owner[o]) : RowFree(p)
    /\ call' = [call EXCEPT ![o] = "begun"]
    /\ old' = [old EXCEPT ![o] = Pending(Owner[o])]
    /\ UNCHANGED <<orderVars, handler, invoiceVars, stripeVars>>

\* It closes what it has read, inserts its own order and commits.
CreateCommit(o) ==
    /\ call[o] = "begun"
    /\ Creating(Owner[o]) \subseteq {o}
    /\ status' = [x \in Orders |-> IF x = o THEN "pending"
                                   ELSE IF x \in old[o] THEN "closed"
                                   ELSE status[x]]
    /\ call' = [call EXCEPT ![o] = "created"]
    /\ old' = [old EXCEPT ![o] = {}]
    /\ UNCHANGED <<session, due, credited, handler, invoiceVars, stripeVars>>

\* The transaction is rolled back (of two calls that wait for each other's
\* gap lock InnoDB picks one), or the process dies anywhere in the call.
CreateDies(o) ==
    /\ call[o] \in {"begun", "created", "checkout"}
    /\ call' = [call EXCEPT ![o] = "failed"]
    /\ old' = [old EXCEPT ![o] = {}]
    /\ UNCHANGED <<orderVars, handler, invoiceVars, stripeVars>>

CheckoutOk(o) ==
    /\ call[o] = "created"
    /\ stripe' = [stripe EXCEPT ![o] = "open"]
    /\ call' = [call EXCEPT ![o] = "checkout"]
    /\ UNCHANGED <<orderVars, old, handler, invoiceVars, events>>

\* CreateCheckout, or storing the session, fails: the order is closed with no
\* look at its status.  After a timeout Stripe may have the session.
CreateFails(o) ==
    /\ call[o] \in {"created", "checkout"}
    /\ RowFree(o)
    /\ status' = [status EXCEPT ![o] = "closed"]
    /\ \E s \in {stripe[o], "open"} : stripe' = [stripe EXCEPT ![o] = s]
    /\ call' = [call EXCEPT ![o] = "failed"]
    /\ UNCHANGED <<session, due, credited, old, handler, invoiceVars, events>>

\* The session is stored and its URL returned to the customer.
SaveSession(o) ==
    /\ call[o] = "checkout"
    /\ RowFree(o)
    /\ session' = [session EXCEPT ![o] = TRUE]
    /\ call' = [call EXCEPT ![o] = "done"]
    /\ UNCHANGED <<status, due, credited, old, handler, invoiceVars, stripeVars>>
-----------------------------------------------------------------------------
\* Stripe.  Only a customer who was given the URL can pay.
Send(t, o, paid) == events' = events \union {[type |-> t, order |-> o, paid |-> paid]}

Pay(o) ==
    /\ call[o] = "done" /\ stripe[o] = "open"
    /\ stripe' = [stripe EXCEPT ![o] = "paid"]
    /\ Send("completed", o, TRUE)
    /\ UNCHANGED <<orderVars, createVars, handler, invoiceVars>>

\* Checkout completes, the money may come later: payment_status is "unpaid".
PayLater(o) ==
    /\ AsyncMethods
    /\ call[o] = "done" /\ stripe[o] = "open"
    /\ stripe' = [stripe EXCEPT ![o] = "processing"]
    /\ Send("completed", o, FALSE)
    /\ UNCHANGED <<orderVars, createVars, handler, invoiceVars>>

LatePayment(o) ==
    /\ stripe[o] = "processing"
    /\ \/ stripe' = [stripe EXCEPT ![o] = "paid"] /\ Send("async_succeeded", o, TRUE)
       \/ stripe' = [stripe EXCEPT ![o] = "failed"] /\ Send("async_failed", o, FALSE)
    /\ UNCHANGED <<orderVars, createVars, handler, invoiceVars>>

\* A session outlives its order by at least a minute.
SessionExpires(o) ==
    /\ stripe[o] = "open" /\ due[o]
    /\ stripe' = [stripe EXCEPT ![o] = "expired"]
    /\ UNCHANGED <<orderVars, createVars, handler, invoiceVars, events>>

\* OrderTTL passes.
Expire(o) ==
    /\ status[o] # "none" /\ ~due[o]
    /\ due' = [due EXCEPT ![o] = TRUE]
    /\ UNCHANGED <<status, session, credited, createVars, handler, invoiceVars, stripeVars>>
-----------------------------------------------------------------------------
\* A transaction that credits (closes) order o has locked its row and read
\* whether the order is not yet paid (is still pending).
LockRow(h, o, pc) ==
    /\ RowFree(o)
    /\ handler' = [handler EXCEPT ![h] =
           [pc |-> pc, order |-> o,
            ok |-> IF pc = "crediting" THEN status[o] # "paid" ELSE status[o] = "pending"]]

\* HandleStripeNotify credits on these events: "completed" whatever its
\* payment_status.
Credits(e) ==
    /\ e.type \in {"completed", "async_succeeded"}
    /\ e.paid \/ e.type = "completed"

Notify(h, e) ==
    /\ handler[h] = Idle
    /\ e \in events /\ Credits(e)
    /\ LockRow(h, e.order, "crediting")
    /\ UNCHANGED <<orderVars, createVars, invoiceVars, stripeVars>>

\* QueryOrder reads a pending order and asks Stripe.
Query(h, o) ==
    /\ handler[h] = Idle
    /\ status[o] = "pending" /\ session[o]
    /\ handler' = [handler EXCEPT ![h] =
                     [pc |-> "asked", order |-> o, ok |-> stripe[o] = "paid"]]
    /\ UNCHANGED <<orderVars, createVars, invoiceVars, stripeVars>>

\* Any answer of Stripe taken for a payment.
QueryAnsweredAny(h) ==
    /\ handler[h].pc = "asked"
    /\ LockRow(h, handler[h].order, "crediting")
    /\ UNCHANGED <<orderVars, createVars, invoiceVars, stripeVars>>

\* refreshStripePending acts on the answer, which may be old by now.
QueryAnswered(h) ==
    /\ handler[h].pc = "asked"
    /\ \/ handler[h].ok /\ LockRow(h, handler[h].order, "crediting")
       \/ /\ ~handler[h].ok /\ due[handler[h].order]
          /\ LockRow(h, handler[h].order, "closing")
    /\ UNCHANGED <<orderVars, createVars, invoiceVars, stripeVars>>

\* creditPaid that leaves out orders that were closed in the meantime.
CreditPendingOnly(h) ==
    /\ handler[h].pc = "crediting"
    /\ LET o == handler[h].order
           pays == handler[h].ok /\ status[o] = "pending" IN
         /\ status' = [status EXCEPT ![o] = IF pays THEN "paid" ELSE @]
         /\ credited' = [credited EXCEPT ![o] = IF pays THEN @ + 1 ELSE @]
    /\ handler' = [handler EXCEPT ![h] = Idle]
    /\ UNCHANGED <<session, due, createVars, invoiceVars, stripeVars>>

\* creditPaid commits: the order is paid, its coins and bonus are granted.
CreditPaid(h) ==
    /\ handler[h].pc = "crediting"
    /\ LET o == handler[h].order IN
         IF handler[h].ok
         THEN /\ status' = [status EXCEPT ![o] = "paid"]
              /\ credited' = [credited EXCEPT ![o] = @ + 1]
         ELSE UNCHANGED <<status, credited>>
    /\ handler' = [handler EXCEPT ![h] = Idle]
    /\ UNCHANGED <<session, due, createVars, invoiceVars, stripeVars>>

CloseOrder(h) ==
    /\ handler[h].pc = "closing"
    /\ status' = [status EXCEPT ![handler[h].order] =
                    IF handler[h].ok THEN "closed" ELSE @]
    /\ handler' = [handler EXCEPT ![h] = Idle]
    /\ UNCHANGED <<session, due, credited, createVars, invoiceVars, stripeVars>>

\* The request ends with nothing written: Stripe did not answer, there was
\* nothing to do, the transaction was rolled back, the process died.
RequestEnds(h) ==
    /\ handler[h] # Idle
    /\ handler' = [handler EXCEPT ![h] = Idle]
    /\ UNCHANGED <<orderVars, createVars, invoiceVars, stripeVars>>

\* The sweeper closes what is due; it waits for locked rows.
SweepOrders ==
    LET late == {o \in Orders : status[o] = "pending" /\ due[o]} IN
    /\ late # {} /\ \A o \in late : RowFree(o)
    /\ status' = [o \in Orders |-> IF o \in late THEN "closed" ELSE status[o]]
    /\ UNCHANGED <<session, due, credited, createVars, handler, invoiceVars, stripeVars>>
-----------------------------------------------------------------------------
\* invoice.Apply: the paid order is looked up before the transaction ...
ApplyFind(o) ==
    /\ status[o] = "paid" /\ o \notin applying
    /\ applying' = applying \union {o}
    /\ UNCHANGED <<orderVars, createVars, handler, invoices, stripeVars>>

\* ... which issues the invoice unless there is one.  Applications of an
\* account follow each other: they upsert the same profile row first.
ApplyIssue(o) ==
    /\ o \in applying
    /\ applying' = applying \ {o}
    /\ invoices' = [invoices EXCEPT ![o] = IF @ = 0 THEN 1 ELSE @]
    /\ UNCHANGED <<orderVars, createVars, handler, stripeVars>>

Next ==
    \/ \E o \in Orders :
         \/ CreateBegin(o) \/ CreateCommit(o) \/ CreateDies(o)
         \/ CheckoutOk(o) \/ CreateFails(o) \/ SaveSession(o)
         \/ Pay(o) \/ PayLater(o) \/ LatePayment(o) \/ SessionExpires(o) \/ Expire(o)
         \/ ApplyFind(o) \/ ApplyIssue(o)
    \/ \E h \in Handlers :
         \/ \E e \in events : Notify(h, e)
         \/ \E o \in Orders : Query(h, o)
         \/ QueryAnswered(h) \/ CreditPaid(h) \/ CloseOrder(h) \/ RequestEnds(h)
    \/ SweepOrders

(***************************************************************************)
(* Stripe repeats an event until a webhook answers ok: some handler takes  *)
(* it again and again and one of its transactions commits.  A request, and *)
(* a process that has died, let go of their locks.                         *)
(***************************************************************************)
Fairness ==
    /\ \A o \in Orders :
         /\ SF_rechargeVars(\E h \in Handlers, e \in events : e.order = o /\ Notify(h, e))
         /\ SF_rechargeVars(\E h \in Handlers : handler[h].order = o /\ CreditPaid(h))
         /\ WF_rechargeVars(CreateDies(o))
    /\ \A h \in Handlers : WF_rechargeVars(RequestEnds(h))

Safety == Init /\ [][Next]_rechargeVars
Spec == Safety /\ Fairness
-----------------------------------------------------------------------------
Completed == {o \in Orders : stripe[o] \in {"processing", "paid", "failed"}}

\* "Only one unpaid recharge order exists at a time" (.spec/backend/wallet/
\* spec.md): also when an account makes two calls at once.
OnePending == \A a \in Accounts : \A p, q \in Pending(a) : p = q

\* The coins of an order are granted exactly when it is marked paid, once,
\* however many webhooks and queries arrive at the same time.
CreditedOnce == \A o \in Orders : credited[o] = IF status[o] = "paid" THEN 1 ELSE 0

\* A paid order stays paid: neither the sweeper, nor a query that saw the
\* session unpaid, nor a newer or failing CreateRecharge closes it.
PaidStaysPaid == [][\A o \in Orders : status[o] = "paid" => status'[o] = "paid"]_rechargeVars

\* "Credit happens only after a verified Stripe webhook or a server-side
\* Checkout Session query reports success": the money has arrived.
CreditOnlyPaid == \A o \in Orders : credited[o] > 0 => stripe[o] = "paid"

\* "Each paid recharge has at most one issued invoice", and an invoice is for
\* coins that were granted (.spec/backend/invoice/spec.md).
InvoiceForCredit == \A o \in Orders : invoices[o] <= credited[o]

\* What Stripe has reported as completed is credited, once, and nothing else
\* is: a payment, or a checkout with a delayed payment method.
Payments == INSTANCE ExactlyOnce WITH
    Events <- Orders, committed <- Completed, count <- credited

PaymentExactlyOnce == Payments!Spec

\* Whoever has paid gets the coins, also when the order was closed because
\* the payment came late or a newer order replaced it.
PaymentCredited == \A o \in Orders : (stripe[o] = "paid") ~> (credited[o] > 0)
=============================================================================
