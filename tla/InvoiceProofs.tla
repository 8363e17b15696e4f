---------------------------- MODULE InvoiceProofs ----------------------------
(***************************************************************************)
(* Collecting any number of open invoices, with any number of sessions     *)
(* that are lost; and the calculations that come before an invoice, for    *)
(* inputs of any size.                                                     *)
(*                                                                         *)
(* Collecting: the invariant is about what is under way: what the worker's *)
(* session has written and not committed, the webhook calls that have found *)
(* a row, and the dunning runs between their last attempt and their commit. *)
(* Each part relates one of them to the payments the providers have and to *)
(* the history of refusals.                                                *)
(*                                                                         *)
(* Calculating: one theorem per property of a calculation, for any plan,   *)
(* events, policies, quote or payment that meets the assumptions of        *)
(* Calculations.  A loop over a list is a fold; that its values exist is   *)
(* FoldsExist, and what holds after each round is proved by a least        *)
(* counterexample.                                                         *)
(***************************************************************************)
EXTENDS PaymentCollection, Calculations, FiniteSetTheorems, WellFoundedInduction, TLAPS

\* A provider has one payment per key, and the key is the invoice's id.
KeysAreInvoices ==
    /\ \A p \in payments : p.key = p.invoice
    /\ \A p, q \in payments : p.provider = q.provider /\ p.key = q.key => p = q

\* A row holds no id, or the one of the payment its own charge made.
RowsHoldTheirIds ==
    \A i \in Invoices :
        /\ mollieId[i] # NoPayment =>
              /\ mollieId[i] = ChargeId(MethodOf[i], i)
              /\ mollieId[i] \in PaymentIds
        /\ stripeId[i] # NoPayment =>
              /\ stripeId[i] = ChargeId("stripe", i)
              /\ stripeId[i] \in PaymentIds

\* What the session has written: a charge that was answered, or one that was refused.
WrittenAsAnswered ==
    \A i \in Invoices :
        /\ written[i].status = "unwritten" => written[i] = Unwritten
        /\ written[i].status = "paid" =>
              /\ written[i].id = ChargeId(MethodOf[i], i)
              /\ written[i].id \in PaymentIds
        /\ written[i].status = "uncollectible" => i \in refused

\* The session is at an invoice whose customer has a payment method.
SessionHasMethod == worker.at = "charge" => worker.invoice \in Invoices /\ MethodOf[worker.invoice] # "none"

\* A webhook call speaks of a payment; once it has found a row, that row holds its id.
HooksAreTold ==
    \A h \in hooks :
        /\ h.id \in PaymentIds
        /\ h.says = "failed" => h.id.key \in refused
        /\ h.invoice # NoInvoice => h.invoice \in Holders(h.id)

\* A dunning run gives an invoice up after its last attempt.
DunningInOrder ==
    \A i \in Invoices :
        /\ dunning[i].at = "attempt_payment" => dunning[i].attempt < MaxAttempts
        /\ dunning[i].at \in {"mark_uncollectible", "commit"} => dunning[i].attempt = MaxAttempts

\* An invoice written off without a refusal was written off by dunning, which is over.
WrittenOffByDunning ==
    \A i \in Invoices : status[i] = "uncollectible" /\ i \notin refused =>
        dunning[i].at = "idle" /\ dunning[i].attempt = MaxAttempts

\* A paid row holds the id by which the webhook of its payment finds it.
PaidRowsHold ==
    \A i \in Invoices : status[i] = "paid" =>
        mollieId[i] = ChargeId("mollie", i) \/ stripeId[i] = ChargeId("stripe", i)

IInv ==
    /\ TypeOK
    /\ KeysAreInvoices
    /\ RowsHoldTheirIds
    /\ WrittenAsAnswered
    /\ SessionHasMethod
    /\ HooksAreTold
    /\ DunningInOrder
    /\ WrittenOffByDunning
    /\ PaidRowsHold

-----------------------------------------------------------------------------
(* The providers' side: charges add payments, and no id is ever lost. *)

LEMMA ChargeIds ==
    ASSUME NEW provider \in Providers, NEW i \in Invoices
    PROVE  /\ ChargeId(provider, i) \in Id
           /\ ChargeId(provider, i) # NoPayment
           /\ ChargeId(provider, i).key = i /\ ChargeId(provider, i).provider = provider
BY NoPaymentAssumption DEF ChargeId, IdempotencyKey, Id

LEMMA ChargeKeepsPayments ==
    ASSUME TypeOK, KeysAreInvoices, NEW provider \in Providers, NEW i \in Invoices,
           payments' \in {payments, Charged(provider, i)}
    PROVE  /\ payments' \subseteq [provider : Providers, key : Invoices, invoice : Invoices,
                                   status : {"open", "paid", "failed"}]
           /\ KeysAreInvoices'
           /\ PaymentIds \subseteq PaymentIds'
           /\ payments' = Charged(provider, i) => ChargeId(provider, i) \in PaymentIds'
<1> DEFINE new == [provider |-> provider, key |-> i, invoice |-> i, status |-> "open"]
<1>1. IdOf(new) = ChargeId(provider, i)
  BY DEF IdOf, ChargeId, IdempotencyKey
<1>2. CASE ChargeId(provider, i) \in PaymentIds
  BY <1>2 DEF TypeOK, KeysAreInvoices, PaymentIds, Charged
<1>3. CASE ChargeId(provider, i) \notin PaymentIds
  <2>1. Charged(provider, i) = payments \union {new}
    BY <1>3 DEF Charged, IdempotencyKey
  <2>2. \A p \in payments : IdOf(p) # ChargeId(provider, i)
    BY <1>3 DEF PaymentIds
  <2>3. \A p \in payments : ~ (p.provider = provider /\ p.key = i)
    BY <2>2 DEF IdOf, ChargeId, IdempotencyKey
  <2>4. Charged(provider, i) # payments
    BY <2>1, <2>2, <1>1
  <2>5. CASE payments' = payments
    BY <2>4, <2>5 DEF TypeOK, KeysAreInvoices, PaymentIds
  <2>6. CASE payments' = payments \union {new}
    BY <1>1, <2>3, <2>6 DEF TypeOK, KeysAreInvoices, PaymentIds
  <2> QED
    BY <2>1, <2>5, <2>6
<1> QED
  BY <1>2, <1>3

\* A step that only adds payments keeps what is said of ids.
LEMMA MorePayments ==
    ASSUME IInv, PaymentIds \subseteq PaymentIds', UNCHANGED columns
    PROVE  /\ RowsHoldTheirIds' /\ PaidRowsHold'
           /\ \A h \in hooks : /\ h.id \in PaymentIds'
                               /\ h.invoice # NoInvoice => h.invoice \in Holders(h.id)'
           /\ \A i \in Invoices : written[i].id \in PaymentIds => written[i].id \in PaymentIds'
<1>1. UNCHANGED <<status, mollieId, stripeId>>
  BY DEF columns
<1> QED
  BY <1>1 DEF IInv, RowsHoldTheirIds, PaidRowsHold, HooksAreTold, Holders, ChargeId, IdempotencyKey

LEMMA InitEstablishes == Init => IInv
<1> SUFFICES ASSUME Init PROVE IInv
  OBVIOUS
<1>1. TypeOK
  BY BoundsAssumption DEF Init, TypeOK, InvoiceStatus, Unwritten
<1> QED
  BY <1>1 DEF Init, IInv, KeysAreInvoices, RowsHoldTheirIds, WrittenAsAnswered, SessionHasMethod,
     HooksAreTold, DunningInOrder, WrittenOffByDunning, PaidRowsHold, Unwritten

-----------------------------------------------------------------------------
(* The worker *)

LEMMA StartSessionKeeps == ASSUME IInv, StartSession PROVE IInv'
<1>1. UNCHANGED <<status, mollieId, stripeId, payments, written, faults, hooks, dunning, refused>>
  BY DEF StartSession, columns
<1>2. PICK batch \in SUBSET Invoices : worker' = [worker EXCEPT !.at = "next", !.todo = batch]
  BY DEF StartSession
<1>3. TypeOK'
  BY <1>1, <1>2 DEF IInv, TypeOK
<1>4. SessionHasMethod'
  BY <1>2 DEF IInv, TypeOK, SessionHasMethod
<1> QED
  BY <1>1, <1>3, <1>4 DEF IInv, KeysAreInvoices, RowsHoldTheirIds, WrittenAsAnswered, HooksAreTold,
     DunningInOrder, WrittenOffByDunning, PaidRowsHold, PaymentIds, Holders, ChargeId, IdempotencyKey

LEMMA ProcessInvoiceKeeps == ASSUME IInv, NEW i \in Invoices, ProcessInvoice(i) PROVE IInv'
<1>1. UNCHANGED <<status, mollieId, stripeId, payments, written, faults, hooks, dunning, refused>>
  BY DEF ProcessInvoice, columns
<1>2. TypeOK'
  BY <1>1 DEF ProcessInvoice, Next1, IInv, TypeOK
<1>3. SessionHasMethod'
  BY DEF ProcessInvoice, Next1, IInv, TypeOK, SessionHasMethod
<1> QED
  BY <1>1, <1>2, <1>3 DEF IInv, KeysAreInvoices, RowsHoldTheirIds, WrittenAsAnswered, HooksAreTold,
     DunningInOrder, WrittenOffByDunning, PaidRowsHold, PaymentIds, Holders, ChargeId, IdempotencyKey

\* The charge is made and its result written, in the session only.
LEMMA ChargeAnsweredKeeps == ASSUME IInv, NEW i \in Invoices, ChargeAnswered(i) PROVE IInv'
<1>1. UNCHANGED <<status, mollieId, stripeId, faults, hooks, dunning, refused>>
  BY DEF ChargeAnswered, columns
<1>2. MethodOf[i] \in Providers
  BY MethodOfAssumption DEF ChargeAnswered, IInv, SessionHasMethod
<1>3. /\ payments' \in SUBSET [provider : Providers, key : Invoices, invoice : Invoices,
                               status : {"open", "paid", "failed"}]
      /\ KeysAreInvoices'
      /\ PaymentIds \subseteq PaymentIds'
      /\ ChargeId(MethodOf[i], i) \in PaymentIds'
  BY <1>2, ChargeKeepsPayments DEF ChargeAnswered, IInv
<1>4. /\ RowsHoldTheirIds' /\ PaidRowsHold'
      /\ \A h \in hooks : /\ h.id \in PaymentIds'
                          /\ h.invoice # NoInvoice => h.invoice \in Holders(h.id)'
      /\ \A j \in Invoices : written[j].id \in PaymentIds => written[j].id \in PaymentIds'
  BY <1>1, <1>3, MorePayments DEF columns
<1>5. written' = [written EXCEPT ![i] = [status |-> "paid", id |-> ChargeId(MethodOf[i], i)]]
  BY DEF ChargeAnswered
<1>6. ChargeId(MethodOf[i], i) \in Id
  BY <1>2, ChargeIds
<1>7. TypeOK'
  <2>1. written' \in [Invoices -> [status : {"unwritten", "paid", "uncollectible"},
                                   id : Id \union {NoPayment}]]
    BY <1>5, <1>6 DEF IInv, TypeOK
  <2>2. worker' \in [at : {"idle", "next", "charge"}, todo : SUBSET Invoices,
                     invoice : Invoices \union {NoInvoice}]
    BY DEF ChargeAnswered, Next1, IInv, TypeOK
  <2> QED
    BY <1>1, <1>3, <2>1, <2>2 DEF IInv, TypeOK
<1>8. WrittenAsAnswered'
  BY <1>1, <1>3, <1>4, <1>5
     DEF IInv, TypeOK, WrittenAsAnswered, Unwritten, ChargeId, IdempotencyKey
<1>9. SessionHasMethod'
  BY DEF ChargeAnswered, Next1, IInv, TypeOK, SessionHasMethod
<1>10. HooksAreTold'
  BY <1>1, <1>4 DEF IInv, HooksAreTold
<1>11. DunningInOrder' /\ WrittenOffByDunning'
  BY <1>1 DEF IInv, DunningInOrder, WrittenOffByDunning
<1> QED
  BY <1>3, <1>4, <1>7, <1>8, <1>9, <1>10, <1>11 DEF IInv

LEMMA ChargeRefusedKeeps == ASSUME IInv, NEW i \in Invoices, ChargeRefused(i) PROVE IInv'
<1>1. UNCHANGED <<status, mollieId, stripeId, payments, faults, hooks, dunning>>
  BY DEF ChargeRefused, columns
<1>2. /\ written' = [written EXCEPT ![i] = [status |-> "uncollectible", id |-> NoPayment]]
      /\ refused' = refused \union {i}
  BY DEF ChargeRefused
<1>3. TypeOK'
  <2>1. written' \in [Invoices -> [status : {"unwritten", "paid", "uncollectible"},
                                   id : Id \union {NoPayment}]]
    BY <1>2 DEF IInv, TypeOK
  <2>2. worker' \in [at : {"idle", "next", "charge"}, todo : SUBSET Invoices,
                     invoice : Invoices \union {NoInvoice}]
    BY DEF ChargeRefused, Next1, IInv, TypeOK
  <2> QED
    BY <1>1, <1>2, <2>1, <2>2 DEF IInv, TypeOK
<1>4. WrittenAsAnswered'
  BY <1>1, <1>2 DEF IInv, TypeOK, WrittenAsAnswered, PaymentIds, ChargeId, IdempotencyKey, Unwritten
<1>5. SessionHasMethod'
  BY DEF ChargeRefused, Next1, IInv, TypeOK, SessionHasMethod
<1>6. HooksAreTold' /\ WrittenOffByDunning'
  BY <1>1, <1>2 DEF IInv, HooksAreTold, WrittenOffByDunning, PaymentIds, Holders
<1> QED
  BY <1>1, <1>3, <1>4, <1>5, <1>6 DEF IInv, KeysAreInvoices, RowsHoldTheirIds, DunningInOrder,
     PaidRowsHold, PaymentIds, ChargeId, IdempotencyKey

\* What the session ends with, when it may have charged and writes nothing.
LEMMA ChargeRaisedKeeps == ASSUME IInv, NEW i \in Invoices, ChargeRaised(i) PROVE IInv'
<1>1. UNCHANGED <<status, mollieId, stripeId, written, faults, hooks, dunning, refused>>
  BY DEF ChargeRaised, columns
<1>2. MethodOf[i] \in Providers
  BY MethodOfAssumption DEF ChargeRaised, IInv, SessionHasMethod
<1>3. /\ payments' \in SUBSET [provider : Providers, key : Invoices, invoice : Invoices,
                               status : {"open", "paid", "failed"}]
      /\ KeysAreInvoices'
      /\ PaymentIds \subseteq PaymentIds'
  BY <1>2, ChargeKeepsPayments DEF ChargeRaised, MaybeCharged, IInv
<1>4. /\ RowsHoldTheirIds' /\ PaidRowsHold'
      /\ \A h \in hooks : /\ h.id \in PaymentIds'
                          /\ h.invoice # NoInvoice => h.invoice \in Holders(h.id)'
      /\ \A j \in Invoices : written[j].id \in PaymentIds => written[j].id \in PaymentIds'
  BY <1>1, <1>3, MorePayments DEF columns
<1>5. TypeOK'
  BY <1>1, <1>3 DEF ChargeRaised, Next1, IInv, TypeOK
<1>6. WrittenAsAnswered'
  BY <1>1, <1>4 DEF IInv, WrittenAsAnswered, ChargeId, IdempotencyKey
<1>7. SessionHasMethod'
  BY DEF ChargeRaised, Next1, IInv, TypeOK, SessionHasMethod
<1> QED
  BY <1>1, <1>3, <1>4, <1>5, <1>6, <1>7
     DEF IInv, HooksAreTold, DunningInOrder, WrittenOffByDunning

\* The UPDATEs of the session reach the rows.
LEMMA CommitSessionKeeps == ASSUME IInv, CommitSession PROVE IInv'
<1>1. UNCHANGED <<payments, faults, hooks, dunning, refused>>
  BY DEF CommitSession
<1>2. PaymentIds' = PaymentIds
  BY <1>1 DEF PaymentIds
<1>3. /\ worker' = [at |-> "idle", todo |-> {}, invoice |-> NoInvoice]
      /\ written' = [i \in Invoices |-> Unwritten]
  BY DEF CommitSession, EndSession
<1>4. ASSUME NEW i \in Invoices
      PROVE  /\ status'[i] \in InvoiceStatus
             /\ mollieId'[i] \in Id \union {NoPayment} /\ stripeId'[i] \in Id \union {NoPayment}
             /\ status'[i] = IF written[i].status = "unwritten" THEN status[i] ELSE written[i].status
             /\ mollieId'[i] = IF written[i].status = "paid" THEN ChargeId(MethodOf[i], i) ELSE mollieId[i]
             /\ stripeId'[i] = IF written[i].status = "paid" /\ MethodOf[i] = "stripe"
                               THEN ChargeId(MethodOf[i], i) ELSE stripeId[i]
             /\ written[i].status = "paid" =>
                   MethodOf[i] \in Providers /\ ChargeId(MethodOf[i], i) \in PaymentIds
  <2>1. /\ written[i].status \in {"unwritten", "paid", "uncollectible"}
        /\ written[i] = Unwritten <=> written[i].status = "unwritten"
        /\ written[i].status = "paid" => /\ written[i].id = ChargeId(MethodOf[i], i)
                                         /\ written[i].id \in PaymentIds
    BY DEF IInv, TypeOK, WrittenAsAnswered, Unwritten
  <2>2. /\ status[i] \in InvoiceStatus /\ written[i].id \in Id \union {NoPayment}
        /\ mollieId[i] \in Id \union {NoPayment} /\ stripeId[i] \in Id \union {NoPayment}
    BY DEF IInv, TypeOK
  <2>3. \A p \in payments : IdOf(p).provider \in Providers
    BY DEF IInv, TypeOK, IdOf
  <2>4. written[i].status = "paid" => MethodOf[i] \in Providers
    BY <2>1, <2>3 DEF PaymentIds, ChargeId
  <2> QED
    BY <2>1, <2>2, <2>4 DEF CommitSession, InvoiceStatus
<1>5. TypeOK'
  <2>1. status' \in [Invoices -> InvoiceStatus]
    BY <1>4 DEF CommitSession
  <2>2. mollieId' \in [Invoices -> Id \union {NoPayment}] /\ stripeId' \in [Invoices -> Id \union {NoPayment}]
    BY <1>4 DEF CommitSession
  <2>3. written' \in [Invoices -> [status : {"unwritten", "paid", "uncollectible"},
                                   id : Id \union {NoPayment}]]
    BY <1>3 DEF Unwritten
  <2>4. worker' \in [at : {"idle", "next", "charge"}, todo : SUBSET Invoices,
                     invoice : Invoices \union {NoInvoice}]
    BY <1>3
  <2> QED
    BY <1>1, <2>1, <2>2, <2>3, <2>4 DEF IInv, TypeOK
<1>6. RowsHoldTheirIds'
  <2> SUFFICES ASSUME NEW i \in Invoices
               PROVE  /\ mollieId'[i] # NoPayment =>
                            mollieId'[i] = ChargeId(MethodOf[i], i) /\ mollieId'[i] \in PaymentIds
                      /\ stripeId'[i] # NoPayment =>
                            stripeId'[i] = ChargeId("stripe", i) /\ stripeId'[i] \in PaymentIds
    BY <1>2 DEF RowsHoldTheirIds, ChargeId, IdempotencyKey
  <2>1. /\ mollieId[i] # NoPayment =>
              mollieId[i] = ChargeId(MethodOf[i], i) /\ mollieId[i] \in PaymentIds
        /\ stripeId[i] # NoPayment =>
              stripeId[i] = ChargeId("stripe", i) /\ stripeId[i] \in PaymentIds
    BY DEF IInv, RowsHoldTheirIds
  <2> QED
    BY <1>4, <2>1
<1>7. PaidRowsHold'
  <2> SUFFICES ASSUME NEW i \in Invoices, status'[i] = "paid"
               PROVE  mollieId'[i] = ChargeId("mollie", i) \/ stripeId'[i] = ChargeId("stripe", i)
    BY DEF PaidRowsHold, ChargeId, IdempotencyKey
  <2>1. CASE written[i].status = "paid"
    BY <1>4, <2>1 DEF Providers
  <2>2. CASE written[i].status # "paid"
    <3>1. status[i] = "paid"
      BY <1>4, <2>2
    <3>2. mollieId'[i] = mollieId[i] /\ stripeId'[i] = stripeId[i]
      BY <1>4, <2>2
    <3> QED
      BY <3>1, <3>2 DEF IInv, PaidRowsHold
  <2> QED
    BY <2>1, <2>2
<1>8. HooksAreTold'
  <2> SUFFICES ASSUME NEW h \in hooks
               PROVE  /\ h.id \in PaymentIds
                      /\ h.says = "failed" => h.id.key \in refused
                      /\ h.invoice # NoInvoice => h.invoice \in Holders(h.id)'
    BY <1>1, <1>2 DEF HooksAreTold
  <2>1. /\ h.id \in PaymentIds
        /\ h.says = "failed" => h.id.key \in refused
        /\ h.invoice # NoInvoice => h.invoice \in Holders(h.id)
    BY DEF IInv, HooksAreTold
  <2>2. h.id # NoPayment
    <3>1. h.id \in Id
      BY DEF IInv, TypeOK
    <3> QED
      BY <3>1, NoPaymentAssumption DEF Id
  <2>3. ASSUME NEW i \in Invoices, i \in Holders(h.id)
        PROVE  i \in Holders(h.id)'
    <3>1. CASE h.id.provider = "mollie"
      <4>1. mollieId[i] = h.id
        BY <2>3, <3>1 DEF Holders
      <4>2. mollieId'[i] = h.id
        BY <1>4, <2>2, <4>1 DEF IInv, RowsHoldTheirIds
      <4> QED
        BY <3>1, <4>2 DEF Holders
    <3>2. CASE h.id.provider # "mollie"
      <4>1. stripeId[i] = h.id
        BY <2>3, <3>2 DEF Holders
      <4>2. stripeId'[i] = h.id
        BY <1>4, <2>2, <4>1 DEF IInv, RowsHoldTheirIds
      <4> QED
        BY <3>2, <4>2 DEF Holders
    <3> QED
      BY <3>1, <3>2
  <2> QED
    BY <2>1, <2>3 DEF Holders
<1>9. WrittenAsAnswered' /\ SessionHasMethod'
  BY <1>3 DEF WrittenAsAnswered, SessionHasMethod, Unwritten
<1>10. WrittenOffByDunning'
  BY <1>1, <1>4 DEF IInv, WrittenAsAnswered, WrittenOffByDunning
<1> QED
  BY <1>1, <1>5, <1>6, <1>7, <1>8, <1>9, <1>10 DEF IInv, KeysAreInvoices, DunningInOrder

LEMMA LoseSessionKeeps == ASSUME IInv, LoseSession PROVE IInv'
<1>1. UNCHANGED <<status, mollieId, stripeId, hooks, dunning, refused>>
  BY DEF LoseSession, columns
<1>2. /\ payments' \in SUBSET [provider : Providers, key : Invoices, invoice : Invoices,
                               status : {"open", "paid", "failed"}]
      /\ KeysAreInvoices'
      /\ PaymentIds \subseteq PaymentIds'
  <2>1. CASE UNCHANGED payments
    BY <2>1 DEF IInv, TypeOK, KeysAreInvoices, PaymentIds
  <2>2. CASE /\ worker.at = "charge"
             /\ payments' = Charged(MethodOf[worker.invoice], worker.invoice)
    <3>1. worker.invoice \in Invoices /\ MethodOf[worker.invoice] \in Providers
      BY <2>2, MethodOfAssumption DEF IInv, SessionHasMethod
    <3> QED
      BY <2>2, <3>1, ChargeKeepsPayments DEF IInv
  <2> QED
    BY <2>1, <2>2 DEF LoseSession
<1>3. /\ RowsHoldTheirIds' /\ PaidRowsHold'
      /\ \A h \in hooks : /\ h.id \in PaymentIds'
                          /\ h.invoice # NoInvoice => h.invoice \in Holders(h.id)'
  BY <1>1, <1>2, MorePayments DEF columns
<1>4. /\ worker' = [at |-> "idle", todo |-> {}, invoice |-> NoInvoice]
      /\ written' = [i \in Invoices |-> Unwritten]
  BY DEF LoseSession, EndSession
<1>5. TypeOK'
  <2>1. written' \in [Invoices -> [status : {"unwritten", "paid", "uncollectible"},
                                   id : Id \union {NoPayment}]]
    BY <1>4 DEF Unwritten
  <2>2. worker' \in [at : {"idle", "next", "charge"}, todo : SUBSET Invoices,
                     invoice : Invoices \union {NoInvoice}]
    BY <1>4
  <2>3. faults' \in 0..MaxFaults
    BY BoundsAssumption DEF LoseSession, IInv, TypeOK
  <2> QED
    BY <1>1, <1>2, <2>1, <2>2, <2>3 DEF IInv, TypeOK
<1>6. WrittenAsAnswered' /\ SessionHasMethod'
  BY <1>4 DEF WrittenAsAnswered, SessionHasMethod, Unwritten
<1> QED
  BY <1>1, <1>2, <1>3, <1>5, <1>6
     DEF IInv, HooksAreTold, DunningInOrder, WrittenOffByDunning

-----------------------------------------------------------------------------
(* Customers and webhooks *)

\* A payment changes its status only, and the call that tells of it is new.
LEMMA PspConcludesKeeps ==
    ASSUME IInv, NEW p \in payments, NEW outcome \in {"paid", "failed"}, PspConcludes(p, outcome)
    PROVE  IInv'
<1> DEFINE told == [id |-> IdOf(p), says |-> outcome, invoice |-> NoInvoice, seen |-> "open"]
           q == [p EXCEPT !.status = outcome]
<1>1. UNCHANGED <<status, mollieId, stripeId, worker, written, faults, dunning>>
  BY DEF PspConcludes, columns, session
<1>2. /\ payments' = (payments \ {p}) \union {q}
      /\ hooks' = hooks \union {told}
      /\ refused' = IF outcome = "failed" THEN refused \union {p.invoice} ELSE refused
  BY DEF PspConcludes
<1>3. /\ p \in [provider : Providers, key : Invoices, invoice : Invoices,
                status : {"open", "paid", "failed"}]
      /\ p.key = p.invoice
  BY DEF IInv, TypeOK, KeysAreInvoices
<1>4. /\ q \in [provider : Providers, key : Invoices, invoice : Invoices,
                status : {"open", "paid", "failed"}]
      /\ q.provider = p.provider /\ q.key = p.key /\ q.invoice = p.invoice
  BY <1>3
<1>5. PaymentIds' = PaymentIds
  <2>1. IdOf(q) = IdOf(p)
    BY <1>4 DEF IdOf
  <2> QED
    BY <1>2, <2>1 DEF PaymentIds
<1>6. told.id \in PaymentIds /\ told.id \in Id /\ told.id.key = p.invoice
  BY <1>3 DEF PaymentIds, IdOf, Id
<1>7. TypeOK'
  <2>1. payments' \subseteq [provider : Providers, key : Invoices, invoice : Invoices,
                             status : {"open", "paid", "failed"}]
    BY <1>2, <1>4 DEF IInv, TypeOK
  <2>2. told \in [id : Id, says : {"paid", "failed"}, invoice : Invoices \union {NoInvoice},
                  seen : InvoiceStatus]
    BY <1>6 DEF InvoiceStatus
  <2>3. refused' \subseteq Invoices
    BY <1>2, <1>3 DEF IInv, TypeOK
  <2> HIDE DEF told
  <2>4. hooks' \subseteq [id : Id, says : {"paid", "failed"}, invoice : Invoices \union {NoInvoice},
                          seen : InvoiceStatus]
    BY <1>2, <2>2 DEF IInv, TypeOK
  <2> QED
    BY <1>1, <2>1, <2>3, <2>4 DEF IInv, TypeOK
<1>8. KeysAreInvoices'
  <2> HIDE DEF q
  <2> QED
    BY <1>2, <1>3, <1>4 DEF IInv, KeysAreInvoices
<1>9. HooksAreTold'
  <2>1. told.says = "failed" => told.id.key \in refused'
    BY <1>2, <1>6
  <2>2. told.invoice = NoInvoice
    OBVIOUS
  <2> HIDE DEF told
  <2>3. \A h \in hooks : /\ h.id \in PaymentIds
                         /\ h.says = "failed" => h.id.key \in refused'
                         /\ h.invoice # NoInvoice => h.invoice \in Holders(h.id)'
    BY <1>1, <1>2 DEF IInv, HooksAreTold, Holders
  <2> QED
    BY <1>2, <1>5, <1>6, <2>1, <2>2, <2>3 DEF HooksAreTold
<1>10. WrittenAsAnswered' /\ WrittenOffByDunning' /\ RowsHoldTheirIds'
  BY <1>1, <1>2, <1>5
     DEF IInv, WrittenAsAnswered, WrittenOffByDunning, RowsHoldTheirIds, ChargeId, IdempotencyKey
<1> QED
  BY <1>1, <1>7, <1>8, <1>9, <1>10
     DEF IInv, SessionHasMethod, DunningInOrder, PaidRowsHold, ChargeId, IdempotencyKey

LEMMA HookFindsKeeps == ASSUME IInv, NEW h \in hooks, HookFinds(h) PROVE IInv'
<1>1. UNCHANGED <<status, mollieId, stripeId, payments, worker, written, faults, dunning, refused>>
  BY DEF HookFinds, columns, session
<1>2. PICK i \in Holders(h.id) :
          hooks' = (hooks \ {h}) \union {[h EXCEPT !.invoice = i, !.seen = status[i]]}
  BY DEF HookFinds
<1>3. i \in Invoices /\ status[i] \in InvoiceStatus
  BY DEF Holders, IInv, TypeOK
<1> DEFINE found == [h EXCEPT !.invoice = i, !.seen = status[i]]
<1>4. /\ found \in [id : Id, says : {"paid", "failed"}, invoice : Invoices \union {NoInvoice},
                    seen : InvoiceStatus]
      /\ found.id = h.id /\ found.says = h.says /\ found.invoice = i
  BY <1>3 DEF IInv, TypeOK
<1>5. hooks' = (hooks \ {h}) \union {found}
  BY <1>2
<1> HIDE DEF found
<1>6. TypeOK'
  BY <1>1, <1>4, <1>5 DEF IInv, TypeOK
<1>7. HooksAreTold'
  BY <1>1, <1>4, <1>5 DEF IInv, HooksAreTold, PaymentIds, Holders
<1> QED
  BY <1>1, <1>6, <1>7 DEF IInv, KeysAreInvoices, RowsHoldTheirIds, WrittenAsAnswered,
     SessionHasMethod, DunningInOrder, WrittenOffByDunning, PaidRowsHold, PaymentIds, ChargeId,
     IdempotencyKey

LEMMA HookIgnoredKeeps == ASSUME IInv, NEW h \in hooks, HookIgnored(h) PROVE IInv'
<1>1. /\ UNCHANGED <<status, mollieId, stripeId, payments, worker, written, faults, dunning, refused>>
      /\ hooks' \subseteq hooks
  BY DEF HookIgnored, columns, session
<1>2. TypeOK'
  BY <1>1 DEF IInv, TypeOK
<1>3. HooksAreTold'
  BY <1>1 DEF IInv, HooksAreTold, PaymentIds, Holders
<1> QED
  BY <1>1, <1>2, <1>3 DEF IInv, KeysAreInvoices, RowsHoldTheirIds, WrittenAsAnswered,
     SessionHasMethod, DunningInOrder, WrittenOffByDunning, PaidRowsHold, PaymentIds, ChargeId,
     IdempotencyKey

\* What the webhook writes: "paid" to a row that holds the id, "uncollectible" to one
\* whose payment the provider refused.
LEMMA HookCommitsKeeps == ASSUME IInv, NEW h \in hooks, HookCommits(h) PROVE IInv'
<1>1. UNCHANGED <<mollieId, stripeId, payments, worker, written, faults, dunning, refused>>
  BY DEF HookCommits, session
<1> DEFINE i == h.invoice
<1>2. /\ i \in Invoices /\ i \in Holders(h.id)
      /\ h.id \in Id /\ h.says \in {"paid", "failed"}
      /\ h.says = "failed" => h.id.key \in refused
  BY DEF HookCommits, IInv, TypeOK, HooksAreTold
<1>3. /\ status' = [status EXCEPT ![i] = status'[i]]
      /\ status'[i] \in {status[i], NewStatus(h)}
      /\ hooks' \subseteq hooks
  BY <1>2 DEF HookCommits, IInv, TypeOK
<1>4. h.id # NoPayment
  BY <1>2, NoPaymentAssumption DEF Id
<1>5. /\ h.id.key = i
      /\ mollieId[i] = ChargeId("mollie", i) \/ stripeId[i] = ChargeId("stripe", i)
  <2>1. CASE h.id.provider = "mollie"
    <3>1. mollieId[i] = h.id
      BY <1>2, <2>1 DEF Holders
    <3>2. h.id = ChargeId(MethodOf[i], i)
      BY <1>2, <1>4, <3>1 DEF IInv, RowsHoldTheirIds
    <3> QED
      BY <2>1, <3>1, <3>2 DEF ChargeId, IdempotencyKey
  <2>2. CASE h.id.provider # "mollie"
    <3>1. stripeId[i] = h.id
      BY <1>2, <2>2 DEF Holders
    <3>2. h.id = ChargeId("stripe", i)
      BY <1>2, <1>4, <3>1 DEF IInv, RowsHoldTheirIds
    <3> QED
      BY <3>1, <3>2 DEF ChargeId, IdempotencyKey
  <2> QED
    BY <2>1, <2>2
<1>6. NewStatus(h) \in InvoiceStatus /\ (NewStatus(h) = "uncollectible" => i \in refused)
  BY <1>2, <1>5 DEF NewStatus, InvoiceStatus
<1> HIDE DEF i
<1>7. /\ \A j \in Invoices \ {i} : status'[j] = status[j]
      /\ status' \in [Invoices -> InvoiceStatus]
  BY <1>2, <1>3, <1>6 DEF IInv, TypeOK
<1>8. TypeOK'
  BY <1>1, <1>3, <1>7 DEF IInv, TypeOK
<1>9. PaidRowsHold'
  BY <1>1, <1>3, <1>5, <1>7 DEF IInv, PaidRowsHold, ChargeId, IdempotencyKey
<1>10. WrittenOffByDunning'
  BY <1>1, <1>3, <1>6, <1>7 DEF IInv, WrittenOffByDunning
<1>11. HooksAreTold'
  BY <1>1, <1>3 DEF IInv, HooksAreTold, PaymentIds, Holders
<1> QED
  BY <1>1, <1>8, <1>9, <1>10, <1>11 DEF IInv, KeysAreInvoices, RowsHoldTheirIds, WrittenAsAnswered,
     SessionHasMethod, DunningInOrder, PaymentIds, ChargeId, IdempotencyKey

-----------------------------------------------------------------------------
(* Dunning *)

\* Steps that move one dunning run and, at most, add a payment.
LEMMA DunningMoves ==
    ASSUME IInv, NEW i \in Invoices,
           UNCHANGED <<status, mollieId, stripeId, worker, written, faults, hooks, refused>>,
           payments' \in {payments, Charged("mollie", i)},
           NEW at \in {"idle", "attempt_payment", "mark_uncollectible", "commit"},
           NEW attempt \in 0..MaxAttempts, NEW seen \in InvoiceStatus,
           dunning' = [dunning EXCEPT ![i] = [at |-> at, attempt |-> attempt, seen |-> seen]],
           at = "attempt_payment" => attempt < MaxAttempts,
           at \in {"mark_uncollectible", "commit"} => attempt = MaxAttempts,
           status[i] = "uncollectible" /\ i \notin refused => at = "idle" /\ attempt = MaxAttempts
    PROVE  IInv'
<1>1. /\ payments' \in SUBSET [provider : Providers, key : Invoices, invoice : Invoices,
                               status : {"open", "paid", "failed"}]
      /\ KeysAreInvoices'
      /\ PaymentIds \subseteq PaymentIds'
  BY ChargeKeepsPayments DEF IInv, Providers
<1>2. /\ RowsHoldTheirIds' /\ PaidRowsHold'
      /\ \A h \in hooks : /\ h.id \in PaymentIds'
                          /\ h.invoice # NoInvoice => h.invoice \in Holders(h.id)'
      /\ \A j \in Invoices : written[j].id \in PaymentIds => written[j].id \in PaymentIds'
  BY <1>1, MorePayments DEF columns
<1>3. dunning' \in [Invoices -> [at : {"idle", "attempt_payment", "mark_uncollectible", "commit"},
                                 attempt : 0..MaxAttempts, seen : InvoiceStatus]]
  BY DEF IInv, TypeOK
<1>4. TypeOK'
  BY <1>1, <1>3 DEF IInv, TypeOK
<1>5. DunningInOrder' /\ WrittenOffByDunning'
  BY DEF IInv, TypeOK, DunningInOrder, WrittenOffByDunning
<1> QED
  BY <1>1, <1>2, <1>4, <1>5
     DEF IInv, HooksAreTold, WrittenAsAnswered, SessionHasMethod, ChargeId, IdempotencyKey

LEMMA DunningStepKeeps == ASSUME IInv, NEW i \in Invoices, DunningStep(i) PROVE IInv'
<1>1. /\ dunning[i] \in [at : {"idle", "attempt_payment", "mark_uncollectible", "commit"},
                         attempt : 0..MaxAttempts, seen : InvoiceStatus]
      /\ status[i] \in InvoiceStatus
      /\ dunning[i].at = "attempt_payment" => dunning[i].attempt < MaxAttempts
      /\ dunning[i].at \in {"mark_uncollectible", "commit"} => dunning[i].attempt = MaxAttempts
      /\ status[i] = "uncollectible" /\ i \notin refused =>
            dunning[i].at = "idle" /\ dunning[i].attempt = MaxAttempts
  BY DEF IInv, TypeOK, DunningInOrder, WrittenOffByDunning
<1>2. MaxAttempts \in Nat \ {0} /\ "open" \in InvoiceStatus
  BY BoundsAssumption DEF InvoiceStatus
<1>3. ASSUME DunningLoads(i) PROVE IInv'
  <2>1. UNCHANGED <<status, mollieId, stripeId, payments, worker, written, faults, hooks, refused>>
    BY <1>3 DEF DunningLoads, columns, session
  <2> QED
    BY <1>1, <1>2, <1>3, <2>1, DunningMoves DEF DunningLoads, Dunning
<1>4. ASSUME DunningCharged(i) PROVE IInv'
  <2>1. UNCHANGED <<status, mollieId, stripeId, worker, written, faults, hooks, refused>>
    BY <1>4 DEF DunningCharged, columns, session
  <2>2. dunning[i].attempt + 1 \in 0..MaxAttempts
    BY <1>1, <1>2, <1>4 DEF DunningCharged
  <2> QED
    BY <1>1, <1>2, <1>4, <2>1, <2>2, DunningMoves DEF DunningCharged, Dunning
<1>5. ASSUME DunningFails(i) PROVE IInv'
  <2>1. UNCHANGED <<status, mollieId, stripeId, worker, written, faults, hooks, refused>>
    BY <1>5 DEF DunningFails, columns, session
  <2> DEFINE made == dunning[i].attempt + 1
             at == IF made >= MaxAttempts THEN "mark_uncollectible" ELSE "idle"
  <2>2. made \in 0..MaxAttempts /\ dunning[i].at = "attempt_payment"
    BY <1>1, <1>2, <1>5 DEF DunningFails
  <2>3. /\ at \in {"idle", "attempt_payment", "mark_uncollectible", "commit"}
        /\ at = "mark_uncollectible" => made = MaxAttempts
        /\ at # "attempt_payment" /\ at # "commit"
    BY <1>2, <2>2
  <2>4. dunning' = [dunning EXCEPT ![i] = [at |-> at, attempt |-> made, seen |-> "open"]]
    BY <1>5 DEF DunningFails, Dunning
  <2>5. payments' \in {payments, Charged("mollie", i)}
    BY <1>5 DEF DunningFails, MaybeCharged
  <2> HIDE DEF at, made
  <2> QED
    BY <1>1, <1>2, <2>1, <2>2, <2>3, <2>4, <2>5, DunningMoves
<1>6. ASSUME DunningSelects(i) PROVE IInv'
  <2>1. UNCHANGED <<status, mollieId, stripeId, payments, worker, written, faults, hooks, refused>>
    BY <1>6 DEF DunningSelects, columns, session
  <2>2. dunning' = [dunning EXCEPT ![i] =
                       [at |-> "commit", attempt |-> dunning[i].attempt, seen |-> status[i]]]
    BY <1>6 DEF DunningSelects
  <2>3. dunning[i].at = "mark_uncollectible"
    BY <1>6 DEF DunningSelects
  <2>4. /\ dunning[i].attempt \in 0..MaxAttempts /\ dunning[i].attempt = MaxAttempts
        /\ ~ (status[i] = "uncollectible" /\ i \notin refused)
    BY <1>1, <2>3
  <2> QED
    BY <1>1, <2>1, <2>2, <2>4, DunningMoves
<1>7. ASSUME DunningCommits(i) PROVE IInv'
  <2>1. UNCHANGED <<mollieId, stripeId, payments, worker, written, faults, hooks, refused>>
    BY <1>7 DEF DunningCommits, session
  <2>2. /\ status' \in [Invoices -> InvoiceStatus]
        /\ status'[i] # "paid" \/ status'[i] = status[i]
        /\ \A j \in Invoices \ {i} : status'[j] = status[j]
    BY <1>1, <1>7 DEF DunningCommits, IInv, TypeOK, InvoiceStatus
  <2>3. /\ dunning' = [dunning EXCEPT ![i] =
                         [at |-> "idle", attempt |-> dunning[i].attempt, seen |-> "open"]]
        /\ dunning[i].attempt = MaxAttempts
    BY <1>1, <1>7 DEF DunningCommits, Dunning
  <2>4. dunning' \in [Invoices -> [at : {"idle", "attempt_payment", "mark_uncollectible", "commit"},
                                   attempt : 0..MaxAttempts, seen : InvoiceStatus]]
    BY <1>1, <1>2, <2>3 DEF IInv, TypeOK
  <2>5. TypeOK'
    BY <2>1, <2>2, <2>4 DEF IInv, TypeOK
  <2>6. DunningInOrder' /\ WrittenOffByDunning'
    BY <1>1, <2>1, <2>2, <2>3 DEF IInv, TypeOK, DunningInOrder, WrittenOffByDunning
  <2>7. PaidRowsHold'
    BY <2>1, <2>2 DEF IInv, PaidRowsHold, ChargeId, IdempotencyKey
  <2> QED
    BY <2>1, <2>5, <2>6, <2>7 DEF IInv, KeysAreInvoices, RowsHoldTheirIds, WrittenAsAnswered,
       SessionHasMethod, HooksAreTold, PaymentIds, Holders, ChargeId, IdempotencyKey
<1>8. ASSUME DunningCrashes(i) PROVE IInv'
  <2>1. UNCHANGED <<status, mollieId, stripeId, payments, worker, written, faults, hooks, refused>>
    BY <1>8 DEF DunningCrashes, columns, session
  <2> DEFINE known == IF dunning[i].at = "attempt_payment"
                      THEN dunning[i].attempt ELSE dunning[i].attempt - 1
  <2>2. known \in 0..MaxAttempts
    BY <1>1, <1>2, <1>8 DEF DunningCrashes
  <2>3. dunning' = [dunning EXCEPT ![i] = [at |-> "idle", attempt |-> known, seen |-> "open"]]
    BY <1>8 DEF DunningCrashes, Dunning
  <2> HIDE DEF known
  <2> QED
    BY <1>1, <1>2, <1>8, <2>1, <2>2, <2>3, DunningMoves DEF DunningCrashes
<1> QED
  BY <1>3, <1>4, <1>5, <1>6, <1>7, <1>8 DEF DunningStep

LEMMA StepPreserves == IInv /\ [Next]_vars => IInv'
<1> SUFFICES ASSUME IInv, [Next]_vars PROVE IInv'
  OBVIOUS
<1>1. CASE UNCHANGED vars
  BY <1>1 DEF vars, columns, session, IInv, TypeOK, KeysAreInvoices, RowsHoldTheirIds,
     WrittenAsAnswered, SessionHasMethod, HooksAreTold, DunningInOrder, WrittenOffByDunning,
     PaidRowsHold, PaymentIds, Holders, ChargeId, IdempotencyKey
<1>2. CASE WorkerLoop
  BY <1>2, StartSessionKeeps, ProcessInvoiceKeeps, ChargeAnsweredKeeps, ChargeRefusedKeeps,
     ChargeRaisedKeeps, CommitSessionKeeps DEF WorkerLoop, WorkerStep
<1>3. ASSUME NEW h \in hooks, HookStep(h) PROVE IInv'
  BY <1>3, HookFindsKeeps, HookIgnoredKeeps, HookCommitsKeeps DEF HookStep
<1> QED
  BY <1>1, <1>2, <1>3, LoseSessionKeeps, DunningStepKeeps, PspConcludesKeeps DEF Next

-----------------------------------------------------------------------------
(* The theorems. *)

\* The invariant holds however polls, webhook calls and dunning runs overlap.
THEOREM SpecKeepsIInv == Spec => []IInv
BY InitEstablishes, StepPreserves, PTL DEF Spec

\* Rows, sessions, webhook calls and dunning runs keep their types.
THEOREM TypeCorrect == Spec => []TypeOK
<1>1. IInv => TypeOK
  BY DEF IInv
<1> QED
  BY <1>1, SpecKeepsIInv, PTL

\* However the worker, the webhooks and dunning overlap, and however often a session is
\* lost, a paid invoice has the id of a payment of its own, by which its webhook finds it.
THEOREM PaidInvoicesAreTraceable == Spec => []PaidIsTraceable
<1>1. IInv => PaidIsTraceable
  <2> SUFFICES ASSUME IInv, NEW i \in Invoices, status[i] = "paid"
               PROVE  \E p \in payments : p.invoice = i /\ i \in Holders(IdOf(p))
    BY DEF PaidIsTraceable
  <2>1. ASSUME NEW id \in PaymentIds, id.key = i, i \in Holders(id)
        PROVE  \E p \in payments : p.invoice = i /\ i \in Holders(IdOf(p))
    <3>1. PICK p \in payments : id = IdOf(p)
      BY DEF PaymentIds
    <3>2. p.invoice = i
      BY <2>1, <3>1 DEF IdOf, IInv, KeysAreInvoices
    <3> QED
      BY <2>1, <3>1, <3>2
  <2>2. CASE mollieId[i] = ChargeId("mollie", i)
    <3>1. mollieId[i] \in PaymentIds /\ mollieId[i].key = i /\ mollieId[i].provider = "mollie"
      BY <2>2, ChargeIds DEF IInv, RowsHoldTheirIds, Providers
    <3> QED
      BY <2>1, <3>1 DEF Holders
  <2>3. CASE stripeId[i] = ChargeId("stripe", i)
    <3>1. stripeId[i] \in PaymentIds /\ stripeId[i].key = i /\ stripeId[i].provider = "stripe"
      BY <2>3, ChargeIds DEF IInv, RowsHoldTheirIds, Providers
    <3> QED
      BY <2>1, <3>1 DEF Holders
  <2> QED
    BY <2>2, <2>3 DEF IInv, PaidRowsHold
<1> QED
  BY <1>1, SpecKeepsIInv, PTL

\* The idempotency key of charge_invoice: timeouts, lost sessions, polls and dunning
\* attempts together charge an invoice at most once at each provider.
THEOREM NoDoubleCharge == Spec => []ChargedOncePerProvider
<1>1. IInv => ChargedOncePerProvider
  <2> SUFFICES ASSUME IInv, NEW i \in Invoices, NEW provider \in Providers
               PROVE  Cardinality({p \in payments : p.provider = provider /\ p.invoice = i}) <= 1
    BY DEF ChargedOncePerProvider
  <2> DEFINE made == {p \in payments : p.provider = provider /\ p.invoice = i}
  <2>1. \A p, q \in made : p = q
    BY DEF IInv, KeysAreInvoices
  <2> HIDE DEF made
  <2>2. CASE made = {}
    BY <2>2, FS_EmptySet DEF made
  <2>3. ASSUME NEW p \in made PROVE Cardinality(made) <= 1
    <3>1. made = {p}
      BY <2>1, <2>3
    <3> QED
      BY <3>1, FS_Singleton
  <2> QED
    BY <2>2, <2>3 DEF made
<1> QED
  BY <1>1, SpecKeepsIInv, PTL

\* An invoice is written off only after a refusal or at the end of the dunning schedule.
THEOREM WriteOffsHaveACause == Spec => []WrittenOffForCause
<1>1. IInv => WrittenOffForCause
  BY DEF IInv, WrittenOffByDunning, WrittenOffForCause
<1> QED
  BY <1>1, SpecKeepsIInv, PTL

-----------------------------------------------------------------------------
(* The answers: a call is none, or holds the arguments and the answer of one. *)

\* Every answer carries the name of the function that gave it.
LEMMA CallIsNamed ==
    /\ Bill => call'.op = "bill"
    /\ Simulate => call'.op = "simulate"
    /\ Compare => call'.op = "compare"
    /\ Charge => call'.op = "tax"
    /\ RouteOne => call'.op = "route"
    /\ Recommend => call'.op = "recommend"
    /\ Requote => call'.op = "requote"
    /\ Validate => call'.op = "validate"
<1>1. Bill => call'.op = "bill"
  BY DEF Bill
<1>2. Simulate => call'.op = "simulate"
  BY DEF Simulate
<1>3. Compare => call'.op = "compare"
  BY DEF Compare
<1>4. Charge => call'.op = "tax"
  BY DEF Charge
<1>5. RouteOne => call'.op = "route"
  <2> SUFFICES ASSUME NEW amount, NEW country, NEW method,
                      call' = [op |-> "route", amount |-> amount, country |-> country,
                               method |-> method, answer |-> RoutePayment(amount, country, method)]
               PROVE  call'.op = "route"
    BY DEF RouteOne
  <2> QED  OBVIOUS
<1>6. Recommend => call'.op = "recommend"
  BY DEF Recommend
<1>7. Requote => call'.op = "requote"
  BY DEF Requote
<1>8. Validate => call'.op = "validate"
  BY DEF Validate
<1> QED  BY <1>1, <1>2, <1>3, <1>4, <1>5, <1>6, <1>7, <1>8

-----------------------------------------------------------------------------
(* Taxes *)

\* The two tax functions on one input, case by case of country and customer.
LEMMA TaxIsRight ==
    ASSUME NEW country, NEW isBusiness \in BOOLEAN, NEW subtotal, NEW sales \in AnnualSales,
           call' = [op |-> "tax", country |-> country, isBusiness |-> isBusiness,
                 subtotal |-> subtotal, sales |-> sales,
                 invoiced |-> CalculateVat(country, isBusiness, subtotal),
                 detailed |-> CalculateVatDetailed(country, isBusiness, subtotal, sales)]
    PROVE  TaxesAgree'
<1> DEFINE invoiced == CalculateVat(country, isBusiness, subtotal)
           detailed == CalculateVatDetailed(country, isBusiness, subtotal, sales)
           abroad == country # SellerCountry /\ IsEU(country)
           below == \E s \in sales : ~CheckOssApplicable(country, s)
           oss == OssApplicable(country, isBusiness, sales)
<1>1. abroad /\ ~isBusiness => (oss <=> ~below)
  BY DEF OssApplicable, CheckOssApplicable
<1>2. \A s \in sales : abroad /\ ~isBusiness => (oss <=> CheckOssApplicable(country, s))
  BY SalesAssumption DEF OssApplicable, CheckOssApplicable
<1>3. /\ invoiced.type = "reverse_charge" <=> abroad /\ isBusiness
      /\ invoiced.type = detailed.type
  BY DEF CalculateVat, CalculateVatDetailed, Untaxed, Taxed
<1>4. \A x, y : Taxed(subtotal, x) = Taxed(subtotal, y) <=> x = y
  <2>1. \A x : Taxed(subtotal, x).rate = x
    BY DEF Taxed
  <2> QED  BY <2>1
<1>5. IsEU(SellerCountry)
  BY VatAssumption DEF IsEU
<1>6. invoiced = detailed <=> \/ ~(abroad /\ ~isBusiness /\ below)
                              \/ EUVatRates[country] = EUVatRates[SellerCountry]
  <2>1. CASE ~IsEU(country) \/ (isBusiness /\ country # SellerCountry)
    BY <2>1 DEF CalculateVat, CalculateVatDetailed
  <2>2. CASE IsEU(country) /\ ~(isBusiness /\ country # SellerCountry)
    <3>1. /\ invoiced = Taxed(subtotal, EUVatRates[country])
          /\ detailed = Taxed(subtotal, EUVatRates[IF oss THEN country ELSE SellerCountry])
      BY <2>2 DEF CalculateVat, CalculateVatDetailed
    <3>2. CASE oss
      BY <3>1, <3>2, <1>1 DEF OssApplicable
    <3>3. CASE ~oss
      <4>1. invoiced = detailed <=> EUVatRates[country] = EUVatRates[SellerCountry]
        BY <3>1, <3>3, <1>4
      <4> QED  BY <4>1, <1>1, <3>3, <2>2
    <3> QED  BY <3>2, <3>3
  <2> QED  BY <2>1, <2>2
<1> HIDE DEF invoiced, detailed
<1>7. call' = [op |-> "tax", country |-> country, isBusiness |-> isBusiness,
                 subtotal |-> subtotal, sales |-> sales,
                 invoiced |-> invoiced, detailed |-> detailed]
  BY DEF invoiced, detailed
<1>8. /\ call'.country = country /\ call'.isBusiness = isBusiness /\ call'.sales = sales
      /\ call'.invoiced = invoiced /\ call'.detailed = detailed
  BY <1>7
<1> QED  BY <1>2, <1>3, <1>6, <1>8 DEF TaxesAgree

\* calculate_vat and calculate_vat_detailed (tax/) give one answer, but for a private
\* customer in another member state below the One-Stop Shop threshold; reverse charge is
\* for businesses abroad.  Whatever the countries, rates and subtotals.
THEOREM TaxesAlwaysAgree == CalculationSpec => []TaxesAgree
<1>1. CalculationInit => TaxesAgree
  BY DEF CalculationInit, TaxesAgree
<1>2. TaxesAgree /\ [CalculationNext]_call => TaxesAgree'
  <2> SUFFICES ASSUME CalculationNext PROVE TaxesAgree'
    BY DEF TaxesAgree
  <2>1. Charge => TaxesAgree'
    <3> SUFFICES ASSUME NEW country \in Countries, NEW isBusiness \in BOOLEAN,
                        NEW subtotal \in Subtotals, NEW sales \in AnnualSales,
                        call' = [op |-> "tax", country |-> country, isBusiness |-> isBusiness,
                                 subtotal |-> subtotal, sales |-> sales,
                                 invoiced |-> CalculateVat(country, isBusiness, subtotal),
                                 detailed |-> CalculateVatDetailed(country, isBusiness, subtotal, sales)]
                 PROVE  TaxesAgree'
      BY DEF Charge
    <3> QED  BY TaxIsRight
  <2> QED  BY <2>1, CallIsNamed DEF CalculationNext, TaxesAgree
<1> QED  BY <1>1, <1>2, PTL DEF CalculationSpec

-----------------------------------------------------------------------------
(* Quotes *)

\* The quantities given, the later over the earlier.
Given(after) == DOMAIN after \ {""}

Overridden(after, before) ==
    [m \in Given(after) \union DOMAIN before |-> IF m \in Given(after) THEN after[m] ELSE before[m]]

\* One line of a quote, recalculated, is the estimate with the new quantities.
LEMMA RequotedIsEstimated ==
    ASSUME NEW rule, NEW before, NEW after, rule.unit \in Int,
           \A m \in DOMAIN after : after[m] \in Int,
           rule.metric \in Given(after) => rule.model \notin {"hybrid", "flat"}
    PROVE  /\ EstimateOf(rule, before).metric = rule.metric
           /\ Requoted(EstimateOf(rule, before), after) = EstimateOf(rule, Overridden(after, before))
<1> DEFINE m == rule.metric
           item == EstimateOf(rule, before)
           both == Overridden(after, before)
<1>1. item.metric = m
  BY DEF EstimateOf
<1>2. CASE m \in Given(after)
  <2>1. QuantityFor(m, both) = after[m]
    BY <1>2 DEF QuantityFor, Overridden
  <2>2. PICK quantity, amount :
            item = [model |-> rule.model, metric |-> m, unit |-> rule.unit,
                    quantity |-> quantity, amount |-> amount]
    BY <1>2 DEF EstimateOf
  <2>3. EstimateOf(rule, both) = [model |-> rule.model, metric |-> m, unit |-> rule.unit,
                                  quantity |-> after[m], amount |-> rule.unit * after[m]]
    <3>1. rule.unit * after[m] + 0 = rule.unit * after[m]
      <4>1. m \in DOMAIN after
        BY <1>2 DEF Given
      <4>2. after[m] \in Int
        BY <4>1
      <4> QED  BY <4>2
    <3> QED  BY <1>2, <2>1, <3>1 DEF EstimateOf
  <2>4. Requoted(item, after) = [item EXCEPT !.quantity = after[m], !.amount = item.unit * after[m]]
    BY <1>1, <1>2 DEF Requoted, Given
  <2>5. item.unit = rule.unit
    BY <2>2
  <2>6. [item EXCEPT !.quantity = after[m], !.amount = rule.unit * after[m]]
          = [model |-> rule.model, metric |-> m, unit |-> rule.unit,
             quantity |-> after[m], amount |-> rule.unit * after[m]]
    <3> DEFINE n == after[m]
               a == rule.unit * after[m]
    <3> HIDE DEF item, m, n, a
    <3>1. item = [model |-> rule.model, metric |-> m, unit |-> rule.unit,
                  quantity |-> quantity, amount |-> amount]
      BY <2>2 DEF m
    <3>2. [item EXCEPT !.quantity = n, !.amount = a]
            \in [model : {rule.model}, metric : {m}, unit : {rule.unit}, quantity : {n}, amount : {a}]
      BY <3>1
    <3>3. [item EXCEPT !.quantity = n, !.amount = a]
            = [model |-> rule.model, metric |-> m, unit |-> rule.unit, quantity |-> n, amount |-> a]
      <4> DEFINE new == [item EXCEPT !.quantity = n, !.amount = a]
      <4> HIDE DEF new
      <4>1. new \in [model : {rule.model}, metric : {m}, unit : {rule.unit}, quantity : {n}, amount : {a}]
        BY <3>2 DEF new
      <4>2. new = [model |-> rule.model, metric |-> m, unit |-> rule.unit, quantity |-> n, amount |-> a]
        BY <4>1
      <4> QED  BY <4>2 DEF new
    <3> QED  BY <3>3 DEF m, n, a
  <2> QED  BY <1>1, <2>3, <2>4, <2>5, <2>6
<1>3. CASE m \notin Given(after)
  <2>1. QuantityFor(m, both) = QuantityFor(m, before)
    BY <1>3 DEF QuantityFor, Overridden
  <2>2. EstimateOf(rule, both) = item
    BY <2>1 DEF EstimateOf
  <2>3. Requoted(item, after) = item
    BY <1>1, <1>3 DEF Requoted, Given
  <2> QED  BY <1>1, <2>2, <2>3
<1> QED  BY <1>2, <1>3

\* So is the whole quote, whose totals are taken anew from its lines.
LEMMA RecalculatedIsRebuilt ==
    ASSUME NEW rules \in Plans, NEW before, NEW after \in Overrides, NEW discount, NEW term,
           \A i \in DOMAIN rules : rules[i].metric \in Given(after) =>
                                       rules[i].model \notin {"hybrid", "flat"}
    PROVE  RecalculateQuote(BuildQuote(rules, before, discount, term), after)
             = BuildQuote(rules, Overridden(after, before), discount, term)
<1> DEFINE items == [i \in DOMAIN rules |-> EstimateOf(rules[i], before)]
           rebuilt == [i \in DOMAIN rules |-> EstimateOf(rules[i], Overridden(after, before))]
           quote == WithTotals(items, discount, term)
<1>1. quote.items = items /\ quote.discount = discount /\ quote.term = term
  BY DEF WithTotals
<1>2. \A i \in DOMAIN rules : Requoted(items[i], after) = rebuilt[i]
  <2>1. \A i \in DOMAIN rules : rules[i].unit \in Int
    BY PlanAssumption DEF IsRule
  <2> QED  BY <2>1, RequotedIsEstimated, QuoteAssumption
<1>3. [i \in DOMAIN items |-> Requoted(items[i], after)] = rebuilt
  BY <1>2
<1> HIDE DEF items, rebuilt
<1>4. RecalculateQuote(quote, after) = WithTotals(rebuilt, discount, term)
  <2> HIDE DEF quote
  <2> QED  BY <1>1, <1>3 DEF RecalculateQuote
<1> QED  BY <1>4 DEF BuildQuote, items, rebuilt

\* recalculate_quote (quoting/) is build_quote with the new quantities, whatever the rules,
\* unless a new quantity is given for a hybrid or flat rule.
THEOREM RecalculatingIsRebuilding == CalculationSpec => []RecalculationIsRebuild
<1>1. CalculationInit => RecalculationIsRebuild
  <2>1. CalculationInit => call.op # "requote"
    BY DEF CalculationInit
  <2> QED  BY <2>1 DEF RecalculationIsRebuild
<1>2. RecalculationIsRebuild /\ [CalculationNext]_call => RecalculationIsRebuild'
  <2>1. Requote => RecalculationIsRebuild'
    <3> SUFFICES ASSUME NEW rules \in Plans, NEW before \in Overrides, NEW after \in Overrides,
                        NEW discount \in Discounts, NEW term \in Terms,
                        call' = [op |-> "requote", rules |-> rules, before |-> before, after |-> after,
                                 discount |-> discount, term |-> term,
                                 answer |-> RecalculateQuote(BuildQuote(rules, before, discount, term), after)]
                 PROVE  RecalculationIsRebuild'
      BY DEF Requote
    <3> DEFINE answer == RecalculateQuote(BuildQuote(rules, before, discount, term), after)
    <3>1. (\E i \in DOMAIN rules : /\ rules[i].model \in {"hybrid", "flat"}
                                  /\ rules[i].metric \in Given(after))
          \/ answer = BuildQuote(rules, Overridden(after, before), discount, term)
      BY RecalculatedIsRebuilt
    <3> HIDE DEF answer
    <3>2. /\ call'.rules = rules /\ call'.before = before /\ call'.after = after
          /\ call'.discount = discount /\ call'.term = term /\ call'.answer = answer
      BY DEF answer
    <3> QED  BY <3>1, <3>2 DEF RecalculationIsRebuild, Overridden, Given
  <2>2. UNCHANGED call /\ RecalculationIsRebuild => RecalculationIsRebuild'
    BY DEF RecalculationIsRebuild
  <2> QED  BY <2>1, <2>2, CallIsNamed DEF CalculationNext, RecalculationIsRebuild
<1> QED  BY <1>1, <1>2, PTL DEF CalculationSpec

-----------------------------------------------------------------------------
(* Loops over a sequence *)

\* Loops are followed by a least counterexample among the natural numbers.
LEMMA LeastNat ==
    ASSUME NEW T, T \subseteq Nat, T # {}
    PROVE  \E n \in T : \A m \in T : n <= m
<1> DEFINE R == {ss \in Nat \X Nat : ss[1] < ss[2]}
<1>1. IsWellFoundedOn(R, Nat)
  BY NatLessThanWellFounded DEF OpToRel
<1>2. \E x \in T : \A y \in T : ~ (<<y, x>> \in R)
  <2> HIDE DEF R
  <2> QED
    BY <1>1, WFMin
<1>3. \A x, y \in T : ~ (<<y, x>> \in R) => x <= y
  OBVIOUS
<1> QED
  BY <1>2, <1>3

\* The last index of a part of a sequence, and the parts that are its beginnings.
LEMMA LastIndex ==
    ASSUME NEW n \in Nat, NEW s \in SUBSET (1..n), s # {}
    PROVE  Max(s) \in s /\ \A i \in s : i <= Max(s)
<1> DEFINE T == {n - i : i \in s}
<1>0. \A i \in s : i \in 1..n /\ n - i \in Nat
  OBVIOUS
<1>1. T \subseteq Nat /\ T # {}
  BY <1>0
<1>2. PICK least \in T : \A m \in T : least <= m
  <2> HIDE DEF T
  <2> QED  BY <1>1, LeastNat
<1>3. PICK last \in s : least = n - last
  OBVIOUS
<1>4. \A i \in s : n - last <= n - i
  BY <1>2, <1>3
<1>5. \A i \in s : last >= i
  BY <1>0, <1>4
<1>6. Max(s) \in s /\ \A i \in s : Max(s) >= i
  BY <1>5 DEF Max
<1> QED  BY <1>6

LEMMA LastOfPrefix ==
    ASSUME NEW n \in Nat, NEW k \in 1..n
    PROVE  /\ 1..k \in SUBSET (1..n) /\ 1..k # {}
           /\ Max(1..k) = k /\ (1..k) \ {k} = 1..(k - 1)
<1>1. (1..k) \in SUBSET (1..n) /\ (1..k) # {}
  OBVIOUS
<1>2. Max(1..k) \in 1..k /\ \A i \in 1..k : i <= Max(1..k)
  BY <1>1, LastIndex
<1> QED  BY <1>1, <1>2

\* g is a fold of F, over the parts of 1..k, as MapThenFoldSet chooses one.
Folds(n, F, base, V, g, k) ==
    /\ g \in [SUBSET (1..n) -> V]
    /\ \A s \in SUBSET (1..k) :
          g[s] = IF s = {} THEN base ELSE F[<<g[s \ {Max(s)}], Max(s)>>]

\* A loop whose body stays in V has values: the function that a fold over a sequence
\* chooses exists.  It is built one index at a time.
LEMMA FoldsExist ==
    ASSUME NEW n \in Nat, NEW F, NEW V, NEW base \in V, \A v \in V : \A i \in 1..n : F[<<v, i>>] \in V
    PROVE  \E g : Folds(n, F, base, V, g, n)
<1> DEFINE Bad == {k \in 0..n : ~ \E g : Folds(n, F, base, V, g, k)}
<1>1. 0 \notin Bad
  <2> DEFINE g == [s \in SUBSET (1..n) |-> base]
  <2>1. \A s \in SUBSET (1..0) : s = {}
    OBVIOUS
  <2>2. Folds(n, F, base, V, g, 0)
    BY <2>1 DEF Folds
  <2> QED  BY <2>2
<1>2. ASSUME NEW k \in 0..(n - 1), k \notin Bad PROVE k + 1 \notin Bad
  <2>1. PICK g : Folds(n, F, base, V, g, k)
    BY <1>2
  <2> DEFINE h == [s \in SUBSET (1..n) |->
                      IF s \in SUBSET (1..k) THEN g[s]
                      ELSE IF s \in SUBSET (1..(k + 1)) THEN F[<<g[s \ {k + 1}], k + 1>>] ELSE base]
  <2>2. g \in [SUBSET (1..n) -> V] /\ k \in Nat /\ k + 1 \in 1..n
    BY <2>1 DEF Folds
  <2>3. h \in [SUBSET (1..n) -> V]
    BY <2>2
  <2>4. ASSUME NEW s \in SUBSET (1..(k + 1)), s # {}
        PROVE  h[s] = F[<<h[s \ {Max(s)}], Max(s)>>]
    <3>0. s \in SUBSET (1..n)
      BY <2>2
    <3>1. Max(s) \in s /\ \A i \in s : i <= Max(s)
      BY <3>0, <2>4, LastIndex
    <3>2. CASE s \in SUBSET (1..k)
      <4>1. s \in SUBSET (1..n) /\ s \ {Max(s)} \in SUBSET (1..k) /\ s \ {Max(s)} \in SUBSET (1..n)
        BY <3>0, <3>2
      <4>2. h[s] = g[s] /\ h[s \ {Max(s)}] = g[s \ {Max(s)}]
        BY <3>2, <4>1
      <4>3. g[s] = F[<<g[s \ {Max(s)}], Max(s)>>]
        BY <2>1, <2>4, <3>2 DEF Folds
      <4> QED  BY <4>2, <4>3
    <3>3. CASE s \notin SUBSET (1..k)
      <4>1. Max(s) = k + 1
        <5>1. PICK i \in s : i \notin 1..k
          BY <3>3
        <5>2. i = k + 1
          BY <5>1, <2>2
        <5>3. Max(s) \in 1..(k + 1) /\ k + 1 <= Max(s)
          BY <3>1, <5>2
        <5> QED  BY <5>3, <2>2
      <4>2. s \in SUBSET (1..n) /\ s \ {k + 1} \in SUBSET (1..k) /\ s \ {k + 1} \in SUBSET (1..n)
        BY <2>2
      <4>3. h[s] = F[<<g[s \ {k + 1}], k + 1>>] /\ h[s \ {k + 1}] = g[s \ {k + 1}]
        BY <3>3, <4>2
      <4> QED  BY <4>1, <4>3
    <3> QED  BY <3>2, <3>3
  <2>5. h[{}] = base
    <3>1. {} \in SUBSET (1..k) /\ {} \in SUBSET (1..n)
      OBVIOUS
    <3>2. g[{}] = base
      BY <2>1, <3>1 DEF Folds
    <3> QED  BY <3>1, <3>2
  <2>6. Folds(n, F, base, V, h, k + 1)
    <3> HIDE DEF h
    <3> QED  BY <2>3, <2>4, <2>5 DEF Folds
  <2> QED  BY <2>6
<1>3. Bad = {}
  <2> SUFFICES ASSUME Bad # {} PROVE FALSE
    OBVIOUS
  <2>1. PICK k \in Bad : \A m \in Bad : k <= m
    <3>1. Bad \subseteq Nat
      OBVIOUS
    <3> HIDE DEF Bad
    <3> QED  BY <3>1, LeastNat
  <2>2. k \in 0..n /\ k # 0
    BY <1>1
  <2>3. k - 1 \in 0..(n - 1) /\ k - 1 \notin Bad
    <3> HIDE DEF Bad
    <3> QED  BY <2>1, <2>2
  <2>4. (k - 1) + 1 \notin Bad
    <3> HIDE DEF Bad
    <3> QED  BY <1>2, <2>3
  <2> HIDE DEF Bad
  <2> QED  BY <2>2, <2>4
<1> QED  BY <1>3

-----------------------------------------------------------------------------
(* Routes *)

\* The choice between two providers that Cheapest repeats.
Better(method, n, d, best, p) ==
    IF /\ Supports(p, method)
       /\ best = NoPsp \/ FeeAt(p, method, n, d) < FeeAt(best, method, n, d)
    THEN p ELSE best

Bests(method, n, d) ==
    CHOOSE g : g = [s \in SUBSET (DOMAIN Psps) |->
        IF s = {} THEN NoPsp ELSE Better(method, n, d, g[s \ {Max(s)}], Psps[Max(s)])]

\* The loop of find_cheapest_route is the repeated choice between two providers.
LEMMA CheapestIsBest ==
    \A method, n, d : Cheapest(method, n, d) = Bests(method, n, d)[DOMAIN Psps]
BY DEF Cheapest, FoldLeft, MapThenFoldSet, Bests, Better

Options == {NoPsp, "mollie", "adyen", "stripe"}

LEMMA BestsStep ==
    ASSUME NEW method, NEW n, NEW d
    PROVE  /\ Bests(method, n, d)[1..0] = NoPsp
           /\ \A k \in 1..3 : Bests(method, n, d)[1..k] =
                  Better(method, n, d, Bests(method, n, d)[1..(k - 1)], Psps[k])
<1> DEFINE F == [x \in Options \X (1..3) |-> Better(method, n, d, x[1], Psps[x[2]])]
           best == Bests(method, n, d)
<1>1. \A v \in Options : \A i \in 1..3 : Psps[i] \in Options /\ Better(method, n, d, v, Psps[i]) \in Options
  BY DEF Better, Options, Psps
<1>2. \A v \in Options : \A i \in 1..3 : F[<<v, i>>] = Better(method, n, d, v, Psps[i])
  OBVIOUS
<1>3. PICK g : Folds(3, F, NoPsp, Options, g, 3)
  <2>1. NoPsp \in Options
    BY DEF Options
  <2> HIDE DEF F
  <2> QED  BY <1>1, <1>2, <2>1, FoldsExist
<1>4. DOMAIN Psps = 1..3
  BY DEF Psps
<1>5. g = [s \in SUBSET (1..3) |->
             IF s = {} THEN NoPsp ELSE Better(method, n, d, g[s \ {Max(s)}], Psps[Max(s)])]
  <2> HIDE DEF F
  <2>1. \A s \in SUBSET (1..3) : s # {} => Max(s) \in 1..3 /\ s \ {Max(s)} \in SUBSET (1..3)
    BY LastIndex
  <2>2. \A s \in SUBSET (1..3) : s # {} => g[s] = Better(method, n, d, g[s \ {Max(s)}], Psps[Max(s)])
    BY <1>2, <1>3, <2>1 DEF Folds
  <2>3. g[{}] = NoPsp /\ g \in [SUBSET (1..3) -> Options]
    BY <1>3 DEF Folds
  <2> QED  BY <2>2, <2>3
<1>6. best = [s \in SUBSET (1..3) |->
             IF s = {} THEN NoPsp ELSE Better(method, n, d, best[s \ {Max(s)}], Psps[Max(s)])]
  BY <1>4, <1>5 DEF Bests
<1> HIDE DEF best
<1>7. best[1..0] = NoPsp
  <2>1. 1..0 = {} /\ 1..0 \in SUBSET (1..3)
    OBVIOUS
  <2> QED  BY <1>6, <2>1
<1>8. ASSUME NEW k \in 1..3
      PROVE  best[1..k] = Better(method, n, d, best[1..(k - 1)], Psps[k])
  <2>1. /\ 1..k \in SUBSET (1..3) /\ 1..k # {}
        /\ Max(1..k) = k /\ (1..k) \ {k} = 1..(k - 1)
    <3>1. 3 \in Nat
      OBVIOUS
    <3> QED  BY <3>1, LastOfPrefix
  <2> QED  BY <1>6, <2>1
<1> QED  BY <1>7, <1>8 DEF best

ProviderNames == {"mollie", "adyen", "stripe"}

ScheduleType == [fixed : Int, rate : Int, cap : {{}, {50000}}]

\* A provider has an integral schedule for each method it supports, Mollie's without a cap.
LEMMA SchedulesAreRight ==
    ASSUME NEW p \in ProviderNames, NEW method, Supports(p, method)
    PROVE  /\ FeeSchedules[p][method] \in ScheduleType
           /\ p = "mollie" => FeeSchedules[p][method].cap = {}
<1>1. /\ FeeSchedules["mollie"] = [ideal |-> Fixed(2900), card |-> Percent(2500, 29),
                                  sepa_dd |-> Fixed(3500), bancontact |-> Fixed(2900)]
      /\ FeeSchedules["adyen"] = [ideal |-> Fixed(2200), card |-> Percent(2000, 22), sepa_dd |-> Fixed(3000)]
      /\ FeeSchedules["stripe"] = [card |-> Percent(3000, 29),
                                  ach |-> [fixed |-> 0, rate |-> 8, cap |-> {50000}],
                                  sepa_dd |-> Fixed(5000)]
  BY DEF FeeSchedules
<1>2. \A x \in Int : Fixed(x) \in ScheduleType /\ Fixed(x).cap = {}
  BY DEF Fixed, ScheduleType
<1>3. \A x, y \in Int : Percent(x, y) \in ScheduleType /\ Percent(x, y).cap = {}
  BY DEF Percent, ScheduleType
<1>4. [fixed |-> 0, rate |-> 8, cap |-> {50000}] \in ScheduleType
  BY DEF ScheduleType
<1>5. CASE p = "mollie"
  <2>1. FeeSchedules["mollie"][method] \in {Fixed(2900), Percent(2500, 29), Fixed(3500)}
    BY <1>1, <1>5 DEF Supports
  <2> QED  BY <2>1, <1>2, <1>3, <1>5
<1>6. CASE p = "adyen"
  <2>1. FeeSchedules["adyen"][method] \in {Fixed(2200), Percent(2000, 22), Fixed(3000)}
    BY <1>1, <1>6 DEF Supports
  <2> QED  BY <2>1, <1>2, <1>3, <1>6
<1>7. CASE p = "stripe"
  <2>1. FeeSchedules["stripe"][method]
          \in {Percent(3000, 29), Fixed(5000), [fixed |-> 0, rate |-> 8, cap |-> {50000}]}
    BY <1>1, <1>7 DEF Supports
  <2>2. Percent(3000, 29) \in ScheduleType /\ Fixed(5000) \in ScheduleType
    BY <1>2, <1>3
  <2>3. FeeSchedules["stripe"][method] \in ScheduleType
    BY <2>1, <2>2, <1>4
  <2> QED  BY <2>3, <1>7
<1> QED  BY <1>5, <1>6, <1>7 DEF ProviderNames

LEMMA HalfEvenInt == \A n \in Int, d \in Nat \ {0} : HalfEven(n, d) \in Int
BY DEF HalfEven

\* Fees are integers, so they can be compared.
LEMMA EstimatesAreWhole ==
    ASSUME NEW n \in Int, NEW d \in Nat \ {0}, NEW schedule \in ScheduleType
    PROVE  EstimateFee(n, d, schedule) \in Int
<1>1. d * 1000 \in Nat \ {0} /\ schedule.fixed * d * 1000 + n * schedule.rate \in Int
  BY DEF ScheduleType
<1>2. HalfEven(schedule.fixed * d * 1000 + n * schedule.rate, d * 1000) \in Int
  BY <1>1, HalfEvenInt
<1>3. ASSUME schedule.cap = {50000} PROVE schedule.fixed + Min(schedule.cap) \in Int
  <2>1. Min({50000}) = 50000
    BY DEF Min
  <2> QED  BY <1>3, <2>1 DEF ScheduleType
<1>4. schedule.cap = {} \/ schedule.cap = {50000}
  BY DEF ScheduleType
<1> QED  BY <1>2, <1>3, <1>4 DEF EstimateFee

LEMMA FeesAreWhole ==
    ASSUME NEW method, NEW n \in Int, NEW d \in Nat \ {0}, NEW p \in ProviderNames, Supports(p, method)
    PROVE  FeeAt(p, method, n, d) \in Int
BY SchedulesAreRight, EstimatesAreWhole DEF FeeAt

\* The loop, unrolled over the three providers.
LEMMA CheapestOfThree ==
    ASSUME NEW method, NEW n, NEW d
    PROVE  \E first, second :
              /\ first = Better(method, n, d, NoPsp, "mollie")
              /\ second = Better(method, n, d, first, "adyen")
              /\ Cheapest(method, n, d) = Better(method, n, d, second, "stripe")
<1> DEFINE first == Better(method, n, d, NoPsp, "mollie")
           second == Better(method, n, d, first, "adyen")
<1>1. /\ 1 \in 1..3 /\ 2 \in 1..3 /\ 3 \in 1..3 /\ 1 - 1 = 0 /\ 2 - 1 = 1 /\ 3 - 1 = 2
      /\ Psps[1] = "mollie" /\ Psps[2] = "adyen" /\ Psps[3] = "stripe" /\ DOMAIN Psps = 1..3
  BY DEF Psps
<1>2. Bests(method, n, d)[1..1] = first
  BY BestsStep, <1>1
<1>3. Bests(method, n, d)[1..2] = second
  BY BestsStep, <1>1, <1>2
<1> QED  BY BestsStep, <1>1, <1>3, CheapestIsBest

\* Its result supports the method and is not undercut; on a tie with Mollie, Mollie stays.
LEMMA NoneUndercuts ==
    ASSUME NEW method, NEW n \in Int, NEW d \in Nat \ {0}, NEW best, best = Cheapest(method, n, d)
    PROVE  /\ best = NoPsp \/ (best \in ProviderNames /\ Supports(best, method))
           /\ \A p \in ProviderNames : Supports(p, method) =>
                 best # NoPsp /\ FeeAt(best, method, n, d) <= FeeAt(p, method, n, d)
           /\ best # "mollie" /\ Supports("mollie", method) =>
                 FeeAt(best, method, n, d) < FeeAt("mollie", method, n, d)
<1>1. PICK first, second :
          /\ first = Better(method, n, d, NoPsp, "mollie")
          /\ second = Better(method, n, d, first, "adyen")
          /\ best = Better(method, n, d, second, "stripe")
  BY CheapestOfThree
<1>2. \A p \in ProviderNames : Supports(p, method) => FeeAt(p, method, n, d) \in Int
  BY FeesAreWhole
<1>3. NoPsp = "none"
  BY DEF NoPsp
<1> DEFINE fee(p) == FeeAt(p, method, n, d)
           can(p) == Supports(p, method)
<1>4. /\ first = IF can("mollie") THEN "mollie" ELSE NoPsp
      /\ second = IF can("adyen") /\ (first = NoPsp \/ fee("adyen") < fee(first)) THEN "adyen" ELSE first
      /\ best = IF can("stripe") /\ (second = NoPsp \/ fee("stripe") < fee(second)) THEN "stripe" ELSE second
  BY <1>1 DEF Better
<1> HIDE DEF fee, can
<1>5. \A p \in ProviderNames : can(p) => fee(p) \in Int
  BY <1>2 DEF fee, can
<1>6. /\ best = NoPsp \/ (best \in ProviderNames /\ can(best))
      /\ \A p \in ProviderNames : can(p) => best # NoPsp /\ fee(best) <= fee(p)
      /\ best # "mollie" /\ can("mollie") => fee(best) < fee("mollie")
  <2>1. /\ "mollie" \in ProviderNames /\ "adyen" \in ProviderNames /\ "stripe" \in ProviderNames
        /\ \A p \in ProviderNames : p = "mollie" \/ p = "adyen" \/ p = "stripe"
        /\ \A p \in ProviderNames : p # NoPsp
    BY <1>3 DEF ProviderNames
  <2>2. IF can("mollie") THEN first = "mollie" ELSE first = NoPsp
    BY <1>4
  <2>3. /\ second = NoPsp \/ (second \in {"mollie", "adyen"} /\ can(second))
        /\ can("mollie") => second # NoPsp /\ fee(second) <= fee("mollie")
        /\ can("adyen") => second # NoPsp /\ fee(second) <= fee("adyen")
        /\ second # "mollie" /\ can("mollie") => fee(second) < fee("mollie")
    <3>1. CASE second = "adyen" /\ can("adyen") /\ (first = NoPsp \/ fee("adyen") < fee(first))
      BY <2>1, <2>2, <3>1, <1>5
    <3>2. CASE second = first /\ (can("adyen") => first # NoPsp /\ ~(fee("adyen") < fee(first)))
      <4>1. CASE can("mollie")
        <5>1. second = "mollie" /\ second # NoPsp /\ fee("mollie") \in Int
          BY <4>1, <2>1, <2>2, <3>2, <1>5
        <5>2. can("adyen") => fee("adyen") \in Int /\ ~(fee("adyen") < fee("mollie"))
          BY <2>1, <2>2, <4>1, <3>2, <1>5
        <5>3. can("adyen") => fee("mollie") <= fee("adyen")
          BY <5>1, <5>2
        <5> QED  BY <4>1, <5>1, <5>3
      <4>2. CASE ~can("mollie")
        <5>1. second = NoPsp /\ ~can("adyen")
          BY <4>2, <2>2, <3>2
        <5> QED  BY <4>2, <5>1
      <4> QED  BY <4>1, <4>2
    <3> QED  BY <3>1, <3>2, <1>4
  <2>4. CASE best = "stripe" /\ can("stripe") /\ (second = NoPsp \/ fee("stripe") < fee(second))
    BY <2>1, <2>3, <2>4, <1>5
  <2>5. CASE best = second /\ (can("stripe") => second # NoPsp /\ ~(fee("stripe") < fee(second)))
    BY <2>1, <2>3, <2>5, <1>5
  <2> QED  BY <2>4, <2>5, <1>4
<1> QED  BY <1>6 DEF fee, can

\* The choice depends on the fees alone.
LEMMA CheapestByFees ==
    ASSUME NEW method, NEW n, NEW d, NEW m, NEW e,
           \A p \in ProviderNames : Supports(p, method) => FeeAt(p, method, n, d) = FeeAt(p, method, m, e)
    PROVE  Cheapest(method, n, d) = Cheapest(method, m, e)
<1>1. \A p \in ProviderNames : Better(method, n, d, NoPsp, p) = Better(method, m, e, NoPsp, p)
  BY DEF Better
<1>2. \A p, best \in ProviderNames : Supports(best, method) =>
          Better(method, n, d, best, p) = Better(method, m, e, best, p)
  BY DEF Better
<1> DEFINE Option(best) == best = NoPsp \/ (best \in ProviderNames /\ Supports(best, method))
<1>3. \A p \in ProviderNames : \A best : Option(best) =>
          /\ Better(method, n, d, best, p) = Better(method, m, e, best, p)
          /\ Option(Better(method, n, d, best, p))
  BY <1>1, <1>2 DEF Better
<1>4. "mollie" \in ProviderNames /\ "adyen" \in ProviderNames /\ "stripe" \in ProviderNames /\ Option(NoPsp)
  BY DEF ProviderNames
<1>5. PICK first, second :
          /\ first = Better(method, n, d, NoPsp, "mollie")
          /\ second = Better(method, n, d, first, "adyen")
          /\ Cheapest(method, n, d) = Better(method, n, d, second, "stripe")
  BY CheapestOfThree
<1>6. PICK third, fourth :
          /\ third = Better(method, m, e, NoPsp, "mollie")
          /\ fourth = Better(method, m, e, third, "adyen")
          /\ Cheapest(method, m, e) = Better(method, m, e, fourth, "stripe")
  BY CheapestOfThree
<1> HIDE DEF Option
<1>7. first = third /\ Option(first)
  BY <1>3, <1>4, <1>5, <1>6
<1>8. second = fourth /\ Option(second)
  BY <1>3, <1>4, <1>5, <1>6, <1>7
<1> QED  BY <1>3, <1>4, <1>5, <1>6, <1>8

LEMMA QuotientIsUnique ==
    ASSUME NEW n \in Int, NEW d \in Nat \ {0}, NEW q \in Int, NEW r \in 0..(d - 1), n = d * q + r
    PROVE  n \div d = q /\ n % d = r
<1>1. n = d * (n \div d) + (n % d) /\ n % d \in 0..(d - 1) /\ n \div d \in Int
  OBVIOUS
<1> DEFINE p == n \div d
           t == n % d
<1>2. p \in Int /\ t \in 0..(d - 1) /\ d * p + t = d * q + r
  BY <1>1
<1> HIDE DEF p, t
<1>3. ~ p < q
  <2> SUFFICES ASSUME p < q PROVE FALSE
    OBVIOUS
  <2>1. q - p >= 1 /\ q - p \in Int /\ d * (q - p) = t - r
    BY <1>2
  <2>2. d * (q - p) >= d
    BY <2>1
  <2> QED  BY <1>2, <2>1, <2>2
<1>4. ~ q < p
  <2> SUFFICES ASSUME q < p PROVE FALSE
    OBVIOUS
  <2>1. p - q >= 1 /\ p - q \in Int /\ d * (p - q) = r - t
    BY <1>2
  <2>2. d * (p - q) >= d
    BY <2>1
  <2> QED  BY <1>2, <2>1, <2>2
<1>5. p = q /\ t = r
  BY <1>2, <1>3, <1>4
<1> QED  BY <1>5 DEF p, t

\* Rounding a quotient does not depend on how the fraction is reduced, so the fee of
\* an average taken exactly is the fee of an average that is whole.
LEMMA HalfEvenReduces ==
    ASSUME NEW n \in Int, NEW d \in Nat \ {0}, NEW c \in Nat \ {0}
    PROVE  HalfEven(n * c, d * c) = HalfEven(n, d)
<1> DEFINE q == n \div d
           r == n % d
<1>1. n = d * q + r /\ q \in Int /\ r \in 0..(d - 1)
  OBVIOUS
<1> HIDE DEF q, r
<1>2. /\ n * c \in Int /\ d * c \in Nat \ {0}
      /\ n * c = (d * c) * q + r * c
      /\ r * c \in 0..(d * c - 1)
  <2>1. n * c = (d * q + r) * c
    BY <1>1
  <2>2. d \in Int /\ d > 0 /\ c \in Int /\ c > 0
    OBVIOUS
  <2>3. d * c \in Int /\ d * c > 0
    BY <2>2
  <2>4. r * c \in Int /\ r * c >= 0 /\ (d - r) * c >= 1
    BY <1>1, <2>2
  <2>5. (d * q + r) * c = (d * c) * q + r * c /\ (d - r) * c = d * c - r * c
    BY <1>1
  <2> QED  BY <2>1, <2>3, <2>4, <2>5
<1>3. (n * c) \div (d * c) = q /\ (n * c) % (d * c) = r * c
  <2> DEFINE m == n * c
             e == d * c
             t == r * c
  <2>1. m \in Int /\ e \in Nat \ {0} /\ m = e * q + t /\ t \in 0..(e - 1)
    BY <1>2
  <2> HIDE DEF m, e, t
  <2>2. m \div e = q /\ m % e = t
    BY <2>1, <1>1, QuotientIsUnique
  <2> QED  BY <2>2 DEF m, e, t
<1>4. /\ 2 * (r * c) < d * c <=> 2 * r < d
      /\ 2 * (r * c) = d * c <=> 2 * r = d
  <2>1. /\ d \in Int /\ c \in Int /\ c > 0 /\ r \in Int
        /\ 2 * (r * c) - d * c = (2 * r - d) * c
    BY <1>1
  <2> DEFINE x == 2 * r - d
  <2>2. x \in Int /\ (x * c < 0 <=> x < 0) /\ (x * c = 0 <=> x = 0)
    <3>1. x \in Int
      BY <2>1
    <3> HIDE DEF x
    <3>2. x < 0 => x * c < 0
      BY <3>1, <2>1
    <3>3. x > 0 => x * c > 0
      BY <3>1, <2>1
    <3>4. x = 0 => x * c = 0
      BY <3>1, <2>1
    <3>5. x * c \in Int
      BY <3>1, <2>1
    <3> QED  BY <3>1, <3>2, <3>3, <3>4, <3>5
  <2>3. r * c \in Int /\ d * c \in Int
    BY <2>1
  <2> QED  BY <2>1, <2>2, <2>3
<1>5. HalfEven(n * c, d * c) = IF 2 * r < d \/ (2 * r = d /\ q % 2 = 0) THEN q ELSE q + 1
  BY <1>3, <1>4 DEF HalfEven
<1> QED  BY <1>5 DEF HalfEven, q, r

LEMMA AverageIsExact ==
    ASSUME NEW q \in Int, NEW c \in Nat \ {0}, NEW schedule \in ScheduleType
    PROVE  EstimateFee(q * c, c, schedule) = EstimateFee(q, 1, schedule)
<1> DEFINE rate == schedule.rate
           fixed == schedule.fixed
<1>1. rate \in Int /\ fixed \in Int /\ schedule.cap \subseteq Int
  BY DEF ScheduleType
<1> HIDE DEF rate, fixed
<1>2. ASSUME NEW k \in schedule.cap
      PROVE  (q * c) * rate > k * c * 1000 <=> q * rate > k * 1 * 1000
  <2>1. k \in Int /\ c \in Int /\ c > 0 /\ q * rate - k * 1000 \in Int
    BY <1>1
  <2> DEFINE x == q * rate - k * 1000
  <2>2. (q * c) * rate - k * c * 1000 = x * c /\ (q * c) * rate \in Int /\ k * c * 1000 \in Int
    BY <1>1, <2>1
  <2>3. x * c > 0 <=> x > 0
    <3> HIDE DEF x
    <3>1. x \in Int
      BY <2>1 DEF x
    <3>2. x <= 0 => x * c <= 0
      BY <3>1, <2>1
    <3>3. x > 0 => x * c > 0
      BY <3>1, <2>1
    <3>4. x * c \in Int
      BY <3>1, <2>1
    <3> QED  BY <3>1, <3>2, <3>3, <3>4
  <2>4. q * rate \in Int /\ k * 1000 \in Int /\ k * 1 * 1000 = k * 1000 /\ x * c \in Int
    BY <1>1, <2>1
  <2> QED  BY <2>2, <2>3, <2>4
<1>3. HalfEven(fixed * c * 1000 + (q * c) * rate, c * 1000)
        = HalfEven(fixed * 1 * 1000 + q * rate, 1 * 1000)
  <2>1. /\ fixed * c * 1000 + (q * c) * rate = (fixed * 1000 + q * rate) * c
        /\ c * 1000 = 1000 * c /\ fixed * 1 * 1000 = fixed * 1000 /\ 1 * 1000 = 1000
        /\ fixed * 1000 + q * rate \in Int /\ 1000 \in Nat \ {0}
    BY <1>1
  <2> DEFINE n == fixed * 1000 + q * rate
             d == 1000
  <2>2. n \in Int /\ d \in Nat \ {0}
    BY <2>1
  <2> HIDE DEF n, d
  <2>3. HalfEven(n * c, d * c) = HalfEven(n, d)
    BY <2>2, HalfEvenReduces
  <2> QED  BY <2>1, <2>3 DEF n, d
<1> QED  BY <1>2, <1>3 DEF EstimateFee, rate, fixed

IsCheapest(route, amount, country, wanted) ==
    /\ Supports(route.psp, route.method)
    /\ \A i \in DOMAIN Psps :
          Supports(Psps[i], route.method) =>
              \/ FeeAt(Psps[i], route.method, amount, 1) >= route.fee
              \/ country \in StripePreferred /\ route.psp = "stripe"
              \/ \A j \in DOMAIN Psps : ~Supports(Psps[j], MethodFor(country, wanted))

LEMMA ProvidersAreListed ==
    /\ \A i \in DOMAIN Psps : Psps[i] \in ProviderNames
    /\ \A p \in ProviderNames : \E i \in DOMAIN Psps : Psps[i] = p
    /\ NoPsp \notin ProviderNames
<1>1. DOMAIN Psps = 1..3 /\ Psps[1] = "mollie" /\ Psps[2] = "adyen" /\ Psps[3] = "stripe"
  BY DEF Psps
<1>2. \A i \in DOMAIN Psps : i = 1 \/ i = 2 \/ i = 3
  BY <1>1
<1>3. 1 \in DOMAIN Psps /\ 2 \in DOMAIN Psps /\ 3 \in DOMAIN Psps
  BY <1>1
<1> QED  BY <1>1, <1>2, <1>3 DEF ProviderNames, NoPsp

\* The fallback of find_cheapest_route, and the schedule its second comparison reads.
LEMMA MollieTakesCards == Supports("mollie", "card")
<1>1. FeeSchedules["mollie"] = [ideal |-> Fixed(2900), card |-> Percent(2500, 29),
                                sepa_dd |-> Fixed(3500), bancontact |-> Fixed(2900)]
  BY DEF FeeSchedules
<1> QED  BY <1>1 DEF Supports

LEMMA UncappedIsTheSame ==
    ASSUME NEW method, Supports("mollie", method)
    PROVE  [FeeSchedules["mollie"][method] EXCEPT !.cap = {}] = FeeSchedules["mollie"][method]
<1> DEFINE schedule == FeeSchedules["mollie"][method]
<1>1. "mollie" \in ProviderNames
  BY DEF ProviderNames
<1>2. schedule \in ScheduleType /\ schedule.cap = {}
  BY <1>1, SchedulesAreRight
<1> HIDE DEF schedule
<1>3. [schedule EXCEPT !.cap = {}] = schedule
  BY <1>2 DEF ScheduleType
<1> QED  BY <1>3 DEF schedule

\* What find_cheapest_route returns: the preferred, the cheapest, or the fallback.
LEMMA FoundIsCheapest ==
    ASSUME NEW amount \in Int, NEW country, NEW wanted,
           NEW route, route = FindCheapestRoute(amount, country, wanted)
    PROVE  /\ IsCheapest(route, amount, country, wanted)
           /\ /\ route.psp # DefaultPsp /\ country \notin StripePreferred
              /\ Supports(DefaultPsp, route.method)
              => ~(FeeAt(DefaultPsp, route.method, amount, 1) <= route.fee)
           /\ country \notin StripePreferred /\ Cheapest(MethodFor(country, wanted), amount, 1) # NoPsp
              => route.psp = Cheapest(MethodFor(country, wanted), amount, 1)
<1> DEFINE method == MethodFor(country, wanted)
           best == Cheapest(method, amount, 1)
<1>0. 1 \in Nat \ {0} /\ DefaultPsp = "mollie" /\ DefaultPsp \in ProviderNames /\ "stripe" \in ProviderNames
  BY DEF DefaultPsp, ProviderNames
<1>1. /\ best = NoPsp \/ (best \in ProviderNames /\ Supports(best, method))
      /\ \A p \in ProviderNames : Supports(p, method) =>
            best # NoPsp /\ FeeAt(best, method, amount, 1) <= FeeAt(p, method, amount, 1)
      /\ best # DefaultPsp /\ Supports(DefaultPsp, method) =>
            FeeAt(best, method, amount, 1) < FeeAt(DefaultPsp, method, amount, 1)
  BY <1>0, NoneUndercuts
<1>2. \A p, m, f : Route(p, m, f).psp = p /\ Route(p, m, f).method = m /\ Route(p, m, f).fee = f
  BY DEF Route
<1> HIDE DEF method, best
<1>3. \A p \in ProviderNames : \A m : Supports(p, m) => FeeAt(p, m, amount, 1) \in Int
  BY <1>0, FeesAreWhole
<1>4. CASE country \in StripePreferred /\ Supports("stripe", method)
  <2>1. route = Route("stripe", method, FeeAt("stripe", method, amount, 1))
    BY <1>4, <1>0, ProvidersAreListed DEF FindCheapestRoute, method, best
  <2>2. route.psp = "stripe" /\ route.method = method
    BY <2>1, <1>2
  <2> QED  BY <1>4, <2>2 DEF IsCheapest
<1>5. CASE ~(country \in StripePreferred /\ Supports("stripe", method)) /\ best # NoPsp
  <2>1. route = Route(best, method, FeeAt(best, method, amount, 1))
    BY <1>5 DEF FindCheapestRoute, method, best
  <2>2. route.psp = best /\ route.method = method /\ route.fee = FeeAt(best, method, amount, 1)
    BY <2>1, <1>2
  <2>3. \A i \in DOMAIN Psps : Supports(Psps[i], method) =>
            FeeAt(Psps[i], method, amount, 1) >= FeeAt(best, method, amount, 1)
    BY <1>1, <1>3, <1>5, ProvidersAreListed
  <2>4. Supports(DefaultPsp, method) /\ best # DefaultPsp =>
            ~(FeeAt(DefaultPsp, method, amount, 1) <= FeeAt(best, method, amount, 1))
    <3> SUFFICES ASSUME Supports(DefaultPsp, method), best # DefaultPsp
                 PROVE  ~(FeeAt(DefaultPsp, method, amount, 1) <= FeeAt(best, method, amount, 1))
      OBVIOUS
    <3>1. FeeAt(best, method, amount, 1) \in Int /\ FeeAt(DefaultPsp, method, amount, 1) \in Int
      BY <1>0, <1>1, <1>3, <1>5
    <3>2. FeeAt(best, method, amount, 1) < FeeAt(DefaultPsp, method, amount, 1)
      BY <1>1
    <3> QED  BY <3>1, <3>2
  <2> QED  BY <1>1, <1>5, <2>2, <2>3, <2>4 DEF IsCheapest, method, best
<1>6. CASE ~(country \in StripePreferred /\ Supports("stripe", method)) /\ best = NoPsp
  <2>1. route = Route(DefaultPsp, "card", FeeAt(DefaultPsp, "card", amount, 1))
    BY <1>6 DEF FindCheapestRoute, method, best
  <2>2. route.psp = DefaultPsp /\ route.method = "card"
    BY <2>1, <1>2
  <2>3. \A j \in DOMAIN Psps : ~Supports(Psps[j], method)
    BY <1>1, <1>6, ProvidersAreListed
  <2>4. Supports(route.psp, route.method)
    BY <2>2, <1>0, MollieTakesCards
  <2> QED  BY <1>6, <2>2, <2>3, <2>4 DEF IsCheapest, method, best
<1> QED  BY <1>4, <1>5, <1>6

\* Why the second comparison of route_payment is idle: outside the countries that prefer
\* Stripe, Mollie was among the providers compared, and a tie went to it already.
LEMMA DefaultNeverTakesOver ==
    ASSUME NEW amount \in Int, NEW country, NEW wanted
    PROVE  RoutePayment(amount, country, wanted) = FindCheapestRoute(amount, country, wanted)
<1> DEFINE route == FindCheapestRoute(amount, country, wanted)
           uncapped == [FeeSchedules[DefaultPsp][route.method] EXCEPT !.cap = {}]
<1>1. ASSUME route.psp # DefaultPsp, country \notin StripePreferred, Supports(DefaultPsp, route.method)
      PROVE  ~(EstimateFee(amount, 1, uncapped) <= route.fee)
  <2>1. uncapped = FeeSchedules[DefaultPsp][route.method]
    BY <1>1, UncappedIsTheSame DEF DefaultPsp
  <2>2. EstimateFee(amount, 1, uncapped) = FeeAt(DefaultPsp, route.method, amount, 1)
    BY <2>1 DEF FeeAt
  <2>3. ~(FeeAt(DefaultPsp, route.method, amount, 1) <= route.fee)
    BY <1>1, FoundIsCheapest
  <2> QED  BY <2>2, <2>3
<1> QED  BY <1>1 DEF RoutePayment

\* A recommendation routes by the method of its group: no provider has a method "".
LEMMA MethodsAreNamed == \A p \in ProviderNames : ~Supports(p, "")
<1>1. /\ FeeSchedules["mollie"] = [ideal |-> Fixed(2900), card |-> Percent(2500, 29),
                                  sepa_dd |-> Fixed(3500), bancontact |-> Fixed(2900)]
      /\ FeeSchedules["adyen"] = [ideal |-> Fixed(2200), card |-> Percent(2000, 22), sepa_dd |-> Fixed(3000)]
      /\ FeeSchedules["stripe"] = [card |-> Percent(3000, 29),
                                  ach |-> [fixed |-> 0, rate |-> 8, cap |-> {50000}],
                                  sepa_dd |-> Fixed(5000)]
  BY DEF FeeSchedules
<1>2. ~Supports("mollie", "")
  BY <1>1 DEF Supports
<1>3. ~Supports("adyen", "")
  BY <1>1 DEF Supports
<1>4. ~Supports("stripe", "")
  BY <1>1 DEF Supports
<1> QED  BY <1>2, <1>3, <1>4 DEF ProviderNames

LEMMA WholeQuotient ==
    ASSUME NEW n \in Int, NEW d \in Nat \ {0}, n % d = 0
    PROVE  n \div d \in Int /\ n = (n \div d) * d
<1>1. n = d * (n \div d) + (n % d) /\ n \div d \in Int
  OBVIOUS
<1> QED  BY <1>1

\* A recommendation is the cheapest provider for the average payment, and saves.
LEMMA AdviceIsRouted ==
    ASSUME NEW group \in PaymentGroups, NEW advice \in Recommendations(group)
    PROVE  /\ advice.psp # group.psp /\ advice.savings > 0 /\ advice.fees <= group.fees
           /\ group.volume % group.count = 0 =>
                 RoutePayment(group.volume \div group.count, "NL", group.method).psp = advice.psp
<1> DEFINE c == group.count
           method == group.method
           best == Cheapest(method, group.volume, c)
           fee == FeeAt(best, method, group.volume, c)
           fees == c * fee
<1>1. c \in Nat \ {0} /\ group.volume \in Int /\ group.fees \in Int
  BY RoutingAssumption
<1>2. /\ best # NoPsp /\ best # group.psp /\ group.fees - fees > 0
      /\ advice.psp = best /\ advice.fees = fees /\ advice.savings = group.fees - fees
  BY DEF Recommendations
<1>3. best \in ProviderNames /\ Supports(best, method)
  <2> HIDE DEF c, best
  <2> QED  BY <1>1, <1>2, NoneUndercuts DEF best
<1>4. fees \in Int
  <2>1. fee \in Int
    <3> HIDE DEF c, best
    <3> QED  BY <1>1, <1>3, FeesAreWhole
  <2> HIDE DEF fee, c
  <2> QED  BY <1>1, <2>1
<1>5. ASSUME group.volume % c = 0
      PROVE  RoutePayment(group.volume \div c, "NL", method).psp = best
  <2> DEFINE q == group.volume \div c
  <2>1. q \in Int /\ group.volume = q * c
    <3> HIDE DEF c
    <3> QED  BY <1>1, <1>5, WholeQuotient
  <2>2. \A p \in ProviderNames : Supports(p, method) =>
            FeeAt(p, method, q, 1) = FeeAt(p, method, group.volume, c)
    <3> SUFFICES ASSUME NEW p \in ProviderNames, Supports(p, method)
                 PROVE  FeeAt(p, method, q, 1) = FeeAt(p, method, group.volume, c)
      OBVIOUS
    <3>1. FeeSchedules[p][method] \in ScheduleType
      BY SchedulesAreRight
    <3> HIDE DEF c, q
    <3>2. EstimateFee(q * c, c, FeeSchedules[p][method]) = EstimateFee(q, 1, FeeSchedules[p][method])
      BY <1>1, <2>1, <3>1, AverageIsExact
    <3> QED  BY <2>1, <3>2 DEF FeeAt
  <2>3. Cheapest(method, q, 1) = best
    BY <2>2, CheapestByFees
  <2>4. MethodFor("NL", method) = method
    <3> HIDE DEF best
    <3> QED  BY <1>3, MethodsAreNamed DEF MethodFor
  <2>5. "NL" \notin StripePreferred
    BY DEF StripePreferred
  <2>6. FindCheapestRoute(q, "NL", method).psp = best
    <3> HIDE DEF q, best
    <3> QED  BY <1>2, <2>1, <2>3, <2>4, <2>5, FoundIsCheapest
  <2> QED  BY <2>1, <2>6, DefaultNeverTakesOver
<1>6. fees <= group.fees
  <2> HIDE DEF fees
  <2> QED  BY <1>1, <1>2, <1>4
<1> QED  BY <1>2, <1>5, <1>6

\* find_cheapest_route and route_payment choose a provider that supports the method and is
\* undercut by none, up to the preference and the fallback, and get_recommendations names
\* the same provider.  Whatever the amounts, countries, methods and groups of payments.
THEOREM RoutesAreAlwaysCheapest == CalculationSpec => []RoutesAreCheapest
<1>1. CalculationInit => RoutesAreCheapest
  BY DEF CalculationInit, RoutesAreCheapest
<1>2. RoutesAreCheapest /\ [CalculationNext]_call => RoutesAreCheapest'
  <2>1. RouteOne => RoutesAreCheapest'
    <3> SUFFICES ASSUME NEW amount \in Amounts, NEW country, NEW method,
                        call' = [op |-> "route", amount |-> amount, country |-> country,
                                 method |-> method, answer |-> RoutePayment(amount, country, method)]
                 PROVE  RoutesAreCheapest'
      BY DEF RouteOne
    <3> DEFINE answer == RoutePayment(amount, country, method)
    <3>1. amount \in Int
      BY RoutingAssumption
    <3>2. answer = FindCheapestRoute(amount, country, method) /\ IsCheapest(answer, amount, country, method)
      BY <3>1, FoundIsCheapest, DefaultNeverTakesOver
    <3> HIDE DEF answer
    <3>3. /\ call'.op = "route" /\ call'.amount = amount /\ call'.country = country
          /\ call'.method = method /\ call'.answer = answer
      BY DEF answer
    <3> QED  BY <3>2, <3>3 DEF RoutesAreCheapest, IsCheapest
  <2>2. Recommend => RoutesAreCheapest'
    <3> SUFFICES ASSUME NEW group \in PaymentGroups,
                        call' = [op |-> "recommend", group |-> group, answer |-> Recommendations(group)]
                 PROVE  RoutesAreCheapest'
      BY DEF Recommend
    <3>1. call'.op = "recommend" /\ call'.group = group /\ call'.answer = Recommendations(group)
      OBVIOUS
    <3>2. \A advice \in Recommendations(group) :
             /\ advice.psp # group.psp /\ advice.savings > 0 /\ advice.fees <= group.fees
             /\ group.volume % group.count = 0 =>
                   RoutePayment(group.volume \div group.count, "NL", group.method).psp = advice.psp
      BY AdviceIsRouted
    <3> QED  BY <3>1, <3>2 DEF RoutesAreCheapest
  <2>3. UNCHANGED call /\ RoutesAreCheapest => RoutesAreCheapest'
    BY DEF RoutesAreCheapest
  <2> QED  BY <2>1, <2>2, <2>3, CallIsNamed DEF CalculationNext, RoutesAreCheapest
<1> QED  BY <1>1, <1>2, PTL DEF CalculationSpec

-----------------------------------------------------------------------------
(* Policies *)

\* A list of policy rules: a sequence whose priorities are numbers.
IsRuleList(rules, n) ==
    /\ n \in Nat
    /\ DOMAIN rules = 1..n
    /\ \A i \in 1..n : rules[i].priority \in Int

Earlier(rules, i) == {j \in DOMAIN rules : Before(rules, j, i)}

Rank(rules, i) == Cardinality(Earlier(rules, i)) + 1

\* The order of evaluation: by priority, and by place where priorities are equal.
LEMMA RanksAreRight ==
    ASSUME NEW rules, NEW n, IsRuleList(rules, n)
    PROVE  /\ \A i \in 1..n : Rank(rules, i) \in 1..n
           /\ \A i, j \in 1..n : Before(rules, i, j) => Rank(rules, i) < Rank(rules, j)
           /\ \A i, j \in 1..n : i # j => Before(rules, i, j) \/ Before(rules, j, i)
<1> DEFINE priority(i) == rules[i].priority
           earlier(i) == Earlier(rules, i)
<1>1. /\ n \in Nat /\ IsFiniteSet(1..n) /\ Cardinality(1..n) = n
      /\ \A i \in 1..n : earlier(i) \in SUBSET (1..n) /\ i \notin earlier(i)
  <2>1. n \in Nat /\ DOMAIN rules = 1..n /\ \A i \in 1..n : priority(i) \in Int
    BY DEF IsRuleList
  <2>2. IsFiniteSet(1..n) /\ Cardinality(1..n) = n
    BY <2>1, FS_Interval
  <2>3. \A i \in 1..n : i \notin earlier(i)
    BY <2>1 DEF Earlier, Before
  <2> QED  BY <2>1, <2>2, <2>3 DEF Earlier
<1>2. \A i, j \in 1..n : i # j => Before(rules, i, j) \/ Before(rules, j, i)
  BY DEF IsRuleList, Before
<1>3. \A i, j \in 1..n : Before(rules, i, j) => earlier(i) \subseteq earlier(j) /\ i \in earlier(j)
  BY DEF IsRuleList, Before, Earlier
<1> HIDE DEF earlier
<1>4. \A i \in 1..n : IsFiniteSet(earlier(i)) /\ Cardinality(earlier(i)) \in 0..(n - 1)
  <2> SUFFICES ASSUME NEW i \in 1..n
               PROVE  IsFiniteSet(earlier(i)) /\ Cardinality(earlier(i)) \in 0..(n - 1)
    OBVIOUS
  <2>1. IsFiniteSet(earlier(i)) /\ Cardinality(earlier(i)) \in Nat /\ Cardinality(earlier(i)) <= n
    BY <1>1, FS_Subset, FS_CardinalityType
  <2>2. Cardinality(earlier(i)) # n
    <3>1. Cardinality(1..n) = Cardinality(earlier(i)) => 1..n = earlier(i)
      BY <1>1, FS_Subset
    <3> QED  BY <1>1, <3>1
  <2> QED  BY <1>1, <2>1, <2>2
<1>5. \A i, j \in 1..n : Before(rules, i, j) => Cardinality(earlier(i)) < Cardinality(earlier(j))
  <2> SUFFICES ASSUME NEW i \in 1..n, NEW j \in 1..n, Before(rules, i, j)
               PROVE  Cardinality(earlier(i)) < Cardinality(earlier(j))
    OBVIOUS
  <2>1. earlier(i) \in SUBSET earlier(j) /\ earlier(i) # earlier(j)
    BY <1>1, <1>3
  <2>2. /\ Cardinality(earlier(i)) <= Cardinality(earlier(j))
        /\ Cardinality(earlier(i)) # Cardinality(earlier(j))
    BY <1>4, <2>1, FS_Subset
  <2> QED  BY <1>4, <2>2
<1>6. \A i \in 1..n : Rank(rules, i) = Cardinality(earlier(i)) + 1
  BY DEF Rank, earlier
<1> HIDE DEF earlier
<1>7. \A i \in 1..n : Rank(rules, i) \in 1..n
  BY <1>1, <1>4, <1>6
<1>8. \A i, j \in 1..n : Before(rules, i, j) => Rank(rules, i) < Rank(rules, j)
  BY <1>4, <1>5, <1>6
<1> QED  BY <1>2, <1>7, <1>8

\* Sorting by priority visits every rule once, an earlier one before a later one.
SortedAs(rules, n, order) ==
    /\ n \in Nat /\ order \in [1..n -> 1..n]
    /\ \A i \in 1..n : \E k \in 1..n : order[k] = i
    /\ \A k, l \in 1..n : k < l => Before(rules, order[k], order[l])

\* ByPriority lists every rule once, in that order: ranks are a bijection.
LEMMA OrderIsRight ==
    ASSUME NEW rules, NEW n, IsRuleList(rules, n)
    PROVE  SortedAs(rules, n, ByPriority(rules))
<1> DEFINE rank == [i \in 1..n |-> Rank(rules, i)]
           order == ByPriority(rules)
<1>1. /\ n \in Nat /\ DOMAIN rules = 1..n /\ IsFiniteSet(1..n)
  BY FS_Interval DEF IsRuleList
<1>2. /\ rank \in [1..n -> 1..n]
      /\ \A i, j \in 1..n : Before(rules, i, j) => rank[i] < rank[j]
      /\ \A i, j \in 1..n : i # j => Before(rules, i, j) \/ Before(rules, j, i)
  BY RanksAreRight
<1>3. \A i, j \in 1..n : rank[i] = rank[j] => i = j
  <2> HIDE DEF rank
  <2> SUFFICES ASSUME NEW i \in 1..n, NEW j \in 1..n, rank[i] = rank[j], i # j PROVE FALSE
    OBVIOUS
  <2>1. rank[i] \in Int /\ rank[j] \in Int /\ (rank[i] < rank[j] \/ rank[j] < rank[i])
    BY <1>1, <1>2
  <2> QED  BY <2>1
<1>4. \A k \in 1..n : \E i \in 1..n : rank[i] = k
  <2> HIDE DEF rank
  <2>1. rank \in Injection(1..n, 1..n)
    BY <1>2, <1>3 DEF Injection, IsInjective
  <2>2. rank \in Surjection(1..n, 1..n)
    BY <1>1, <2>1, FS_Injection
  <2> QED  BY <2>2 DEF Surjection
<1>5. \A k \in 1..n : order[k] \in 1..n /\ rank[order[k]] = k
  <2> SUFFICES ASSUME NEW k \in 1..n PROVE order[k] \in 1..n /\ rank[order[k]] = k
    OBVIOUS
  <2>1. order[k] = CHOOSE i \in 1..n : Cardinality(Earlier(rules, i)) = k - 1
    BY <1>1 DEF ByPriority, Earlier
  <2>2. \A i \in 1..n : rank[i] = k => Cardinality(Earlier(rules, i)) = k - 1
    <3> SUFFICES ASSUME NEW i \in 1..n, rank[i] = k PROVE Cardinality(Earlier(rules, i)) = k - 1
      OBVIOUS
    <3>1. Earlier(rules, i) \in SUBSET (1..n)
      BY <1>1 DEF Earlier
    <3>2. Cardinality(Earlier(rules, i)) \in Nat
      BY <1>1, <3>1, FS_Subset, FS_CardinalityType
    <3> QED  BY <3>2 DEF Rank
  <2>3. order[k] \in 1..n /\ Cardinality(Earlier(rules, order[k])) = k - 1
    BY <1>4, <2>1, <2>2
  <2> QED  BY <1>1, <2>3 DEF Rank
<1>6. order \in [1..n -> 1..n]
  BY <1>1, <1>5 DEF ByPriority
<1> HIDE DEF rank, order
<1>7. \A i \in 1..n : \E k \in 1..n : order[k] = i
  BY <1>2, <1>3, <1>5
<1>8. ASSUME NEW k \in 1..n, NEW l \in 1..n, k < l
      PROVE  Before(rules, order[k], order[l])
  <2>1. order[k] \in 1..n /\ order[l] \in 1..n /\ rank[order[k]] = k /\ rank[order[l]] = l /\ k # l
    BY <1>5, <1>8
  <2>2. order[k] # order[l] /\ ~(rank[order[l]] < rank[order[k]])
    BY <1>8, <2>1
  <2> QED  BY <1>2, <2>1, <2>2
<1> QED  BY <1>1, <1>6, <1>7, <1>8 DEF SortedAs, order

\* What evaluate and evaluate_all do at a rule.
Found(context, rules, found, i) ==
    IF \/ found.action = "reject"
       \/ ~EvaluateConditions(rules[i].conditions, context)
       \/ found.matched /\ rules[i].action # "reject"
    THEN found
    ELSE [rule |-> i, action |-> rules[i].action, matched |-> TRUE]

Collected(context, rules, all, i) ==
    IF EvaluateConditions(rules[i].conditions, context) THEN Append(all, i) ELSE all

Visits(context, rules, order) ==
    CHOOSE g : g = [s \in SUBSET (DOMAIN order) |->
        IF s = {} THEN Unmatched ELSE Found(context, rules, g[s \ {Max(s)}], order[Max(s)])]

Collections(context, rules, order) ==
    CHOOSE g : g = [s \in SUBSET (DOMAIN order) |->
        IF s = {} THEN <<>> ELSE Collected(context, rules, g[s \ {Max(s)}], order[Max(s)])]

\* The two loops over the rules, as folds.
LEMMA VerdictIsVisited ==
    \A context, rules :
        Evaluate(context, rules) = Visits(context, rules, ByPriority(rules))[DOMAIN ByPriority(rules)]
BY DEF Evaluate, FoldLeft, MapThenFoldSet, Visits, Found

LEMMA AllIsCollected ==
    \A context, rules :
        EvaluateAll(context, rules)
            = Collections(context, rules, ByPriority(rules))[DOMAIN ByPriority(rules)]
BY DEF EvaluateAll, FoldLeft, MapThenFoldSet, Collections, Collected

VerdictOf(rules, i) == [rule |-> i, action |-> rules[i].action, matched |-> TRUE]

IsOrder(order, n) == n \in Nat /\ order \in [1..n -> 1..n]

VisitsInOrder(context, rules, order, n) ==
    /\ Visits(context, rules, order)[1..0] = Unmatched
    /\ \A k \in 1..n : Visits(context, rules, order)[1..k] =
          Found(context, rules, Visits(context, rules, order)[1..(k - 1)], order[k])

\* Each round of evaluate takes the verdict of the round before and the next rule.
LEMMA VisitsStep ==
    ASSUME NEW context, NEW rules, NEW n, NEW order, IsOrder(order, n)
    PROVE  VisitsInOrder(context, rules, order, n)
<1> DEFINE Verdicts == {Unmatched} \union {VerdictOf(rules, i) : i \in 1..n}
           F == [x \in Verdicts \X (1..n) |-> Found(context, rules, x[1], order[x[2]])]
           visit == Visits(context, rules, order)
<1>0. n \in Nat /\ order \in [1..n -> 1..n] /\ DOMAIN order = 1..n
  BY DEF IsOrder
<1>1. \A v \in Verdicts : \A i \in 1..n : Found(context, rules, v, order[i]) \in Verdicts
  BY <1>0 DEF Found, VerdictOf
<1>2. \A v \in Verdicts : \A i \in 1..n : F[<<v, i>>] = Found(context, rules, v, order[i])
  <2> HIDE DEF Verdicts
  <2> QED  OBVIOUS
<1>3. PICK g : Folds(n, F, Unmatched, Verdicts, g, n)
  <2>1. Unmatched \in Verdicts
    OBVIOUS
  <2> HIDE DEF F, Verdicts
  <2> QED  BY <1>0, <1>1, <1>2, <2>1, FoldsExist
<1> HIDE DEF Verdicts
<1>4. g = [s \in SUBSET (1..n) |->
             IF s = {} THEN Unmatched ELSE Found(context, rules, g[s \ {Max(s)}], order[Max(s)])]
  <2> HIDE DEF F
  <2>1. \A s \in SUBSET (1..n) : s # {} => Max(s) \in 1..n /\ s \ {Max(s)} \in SUBSET (1..n)
    BY <1>0, LastIndex
  <2>2. \A s \in SUBSET (1..n) : s # {} => g[s] = Found(context, rules, g[s \ {Max(s)}], order[Max(s)])
    BY <1>2, <1>3, <2>1 DEF Folds
  <2>3. g[{}] = Unmatched /\ g \in [SUBSET (1..n) -> Verdicts]
    BY <1>3 DEF Folds
  <2> QED  BY <2>2, <2>3
<1>5. visit = [s \in SUBSET (1..n) |->
             IF s = {} THEN Unmatched ELSE Found(context, rules, visit[s \ {Max(s)}], order[Max(s)])]
  BY <1>0, <1>4 DEF Visits
<1> HIDE DEF visit
<1>6. visit[1..0] = Unmatched
  <2>1. 1..0 = {} /\ 1..0 \in SUBSET (1..n)
    OBVIOUS
  <2> QED  BY <1>5, <2>1
<1>7. ASSUME NEW k \in 1..n
      PROVE  visit[1..k] = Found(context, rules, visit[1..(k - 1)], order[k])
  <2>1. /\ 1..k \in SUBSET (1..n) /\ 1..k # {}
        /\ Max(1..k) = k /\ (1..k) \ {k} = 1..(k - 1)
    BY <1>0, LastOfPrefix
  <2> QED  BY <1>5, <2>1
<1> QED  BY <1>6, <1>7 DEF visit, VisitsInOrder

CollectedInOrder(context, rules, order, n) ==
    /\ Collections(context, rules, order)[1..0] = <<>>
    /\ \A k \in 1..n : Collections(context, rules, order)[1..k] =
          Collected(context, rules, Collections(context, rules, order)[1..(k - 1)], order[k])

\* And each round of evaluate_all the list of the round before.
LEMMA CollectionsStep ==
    ASSUME NEW context, NEW rules, NEW n, NEW order, IsOrder(order, n)
    PROVE  CollectedInOrder(context, rules, order, n)
<1> DEFINE Lists == Seq(1..n)
           F == [x \in Lists \X (1..n) |-> Collected(context, rules, x[1], order[x[2]])]
           collect == Collections(context, rules, order)
<1>0. n \in Nat /\ order \in [1..n -> 1..n] /\ DOMAIN order = 1..n
  BY DEF IsOrder
<1>1. \A v \in Lists : \A i \in 1..n : Collected(context, rules, v, order[i]) \in Lists
  <2>1. \A v \in Seq(1..n) : \A i \in 1..n : Append(v, i) \in Seq(1..n)
    OBVIOUS
  <2>2. \A i \in 1..n : order[i] \in 1..n
    BY <1>0
  <2> QED  BY <2>1, <2>2 DEF Collected
<1>2. \A v \in Lists : \A i \in 1..n : F[<<v, i>>] = Collected(context, rules, v, order[i])
  <2> HIDE DEF Lists
  <2> QED  OBVIOUS
<1>3. PICK g : Folds(n, F, <<>>, Lists, g, n)
  <2>1. <<>> \in Lists
    OBVIOUS
  <2> HIDE DEF F, Lists
  <2> QED  BY <1>0, <1>1, <1>2, <2>1, FoldsExist
<1> HIDE DEF Lists
<1>4. g = [s \in SUBSET (1..n) |->
             IF s = {} THEN <<>> ELSE Collected(context, rules, g[s \ {Max(s)}], order[Max(s)])]
  <2> HIDE DEF F
  <2>1. \A s \in SUBSET (1..n) : s # {} => Max(s) \in 1..n /\ s \ {Max(s)} \in SUBSET (1..n)
    BY <1>0, LastIndex
  <2>2. \A s \in SUBSET (1..n) : s # {} => g[s] = Collected(context, rules, g[s \ {Max(s)}], order[Max(s)])
    BY <1>2, <1>3, <2>1 DEF Folds
  <2>3. g[{}] = <<>> /\ g \in [SUBSET (1..n) -> Lists]
    BY <1>3 DEF Folds
  <2> QED  BY <2>2, <2>3
<1>5. collect = [s \in SUBSET (1..n) |->
             IF s = {} THEN <<>> ELSE Collected(context, rules, collect[s \ {Max(s)}], order[Max(s)])]
  BY <1>0, <1>4 DEF Collections
<1> HIDE DEF collect
<1>6. collect[1..0] = <<>>
  <2>1. 1..0 = {} /\ 1..0 \in SUBSET (1..n)
    OBVIOUS
  <2> QED  BY <1>5, <2>1
<1>7. ASSUME NEW k \in 1..n
      PROVE  collect[1..k] = Collected(context, rules, collect[1..(k - 1)], order[k])
  <2>1. /\ 1..k \in SUBSET (1..n) /\ 1..k # {}
        /\ Max(1..k) = k /\ (1..k) \ {k} = 1..(k - 1)
    BY <1>0, LastOfPrefix
  <2> QED  BY <1>5, <2>1
<1> QED  BY <1>6, <1>7 DEF collect, CollectedInOrder

Applies(context, rules, i) == EvaluateConditions(rules[i].conditions, context)

\* What evaluate has found after k of the sorted rules: no match; the first reject;
\* or, when no rule that matches rejects, the first match.
FoundAfter(context, rules, order, k, found) ==
    \/ found = Unmatched /\ \A l \in 1..k : ~Applies(context, rules, order[l])
    \/ \E m \in 1..k :
          /\ found = VerdictOf(rules, order[m])
          /\ Applies(context, rules, order[m])
          /\ IF rules[order[m]].action = "reject"
             THEN \A l \in 1..k :
                     Applies(context, rules, order[l]) /\ rules[order[l]].action = "reject" => m <= l
             ELSE \A l \in 1..k : Applies(context, rules, order[l]) =>
                                      rules[order[l]].action # "reject" /\ m <= l

\* After k rounds: the first reject, or else the first match, or no verdict.
LEMMA TheFirstIsFound ==
    ASSUME NEW context, NEW rules, NEW n, NEW order, IsOrder(order, n)
    PROVE  FoundAfter(context, rules, order, n, Visits(context, rules, order)[1..n])
<1> DEFINE visit(k) == Visits(context, rules, order)[1..k]
           Bad == {k \in 0..n : ~FoundAfter(context, rules, order, k, visit(k))}
<1>1. /\ visit(0) = Unmatched
      /\ \A k \in 1..n : visit(k) = Found(context, rules, visit(k - 1), order[k])
  <2> HIDE DEF Bad
  <2>1. VisitsInOrder(context, rules, order, n)
    BY VisitsStep
  <2> QED  BY <2>1 DEF VisitsInOrder
<1>0. n \in Nat
  BY DEF IsOrder
<1> HIDE DEF visit
<1>2. FoundAfter(context, rules, order, 0, visit(0))
  BY <1>1 DEF FoundAfter
<1>3. ASSUME NEW k \in 1..n, FoundAfter(context, rules, order, k - 1, visit(k - 1))
      PROVE  FoundAfter(context, rules, order, k, visit(k))
  <2> DEFINE old == visit(k - 1)
             new == visit(k)
             applies(l) == Applies(context, rules, order[l])
             rejects(l) == rules[order[l]].action = "reject"
             verdict(l) == VerdictOf(rules, order[l])
             After(found) ==
                \/ found = Unmatched /\ \A l \in 1..k : ~applies(l)
                \/ \E m \in 1..k :
                      /\ found = verdict(m)
                      /\ applies(m)
                      /\ IF rejects(m) THEN \A l \in 1..k : applies(l) /\ rejects(l) => m <= l
                         ELSE \A l \in 1..k : applies(l) => ~rejects(l) /\ m <= l
  <2>1. new = IF old.action = "reject" \/ ~applies(k) \/ (old.matched /\ ~rejects(k))
              THEN old ELSE verdict(k)
    BY <1>1 DEF Found, Applies, VerdictOf
  <2>2. \A l : verdict(l).matched = TRUE /\ (verdict(l).action = "reject" <=> rejects(l))
    BY DEF VerdictOf
  <2>3. Unmatched.action # "reject" /\ Unmatched.matched = FALSE
    BY DEF Unmatched
  <2>4. \/ old = Unmatched /\ \A l \in 1..(k - 1) : ~applies(l)
        \/ \E m \in 1..(k - 1) :
              /\ old = verdict(m)
              /\ applies(m)
              /\ IF rejects(m) THEN \A l \in 1..(k - 1) : applies(l) /\ rejects(l) => m <= l
                 ELSE \A l \in 1..(k - 1) : applies(l) => ~rejects(l) /\ m <= l
    BY <1>3 DEF FoundAfter
  <2> HIDE DEF old, new, applies, rejects, verdict
  <2>5. k \in 1..k /\ k \in Int /\ \A l \in 1..k : l = k \/ l \in 1..(k - 1)
    BY <1>0
  <2>6. After(new)
    <3>1. CASE old = Unmatched /\ \A l \in 1..(k - 1) : ~applies(l)
      <4>1. CASE applies(k)
        <5>1. new = verdict(k)
          BY <2>1, <2>3, <3>1, <4>1
        <5>2. \A l \in 1..k : applies(l) => l = k
          BY <2>5, <3>1
        <5> QED  BY <2>5, <4>1, <5>1, <5>2
      <4>2. CASE ~applies(k)
        BY <2>1, <2>5, <3>1, <4>2
      <4> QED  BY <4>1, <4>2
    <3>2. ASSUME NEW m \in 1..(k - 1), old = verdict(m), applies(m),
                 IF rejects(m) THEN \A l \in 1..(k - 1) : applies(l) /\ rejects(l) => m <= l
                 ELSE \A l \in 1..(k - 1) : applies(l) => ~rejects(l) /\ m <= l
          PROVE  After(new)
      <4>1. m \in 1..k /\ m <= k
        BY <1>0
      <4>2. CASE rejects(m)
        <5>1. new = verdict(m)
          BY <2>1, <2>2, <3>2, <4>2
        <5> QED  BY <2>5, <3>2, <4>1, <4>2, <5>1
      <4>3. CASE ~rejects(m) /\ applies(k) /\ rejects(k)
        <5>1. new = verdict(k)
          BY <2>1, <2>2, <3>2, <4>3
        <5>2. \A l \in 1..k : applies(l) /\ rejects(l) => l = k
          BY <2>5, <3>2, <4>3
        <5> QED  BY <2>5, <4>3, <5>1, <5>2
      <4>4. CASE ~rejects(m) /\ ~(applies(k) /\ rejects(k))
        <5>1. new = verdict(m)
          BY <2>1, <2>2, <3>2, <4>4
        <5>2. \A l \in 1..k : applies(l) => ~rejects(l) /\ m <= l
          BY <2>5, <3>2, <4>1, <4>4
        <5> QED  BY <3>2, <4>1, <4>4, <5>1, <5>2
      <4> QED  BY <4>2, <4>3, <4>4
    <3> QED  BY <2>4, <3>1, <3>2
  <2> HIDE DEF After
  <2>7. FoundAfter(context, rules, order, k, new) <=> After(new)
    BY DEF FoundAfter, After, applies, rejects, verdict
  <2> QED  BY <2>6, <2>7 DEF new
<1>4. Bad = {}
  <2> SUFFICES ASSUME Bad # {} PROVE FALSE
    OBVIOUS
  <2>1. PICK k \in Bad : \A m \in Bad : k <= m
    <3>1. Bad \subseteq Nat
      BY <1>0
    <3> HIDE DEF Bad
    <3> QED  BY <3>1, LeastNat
  <2>2. k \in 1..n
    BY <1>0, <1>2
  <2>3. k - 1 \in 0..n /\ k - 1 \notin Bad
    <3> HIDE DEF Bad
    <3> QED  BY <1>0, <2>1, <2>2
  <2> QED  BY <1>3, <2>2, <2>3
<1> QED  BY <1>0, <1>4 DEF visit

LEMMA Appended ==
    ASSUME NEW S, NEW v \in Seq(S), NEW x \in S
    PROVE  /\ Append(v, x) \in Seq(S) /\ Append(v, x) # <<>>
           /\ Range(Append(v, x)) = Range(v) \union {x}
           /\ IF v = <<>> THEN Head(Append(v, x)) = x ELSE Head(Append(v, x)) = Head(v)
<1>1. /\ Append(v, x) \in Seq(S) /\ Len(Append(v, x)) = Len(v) + 1 /\ Len(v) \in Nat
      /\ DOMAIN v = 1..Len(v) /\ DOMAIN Append(v, x) = 1..(Len(v) + 1)
      /\ \A i \in 1..Len(v) : Append(v, x)[i] = v[i]
      /\ Append(v, x)[Len(v) + 1] = x
  OBVIOUS
<1>2. Range(Append(v, x)) = Range(v) \union {x}
  <2>1. \A i \in 1..(Len(v) + 1) : i = Len(v) + 1 \/ i \in 1..Len(v)
    BY <1>1
  <2>2. 1..Len(v) \subseteq 1..(Len(v) + 1) /\ Len(v) + 1 \in 1..(Len(v) + 1)
    BY <1>1
  <2> QED  BY <1>1, <2>1, <2>2 DEF Range
<1>3. Append(v, x) # <<>>
  BY <1>1
<1>4. CASE v = <<>>
  <2>1. Len(v) = 0
    BY <1>4
  <2>2. Head(Append(v, x)) = x
    BY <1>1, <1>3, <2>1
  <2> QED  BY <1>1, <1>2, <1>3, <1>4, <2>2
<1>5. CASE v # <<>>
  <2>1. Len(v) >= 1 /\ 1 \in 1..Len(v)
    BY <1>5
  <2>2. Head(Append(v, x)) = Append(v, x)[1] /\ Head(v) = v[1]
    BY <1>1, <1>3, <1>5
  <2> QED  BY <1>1, <1>2, <1>3, <1>5, <2>1, <2>2
<1> QED  BY <1>4, <1>5

\* What evaluate_all has collected after k of the sorted rules.
CollectedAfter(context, rules, order, n, k, all) ==
    /\ all \in Seq(1..n)
    /\ Range(all) = {order[l] : l \in {h \in 1..k : Applies(context, rules, order[h])}}
    /\ all # <<>> =>
          \E m \in 1..k :
             /\ Head(all) = order[m]
             /\ Applies(context, rules, order[m])
             /\ \A l \in 1..k : Applies(context, rules, order[l]) => m <= l

\* After k rounds the matching rules are listed, each once, the first one first.
LEMMA AllAreCollected ==
    ASSUME NEW context, NEW rules, NEW n, NEW order, IsOrder(order, n)
    PROVE  CollectedAfter(context, rules, order, n, n, Collections(context, rules, order)[1..n])
<1> DEFINE collect(k) == Collections(context, rules, order)[1..k]
           Bad == {k \in 0..n : ~CollectedAfter(context, rules, order, n, k, collect(k))}
<1>1. /\ collect(0) = <<>>
      /\ \A k \in 1..n : collect(k) = Collected(context, rules, collect(k - 1), order[k])
  <2> HIDE DEF Bad
  <2>1. CollectedInOrder(context, rules, order, n)
    BY CollectionsStep
  <2> QED  BY <2>1 DEF CollectedInOrder
<1>0. n \in Nat /\ order \in [1..n -> 1..n]
  BY DEF IsOrder
<1> HIDE DEF collect
<1>2. CollectedAfter(context, rules, order, n, 0, collect(0))
  <2>1. <<>> \in Seq(1..n) /\ Range(<<>>) = {}
    BY DEF Range
  <2>2. {order[l] : l \in {h \in 1..0 : Applies(context, rules, order[h])}} = {}
    OBVIOUS
  <2> QED  BY <1>1, <2>1, <2>2 DEF CollectedAfter
<1>3. ASSUME NEW k \in 1..n, CollectedAfter(context, rules, order, n, k - 1, collect(k - 1))
      PROVE  CollectedAfter(context, rules, order, n, k, collect(k))
  <2> DEFINE old == collect(k - 1)
             new == collect(k)
             applies(l) == Applies(context, rules, order[l])
  <2>1. new = IF applies(k) THEN Append(old, order[k]) ELSE old
    BY <1>1 DEF Collected, Applies
  <2>2. /\ old \in Seq(1..n)
        /\ Range(old) = {order[l] : l \in {h \in 1..(k - 1) : applies(h)}}
        /\ old # <<>> =>
              \E m \in 1..(k - 1) :
                 Head(old) = order[m] /\ applies(m) /\ \A l \in 1..(k - 1) : applies(l) => m <= l
    BY <1>3 DEF CollectedAfter
  <2>3. /\ k \in 1..k /\ k \in Int /\ order[k] \in 1..n
        /\ \A l \in 1..k : l = k \/ l \in 1..(k - 1)
        /\ \A l \in 1..(k - 1) : l \in 1..k /\ l <= k
    BY <1>0
  <2> DEFINE After(all) ==
                /\ all \in Seq(1..n)
                /\ Range(all) = {order[l] : l \in {h \in 1..k : applies(h)}}
                /\ all # <<>> =>
                      \E m \in 1..k :
                         Head(all) = order[m] /\ applies(m) /\ \A l \in 1..k : applies(l) => m <= l
  <2>4. CollectedAfter(context, rules, order, n, k, new) <=> After(new)
    BY DEF CollectedAfter
  <2> HIDE DEF old, new, applies
  <2>5. CASE ~applies(k)
    <3>1. {h \in 1..k : applies(h)} = {h \in 1..(k - 1) : applies(h)} /\ new = old
      BY <2>1, <2>3, <2>5
    <3>2. \A m \in 1..(k - 1) : (\A l \in 1..(k - 1) : applies(l) => m <= l) =>
                                   m \in 1..k /\ \A l \in 1..k : applies(l) => m <= l
      BY <2>3, <2>5
    <3>3. After(new)
      BY <2>2, <3>1, <3>2
    <3> HIDE DEF After
    <3> QED  BY <2>4, <3>3 DEF new
  <2>6. CASE applies(k)
    <3>1. {h \in 1..k : applies(h)} = {h \in 1..(k - 1) : applies(h)} \union {k}
      BY <2>3, <2>6
    <3>2. /\ new \in Seq(1..n) /\ new # <<>>
          /\ Range(new) = Range(old) \union {order[k]}
          /\ IF old = <<>> THEN Head(new) = order[k] ELSE Head(new) = Head(old)
      <4> DEFINE S == 1..n
      <4>1. new = Append(old, order[k]) /\ old \in Seq(S) /\ order[k] \in S
        BY <2>1, <2>2, <2>3, <2>6
      <4> HIDE DEF S
      <4>2. /\ Append(old, order[k]) \in Seq(S) /\ Append(old, order[k]) # <<>>
            /\ Range(Append(old, order[k])) = Range(old) \union {order[k]}
            /\ IF old = <<>> THEN Head(Append(old, order[k])) = order[k]
               ELSE Head(Append(old, order[k])) = Head(old)
        BY <4>1, Appended
      <4> QED  BY <4>1, <4>2 DEF S
    <3>3. Range(new) = {order[l] : l \in {h \in 1..k : applies(h)}}
      BY <2>2, <3>1, <3>2
    <3>4. \E m \in 1..k : Head(new) = order[m] /\ applies(m) /\ \A l \in 1..k : applies(l) => m <= l
      <4>1. CASE old = <<>>
        <5>1. Range(old) = {}
          BY <4>1 DEF Range
        <5>2. \A l \in 1..(k - 1) : ~applies(l)
          BY <2>2, <5>1
        <5> QED  BY <2>3, <2>6, <3>2, <4>1, <5>2
      <4>2. CASE old # <<>>
        BY <2>2, <2>3, <3>2, <4>2
      <4> QED  BY <4>1, <4>2
    <3>5. After(new)
      BY <3>2, <3>3, <3>4
    <3> HIDE DEF After
    <3> QED  BY <2>4, <3>5 DEF new
  <2> QED  BY <2>5, <2>6
<1>4. Bad = {}
  <2> SUFFICES ASSUME Bad # {} PROVE FALSE
    OBVIOUS
  <2>1. PICK k \in Bad : \A m \in Bad : k <= m
    <3>1. Bad \subseteq Nat
      BY <1>0
    <3> HIDE DEF Bad
    <3> QED  BY <3>1, LeastNat
  <2>2. k \in 1..n
    BY <1>0, <1>2
  <2>3. k - 1 \in 0..n /\ k - 1 \notin Bad
    <3> HIDE DEF Bad
    <3> QED  BY <1>0, <2>1, <2>2
  <2> QED  BY <1>3, <2>2, <2>3
<1> QED  BY <1>0, <1>4 DEF collect

\* What evaluate and evaluate_all return, in terms of the rules alone.
LEMMA VerdictIsAlwaysRight ==
    ASSUME NEW context, NEW rules, NEW n, IsRuleList(rules, n)
    PROVE  /\ VerdictIsRight(context, rules)
           /\ (\A i \in DOMAIN rules : ~Applies(context, rules, i)) =>
                 Evaluate(context, rules) = Unmatched
<1> DEFINE order == ByPriority(rules)
           verdict == Evaluate(context, rules)
           all == EvaluateAll(context, rules)
           applies(i) == Applies(context, rules, i)
           rejects(i) == rules[i].action = "reject"
           M == {i \in 1..n : applies(i)}
           R == {i \in M : rejects(i)}
<1>1. /\ n \in Nat /\ order \in [1..n -> 1..n] /\ DOMAIN rules = 1..n
      /\ \A i \in 1..n : \E k \in 1..n : order[k] = i
      /\ \A k, l \in 1..n : k < l => Before(rules, order[k], order[l])
      /\ \A i \in 1..n : rules[i].priority \in Int
  BY OrderIsRight DEF IsRuleList, SortedAs
<1>2. IsOrder(order, n) /\ DOMAIN order = 1..n
  BY <1>1 DEF IsOrder
<1>3. FoundAfter(context, rules, order, n, verdict)
  BY <1>2, TheFirstIsFound, VerdictIsVisited
<1>4. CollectedAfter(context, rules, order, n, n, all)
  BY <1>2, AllAreCollected, AllIsCollected
<1> HIDE DEF order, verdict, all
<1>5. \/ verdict = Unmatched /\ \A l \in 1..n : ~applies(order[l])
      \/ \E m \in 1..n :
            /\ verdict = VerdictOf(rules, order[m])
            /\ applies(order[m])
            /\ IF rejects(order[m])
               THEN \A l \in 1..n : applies(order[l]) /\ rejects(order[l]) => m <= l
               ELSE \A l \in 1..n : applies(order[l]) => ~rejects(order[l]) /\ m <= l
  BY <1>3 DEF FoundAfter
<1>6. /\ Range(all) = {order[l] : l \in {h \in 1..n : applies(order[h])}}
      /\ all # <<>> =>
            \E m \in 1..n :
               Head(all) = order[m] /\ applies(order[m]) /\ \A l \in 1..n : applies(order[l]) => m <= l
  BY <1>4 DEF CollectedAfter
<1> HIDE DEF applies, rejects
<1>7. Range(all) = M
  <2>1. \A i \in Range(all) : i \in M
    BY <1>1, <1>6
  <2>2. ASSUME NEW i \in M PROVE i \in Range(all)
    <3>1. PICK k \in 1..n : order[k] = i
      BY <1>1
    <3>2. applies(order[k])
      BY <3>1
    <3> QED  BY <1>6, <3>1, <3>2
  <2> QED  BY <2>1, <2>2
<1>8. CASE M = {}
  <2>1. \A l \in 1..n : ~applies(order[l])
    BY <1>1, <1>8
  <2>2. verdict = Unmatched
    BY <1>5, <2>1
  <2>3. verdict.matched = FALSE
    BY <2>2 DEF Unmatched
  <2> QED  BY <1>1, <1>7, <1>8, <2>2, <2>3 DEF VerdictIsRight, applies, Applies, verdict, all
<1>9. CASE M # {}
  <2>1. \E l \in 1..n : applies(order[l])
    BY <1>1, <1>9
  <2>2. PICK m \in 1..n :
            /\ verdict = VerdictOf(rules, order[m])
            /\ applies(order[m])
            /\ IF rejects(order[m])
               THEN \A l \in 1..n : applies(order[l]) /\ rejects(order[l]) => m <= l
               ELSE \A l \in 1..n : applies(order[l]) => ~rejects(order[l]) /\ m <= l
    BY <1>5, <2>1
  <2> DEFINE v == order[m]
             best == IF R # {} THEN R ELSE M
  <2>3. verdict.rule = v /\ verdict.action = rules[v].action /\ verdict.matched = TRUE /\ v \in M
    BY <1>1, <2>2 DEF VerdictOf
  <2>4. \A l \in 1..n : m <= l => order[l] = v \/ Before(rules, v, order[l])
    BY <1>1
  <2>5. v \in best /\ \A j \in best : j = v \/ Before(rules, v, j)
    <3>1. CASE rejects(v)
      <4>1. v \in R
        BY <2>3, <3>1
      <4>2. \A j \in R : j = v \/ Before(rules, v, j)
        <5> SUFFICES ASSUME NEW j \in R PROVE j = v \/ Before(rules, v, j)
          OBVIOUS
        <5>1. PICK l \in 1..n : order[l] = j
          BY <1>1
        <5>2. applies(order[l]) /\ rejects(order[l])
          BY <5>1
        <5>3. m <= l
          BY <2>2, <3>1, <5>2
        <5> QED  BY <2>4, <5>1, <5>3
      <4> QED  BY <4>1, <4>2
    <3>2. CASE ~rejects(v)
      <4>1. \A j \in M : ~rejects(j) /\ (j = v \/ Before(rules, v, j))
        <5> SUFFICES ASSUME NEW j \in M PROVE ~rejects(j) /\ (j = v \/ Before(rules, v, j))
          OBVIOUS
        <5>1. PICK l \in 1..n : order[l] = j
          BY <1>1
        <5>2. applies(order[l])
          BY <5>1
        <5>3. ~rejects(order[l]) /\ m <= l
          BY <2>2, <3>2, <5>2
        <5> QED  BY <2>4, <5>1, <5>3
      <4>2. R = {}
        BY <4>1
      <4> QED  BY <2>3, <4>1, <4>2
    <3> QED  BY <3>1, <3>2
  <2>6. \A j \in best : \/ rules[j].priority > rules[v].priority
                        \/ rules[j].priority = rules[v].priority /\ j >= v
    <3> SUFFICES ASSUME NEW j \in best
                 PROVE  \/ rules[j].priority > rules[v].priority
                        \/ rules[j].priority = rules[v].priority /\ j >= v
      OBVIOUS
    <3>1. j \in 1..n /\ v \in 1..n /\ rules[j].priority \in Int /\ rules[v].priority \in Int
      BY <1>1, <2>3
    <3>2. j = v \/ Before(rules, v, j)
      BY <2>5
    <3> HIDE DEF v, best
    <3>3. CASE j = v
      BY <3>1, <3>3
    <3>4. CASE Before(rules, v, j)
      BY <3>1, <3>4 DEF Before
    <3> QED  BY <3>2, <3>3, <3>4
  <2>7. R = {} => v = Head(all)
    <3> SUFFICES ASSUME R = {} PROVE v = Head(all)
      OBVIOUS
    <3>1. all # <<>>
      <4>1. Range(<<>>) = {}
        BY DEF Range
      <4> QED  BY <1>7, <1>9, <4>1
    <3>2. PICK first \in 1..n : /\ Head(all) = order[first] /\ applies(order[first])
                                /\ \A l \in 1..n : applies(order[l]) => first <= l
      BY <1>6, <3>1
    <3>3. \A j \in M : ~rejects(j)
      OBVIOUS
    <3>4. ~rejects(order[m])
      BY <2>3, <3>3
    <3>5. m <= first /\ first <= m
      BY <2>2, <3>2, <3>4
    <3>6. m = first
      BY <3>5, <1>1
    <3> QED  BY <3>2, <3>6
  <2>8. M = {i \in DOMAIN rules : EvaluateConditions(rules[i].conditions, context)}
    BY <1>1 DEF applies, Applies
  <2>9. R = {i \in M : rules[i].action = "reject"}
    BY DEF rejects
  <2> HIDE DEF M, R
  <2>10. VerdictIsRight(context, rules)
    <3> HIDE DEF v
    <3> QED  BY <1>7, <1>9, <2>3, <2>5, <2>6, <2>7, <2>8, <2>9 DEF VerdictIsRight, verdict, all
  <2>11. \E i \in DOMAIN rules : Applies(context, rules, i)
    BY <1>1, <1>9 DEF M, applies
  <2> QED  BY <2>10, <2>11
<1> QED  BY <1>8, <1>9

\* PoliciesDecide of a plan that can be priced.
DecidedRight(rules, events, customer, policies, raised) ==
    LET context == PolicyContext(customer, LineItems(rules, Aggregated(rules, events)))
        P == DOMAIN policies
        rejecting == {i \in P : /\ policies[i].action = "reject"
                               /\ EvaluateConditions(policies[i].conditions, context)}
        raising == {i \in P : ConditionsRaise(policies[i].conditions, context)}
    IN  /\ raised = "nothing" <=> rejecting \union raising = {}
        /\ raised = "reject" <=> \E i \in rejecting : \A j \in raising : Before(policies, i, j)
        /\ raising = {} => VerdictIsRight(context, policies)

\* Of rules in their order: one is first among those that match if none that raises
\* comes before, and otherwise one that raises has none that matches before it.
LEMMA WhoComesFirst ==
    ASSUME NEW rules, NEW n, IsRuleList(rules, n), NEW order, SortedAs(rules, n, order),
           NEW matching \in SUBSET (1..n), NEW raising \in SUBSET (1..n)
    PROVE  (\E i \in matching : \A j \in raising : Before(rules, i, j))
             <=> /\ matching # {}
                 /\ ~ \E k \in 1..n : /\ order[k] \in raising
                                       /\ \A l \in 1..(k - 1) : order[l] \notin matching
<1>1. /\ n \in Nat /\ order \in [1..n -> 1..n]
      /\ \A i \in 1..n : \E k \in 1..n : order[k] = i
      /\ \A k, l \in 1..n : k < l => Before(rules, order[k], order[l])
  BY DEF SortedAs
<1>2. \A i, j \in 1..n : Before(rules, i, j) => i # j /\ ~Before(rules, j, i)
  BY DEF IsRuleList, Before
<1>3. ASSUME matching # {},
             ~ \E k \in 1..n : order[k] \in raising /\ \A l \in 1..(k - 1) : order[l] \notin matching
      PROVE  \E i \in matching : \A j \in raising : Before(rules, i, j)
  <2> DEFINE K == {k \in 1..n : order[k] \in matching}
  <2>1. K \subseteq Nat /\ K # {}
    <3>1. PICK i \in matching : TRUE
      BY <1>3
    <3>2. PICK k \in 1..n : order[k] = i
      BY <1>1
    <3>3. k \in K
      BY <3>1, <3>2
    <3>4. \A h \in 1..n : h \in Nat
      BY <1>1
    <3>5. K \subseteq Nat
      BY <3>4
    <3> HIDE DEF K
    <3> QED  BY <3>3, <3>5
  <2>2. PICK k \in K : \A l \in K : k <= l
    <3> HIDE DEF K
    <3> QED  BY <2>1, LeastNat
  <2>3. ASSUME NEW j \in raising PROVE Before(rules, order[k], j)
    <3>1. PICK l \in 1..n : order[l] = j
      BY <1>1
    <3>2. PICK h \in 1..(l - 1) : order[h] \in matching
      BY <1>3, <3>1
    <3>3. h \in 1..n /\ h < l
      BY <1>1
    <3>4. k \in 1..n /\ k <= h
      BY <2>2, <3>2, <3>3
    <3>5. k < l
      BY <1>1, <3>3, <3>4
    <3> QED  BY <1>1, <3>1, <3>4, <3>5
  <2> QED  BY <2>3
<1>4. ASSUME NEW i \in matching, \A j \in raising : Before(rules, i, j),
             NEW k \in 1..n, order[k] \in raising, \A l \in 1..(k - 1) : order[l] \notin matching
      PROVE  FALSE
  <2>1. PICK l \in 1..n : order[l] = i
    BY <1>1
  <2>2. Before(rules, order[l], order[k]) /\ order[l] \in 1..n /\ order[k] \in 1..n
    BY <1>1, <1>4, <2>1
  <2>3. l # k /\ ~(k < l)
    BY <1>1, <1>2, <2>2
  <2>4. l \in 1..(k - 1)
    BY <1>1, <2>3
  <2> QED  BY <1>4, <2>1, <2>4
<1> QED  BY <1>3, <1>4

\* What run_billing_cycle raises when the rules have prices.
LEMMA InvoiceIsDecided ==
    ASSUME NEW rules, NEW events, NEW customer, NEW policies \in PolicySets, Priced(rules)
    PROVE  DecidedRight(rules, events, customer, policies,
                        RunBillingCycle(rules, events, customer, policies).raised)
<1> DEFINE lines == LineItems(rules, Aggregated(rules, events))
           context == PolicyContext(customer, lines)
           n == Len(policies)
           matching == {i \in DOMAIN policies : EvaluateConditions(policies[i].conditions, context)}
           rejecting == {i \in DOMAIN policies : /\ policies[i].action = "reject"
                                                /\ EvaluateConditions(policies[i].conditions, context)}
           raising == {i \in DOMAIN policies : ConditionsRaise(policies[i].conditions, context)}
           order == ByPriority(policies)
           verdict == Evaluate(context, policies)
           raised == RunBillingCycle(rules, events, customer, policies).raised
<1>1. IsRuleList(policies, n)
  <2>1. policies \in Seq(Range(policies)) /\ \A i \in DOMAIN policies : policies[i].priority \in Int
    BY PolicyAssumption
  <2>2. n \in Nat /\ DOMAIN policies = 1..n
    BY <2>1
  <2> QED  BY <2>1, <2>2 DEF IsRuleList
<1>2. DOMAIN policies = 1..n
  BY <1>1 DEF IsRuleList
<1>3. /\ VerdictIsRight(context, policies)
      /\ matching = {} => verdict = Unmatched
  BY <1>1, VerdictIsAlwaysRight DEF Applies
<1>4. verdict.action = "reject" <=> rejecting # {}
  <2>0. rejecting = {i \in matching : policies[i].action = "reject"}
    OBVIOUS
  <2>1. CASE matching = {}
    <3>1. verdict.action = "allow" /\ rejecting = {}
      BY <1>3, <2>1 DEF Unmatched
    <3> QED  BY <3>1
  <2>2. CASE matching # {}
    <3> HIDE DEF verdict, matching, rejecting
    <3>1. /\ verdict.rule \in IF rejecting # {} THEN rejecting ELSE matching
          /\ verdict.action = policies[verdict.rule].action
      BY <1>3, <2>0, <2>2 DEF VerdictIsRight, matching, verdict
    <3>2. CASE rejecting # {}
      BY <2>0, <3>1, <3>2
    <3>3. CASE rejecting = {}
      <4>1. verdict.rule \in matching
        BY <3>1, <3>3
      <4>2. policies[verdict.rule].action # "reject"
        BY <2>0, <4>1, <3>3
      <4> QED  BY <3>1, <3>3, <4>2
    <3> QED  BY <3>2, <3>3
  <2> QED  BY <2>1, <2>2
<1>5. raised = IF EvaluateRaises(context, policies) THEN "comparison"
               ELSE IF verdict.action = "reject" THEN "reject" ELSE "nothing"
  <2>1. \A by : Raised(by).raised = by
    BY DEF Raised
  <2>2. GenerateInvoice(lines, customer).raised = "nothing"
    BY DEF GenerateInvoice
  <2>3. ~ \E i \in DOMAIN rules : ~Priceable(rules[i])
    BY DEF Priced
  <2> HIDE DEF lines
  <2>4. RunBillingCycle(rules, events, customer, policies) = Decided(lines, customer, policies)
    BY <2>3 DEF RunBillingCycle, lines
  <2> QED  BY <2>1, <2>2, <2>4 DEF Decided
<1>6. SortedAs(policies, n, order)
  BY <1>1, OrderIsRight
<1>7. DOMAIN order = 1..n /\ order \in [1..n -> 1..n] /\ \A i \in 1..n : \E k \in 1..n : order[k] = i
  BY <1>6 DEF SortedAs
<1>8. rejecting \in SUBSET (1..n) /\ raising \in SUBSET (1..n)
  BY <1>2
<1>9. EvaluateRaises(context, policies)
          <=> \E k \in 1..n : /\ order[k] \in raising
                              /\ \A j \in 1..(k - 1) : order[j] \notin rejecting
  <2>1. n \in Nat
    BY <1>1 DEF IsRuleList
  <2> HIDE DEF n, context
  <2>2. EvaluateRaises(context, policies)
          <=> \E k \in 1..n :
                 /\ ConditionsRaise(policies[order[k]].conditions, context)
                 /\ \A j \in 1..(k - 1) :
                       ~ /\ policies[order[j]].action = "reject"
                         /\ EvaluateConditions(policies[order[j]].conditions, context)
    BY <1>7 DEF EvaluateRaises
  <2> HIDE DEF order
  <2>3. \A k \in 1..n : \A j \in 1..(k - 1) : j \in 1..n
    BY <2>1
  <2>4. \A k \in 1..n : order[k] \in DOMAIN policies
    BY <1>2, <1>7
  <2> QED  BY <2>2, <2>3, <2>4
<1> HIDE DEF order, n, context, verdict, rejecting, raising, raised
<1>10. (\E i \in rejecting : \A j \in raising : Before(policies, i, j))
          <=> rejecting # {} /\ ~EvaluateRaises(context, policies)
  BY <1>1, <1>6, <1>8, <1>9, WhoComesFirst
<1>11. rejecting = {} => (EvaluateRaises(context, policies) <=> raising # {})
  BY <1>7, <1>8, <1>9
<1>12. raising = {} => ~EvaluateRaises(context, policies)
  BY <1>9
<1>13. /\ raised = "nothing" <=> rejecting \union raising = {}
       /\ raised = "reject" <=> \E i \in rejecting : \A j \in raising : Before(policies, i, j)
       /\ raising = {} => VerdictIsRight(context, policies)
  <2>1. raised = "nothing" <=> ~EvaluateRaises(context, policies) /\ rejecting = {}
    BY <1>4, <1>5
  <2>2. raised = "reject" <=> ~EvaluateRaises(context, policies) /\ rejecting # {}
    BY <1>4, <1>5
  <2>3. rejecting \union raising = {} <=> rejecting = {} /\ raising = {}
    OBVIOUS
  <2> QED  BY <1>3, <1>10, <1>11, <1>12, <2>1, <2>2, <2>3
<1> QED  BY <1>13 DEF DecidedRight, context, lines, rejecting, raising, raised

\* run_billing_cycle (billing/engine.py) makes an invoice of a plan with prices exactly when
\* no policy rejects or raises, and rejects only when no comparison raised first; the verdict
\* is the first reject, or else the first match, by priority.  For policies and conditions of
\* any number, order and priorities, whatever place a text has among the texts.
THEOREM PoliciesAlwaysDecide == CalculationSpec => []PoliciesDecide
<1>1. CalculationInit => PoliciesDecide
  BY DEF CalculationInit, PoliciesDecide
<1>2. PoliciesDecide /\ [CalculationNext]_call => PoliciesDecide'
  <2>1. Bill => PoliciesDecide'
    <3> SUFFICES ASSUME NEW rules \in Plans, NEW events \in EventSets,
                        NEW customer \in Customers, NEW policies \in PolicySets,
                        call' = [op |-> "bill", rules |-> rules, events |-> events,
                                 customer |-> customer, policies |-> policies,
                                 answer |-> RunBillingCycle(rules, events, customer, policies)]
                 PROVE  PoliciesDecide'
      BY DEF Bill
    <3> DEFINE answer == RunBillingCycle(rules, events, customer, policies)
    <3>1. Priced(rules) => DecidedRight(rules, events, customer, policies, answer.raised)
      BY InvoiceIsDecided
    <3> HIDE DEF answer
    <3>2. /\ call'.op = "bill" /\ call'.rules = rules /\ call'.events = events
          /\ call'.customer = customer /\ call'.policies = policies /\ call'.answer = answer
      BY DEF answer
    <3>3. Priced(call'.rules) =>
              DecidedRight(call'.rules, call'.events, call'.customer, call'.policies, call'.answer.raised)
      BY <3>1, <3>2
    <3> QED  BY <3>3 DEF PoliciesDecide, DecidedRight
  <2>2. UNCHANGED call /\ PoliciesDecide => PoliciesDecide'
    BY DEF PoliciesDecide
  <2> QED  BY <2>1, <2>2, CallIsNamed DEF CalculationNext, PoliciesDecide
<1> QED  BY <1>1, <1>2, PTL DEF CalculationSpec

-----------------------------------------------------------------------------
(* Sums and roundings *)

\* The sums of the beginnings of a sequence, as FoldLeft computes them.
Sums(s) ==
    CHOOSE g : g = [S \in SUBSET (DOMAIN s) |->
        IF S = {} THEN 0 ELSE g[S \ {Max(S)}] + s[Max(S)]]

LEMMA TotalIsSum == \A s : Total(s) = Sums(s)[DOMAIN s]
BY DEF Total, FoldLeft, MapThenFoldSet, Sums

\* g adds the numbers of s up, one by one.
AddsUp(g, s, n) ==
    /\ g \in [0..n -> Int]
    /\ g[0] = 0
    /\ \A k \in 1..n : g[k] = g[k - 1] + s[k]

\* The total of a sequence of integers is the last of its sums.
LEMMA TotalsAddUp ==
    ASSUME NEW n \in Nat, NEW s, DOMAIN s = 1..n, \A i \in 1..n : s[i] \in Int
    PROVE  \E g : AddsUp(g, s, n) /\ Total(s) = g[n]
<1> DEFINE F == [x \in Int \X (1..n) |-> x[1] + s[x[2]]]
           sums == Sums(s)
           total == [k \in 0..n |-> sums[1..k]]
<1>1. \A v \in Int : \A i \in 1..n : F[<<v, i>>] = v + s[i] /\ F[<<v, i>>] \in Int
  OBVIOUS
<1>2. PICK g : Folds(n, F, 0, Int, g, n)
  <2>1. 0 \in Int
    OBVIOUS
  <2> HIDE DEF F
  <2> QED  BY <1>1, <2>1, FoldsExist
<1>3. g = [S \in SUBSET (1..n) |-> IF S = {} THEN 0 ELSE g[S \ {Max(S)}] + s[Max(S)]]
  <2> HIDE DEF F
  <2>1. \A S \in SUBSET (1..n) : S # {} => Max(S) \in 1..n /\ S \ {Max(S)} \in SUBSET (1..n)
    BY LastIndex
  <2>2. \A S \in SUBSET (1..n) : S # {} => g[S] = g[S \ {Max(S)}] + s[Max(S)]
    BY <1>1, <1>2, <2>1 DEF Folds
  <2>3. g[{}] = 0 /\ g \in [SUBSET (1..n) -> Int]
    BY <1>2 DEF Folds
  <2> QED  BY <2>2, <2>3
<1>4. sums = [S \in SUBSET (1..n) |-> IF S = {} THEN 0 ELSE sums[S \ {Max(S)}] + s[Max(S)]]
  BY <1>3 DEF Sums
<1> HIDE DEF sums
<1>5. sums[1..0] = 0
  <2>1. 1..0 = {} /\ 1..0 \in SUBSET (1..n)
    OBVIOUS
  <2> QED  BY <1>4, <2>1
<1>6. ASSUME NEW k \in 1..n
      PROVE  sums[1..k] = sums[1..(k - 1)] + s[k]
  <2>1. /\ 1..k \in SUBSET (1..n) /\ 1..k # {}
        /\ Max(1..k) = k /\ (1..k) \ {k} = 1..(k - 1)
    BY LastOfPrefix
  <2> QED  BY <1>4, <2>1
<1>7. \A k \in 0..n : sums[1..k] \in Int
  <2> DEFINE Bad == {k \in 0..n : sums[1..k] \notin Int}
  <2> SUFFICES ASSUME Bad # {} PROVE FALSE
    OBVIOUS
  <2>1. PICK k \in Bad : \A m \in Bad : k <= m
    <3>1. Bad \subseteq Nat
      OBVIOUS
    <3> HIDE DEF Bad
    <3> QED  BY <3>1, LeastNat
  <2>2. k \in 1..n
    BY <1>5
  <2>3. k - 1 \in 0..n /\ k - 1 \notin Bad
    <3> HIDE DEF Bad
    <3> QED  BY <2>1, <2>2
  <2>4. sums[1..k] \in Int
    BY <1>6, <2>2, <2>3
  <2> QED  BY <2>4
<1>8. AddsUp(total, s, n)
  <2>1. total \in [0..n -> Int]
    BY <1>7
  <2>2. \A k \in 1..n : k - 1 \in 0..n /\ k \in 0..n
    OBVIOUS
  <2>3. total[0] = 0
    BY <1>5
  <2>4. \A k \in 1..n : total[k] = total[k - 1] + s[k]
    BY <1>6, <2>2
  <2> HIDE DEF total
  <2> QED  BY <2>1, <2>3, <2>4 DEF AddsUp
<1>9. Total(s) = total[n]
  BY TotalIsSum DEF sums
<1> QED  BY <1>8, <1>9

\* Over a stretch on which s is constant, the sums grow by it.
LEMMA ConstantStretch ==
    ASSUME NEW n \in Nat, NEW g, NEW s, AddsUp(g, s, n), NEW from \in 0..n, NEW to \in from..n, NEW c \in Int,
           \A k \in (from + 1)..to : s[k] = c
    PROVE  g[to] = g[from] + c * (to - from)
<1> DEFINE Bad == {k \in from..to : g[k] # g[from] + c * (k - from)}
<1> SUFFICES ASSUME Bad # {} PROVE FALSE
  <2>1. to \notin Bad => g[to] = g[from] + c * (to - from)
    OBVIOUS
  <2> QED  BY <2>1
<1>1. PICK k \in Bad : \A m \in Bad : k <= m
  <2>1. Bad \subseteq Nat
    OBVIOUS
  <2> HIDE DEF Bad
  <2> QED  BY <2>1, LeastNat
<1>0. \A j \in 0..n : g[j] \in Int
  BY DEF AddsUp
<1>2. k \in (from + 1)..to
  <2>1. k # from
    <3>1. from \notin Bad
      <4>1. c * (from - from) = 0
        OBVIOUS
      <4>2. g[from] \in Int
        BY <1>0
      <4> QED  BY <4>1, <4>2
    <3> QED  BY <3>1
  <2> QED  BY <2>1
<1>3. k - 1 \notin Bad /\ k - 1 \in from..to
  <2> HIDE DEF Bad
  <2> QED  BY <1>1, <1>2
<1>4. g[k - 1] = g[from] + c * ((k - 1) - from)
  BY <1>3
<1>5. g[k] = g[k - 1] + c
  <2>1. k \in 1..n
    BY <1>2
  <2> QED  BY <1>2, <2>1 DEF AddsUp
<1>6. c * (k - from) = c * ((k - 1) - from) + c
  <2> HIDE DEF Bad
  <2> DEFINE j == (k - 1) - from
  <2>1. j \in Int /\ k - from = j + 1
    BY <1>2
  <2> HIDE DEF j
  <2>2. c * (j + 1) = c * j + c
    BY <2>1
  <2> QED  BY <2>1, <2>2 DEF j
<1>7. g[k] = g[from] + c * (k - from)
  <2> HIDE DEF Bad
  <2> DEFINE a == c * ((k - 1) - from)
             b == c * (k - from)
  <2>1. a \in Int /\ b \in Int /\ g[from] \in Int
    BY <1>0, <1>2
  <2>2. b = a + c
    BY <1>6
  <2>3. g[k] = g[from] + a + c
    BY <1>4, <1>5
  <2> HIDE DEF a, b
  <2>4. g[k] = g[from] + b
    BY <2>1, <2>2, <2>3
  <2> QED  BY <2>4 DEF b
<1> QED  BY <1>7

\* n events of one price.
LEMMA ConstantTotal ==
    ASSUME NEW n \in Nat, NEW c \in Int
    PROVE  Total([k \in 1..n |-> c]) = c * n
<1> DEFINE s == [k \in 1..n |-> c]
<1>1. PICK g : AddsUp(g, s, n) /\ Total(s) = g[n]
  BY TotalsAddUp
<1>2. g[n] = g[0] + c * (n - 0)
  <2>1. 0 \in 0..n /\ n \in 0..n /\ \A k \in (0 + 1)..n : s[k] = c
    OBVIOUS
  <2> HIDE DEF s
  <2> QED  BY <1>1, <2>1, ConstantStretch
<1>3. g[0] = 0
  BY <1>1 DEF AddsUp
<1>4. c * n \in Int /\ n - 0 = n
  OBVIOUS
<1> HIDE DEF s
<1>5. g[n] = c * n
  <2> DEFINE p == c * n
  <2>1. g[n] = 0 + p
    BY <1>2, <1>3, <1>4
  <2>2. p \in Int
    BY <1>4
  <2> HIDE DEF p
  <2>3. g[n] = p
    BY <2>1, <2>2
  <2> QED  BY <2>3 DEF p
<1> QED  BY <1>1, <1>5 DEF s

\* n events of one price, those beyond the m-th free.
LEMMA CappedTotal ==
    ASSUME NEW n \in Nat, NEW m \in 0..n, NEW c \in Int, NEW s, DOMAIN s = 1..n,
           \A k \in 1..n : s[k] = IF k > m THEN 0 ELSE c
    PROVE  Total(s) = c * m
<1>1. PICK g : AddsUp(g, s, n) /\ Total(s) = g[n]
  BY TotalsAddUp
<1>2. g[m] = g[0] + c * (m - 0)
  <2>1. 0 \in 0..n /\ m \in 0..n /\ \A k \in (0 + 1)..m : s[k] = c
    OBVIOUS
  <2> QED  BY <1>1, <2>1, ConstantStretch
<1>3. g[n] = g[m] + 0 * (n - m)
  <2>1. m \in 0..n /\ n \in m..n /\ \A k \in (m + 1)..n : s[k] = 0
    OBVIOUS
  <2> QED  BY <1>1, <2>1, ConstantStretch
<1>4. g[0] = 0
  BY <1>1 DEF AddsUp
<1>5. g[n] = c * m
  <2> DEFINE p == c * m
  <2>1. p \in Int /\ m - 0 = m /\ 0 * (n - m) = 0
    OBVIOUS
  <2>2. g[m] = 0 + p
    BY <1>2, <1>4, <2>1
  <2> HIDE DEF p
  <2>3. g[n] = p + 0
    BY <1>3, <2>1, <2>2
  <2>4. g[n] = p
    BY <2>1, <2>3
  <2> QED  BY <2>4 DEF p
<1> QED  BY <1>1, <1>5

\* Amounts in whole cents are left alone, and every amount that is charged is one.
LEMMA CentsStay ==
    /\ \A x \in Int : RoundMoney(100 * x) = 100 * x
    /\ \A x \in Int : RoundMoney(x) \in Int /\ RoundMoney(x) % 100 = 0
    /\ RoundMoney(0) = 0
<1>1. ASSUME NEW x \in Int PROVE HalfUp(100 * x, 100) = x
  <2>1. CASE x >= 0
    <3>1. HalfUp(100 * x, 100) = (200 * x + 100) \div 200
      BY <2>1 DEF HalfUp, Magnitude
    <3> QED  BY <3>1, <2>1
  <2>2. CASE x < 0
    <3>1. HalfUp(100 * x, 100) = -((200 * (-x) + 100) \div 200)
      BY <2>2 DEF HalfUp, Magnitude
    <3> QED  BY <3>1, <2>2
  <2> QED  BY <2>1, <2>2
<1>2. ASSUME NEW x \in Int PROVE HalfUp(x, 100) \in Int
  BY DEF HalfUp, Magnitude
<1>3. \A x \in Int : (100 * x) % 100 = 0
  OBVIOUS
<1>4. \A x \in Int : RoundMoney(100 * x) = 100 * x
  BY <1>1 DEF RoundMoney
<1>5. \A x \in Int : RoundMoney(x) \in Int /\ RoundMoney(x) % 100 = 0
  BY <1>2, <1>3 DEF RoundMoney
<1>6. RoundMoney(0) = 0
  BY <1>1, 100 * 0 = 0 DEF RoundMoney
<1> QED  BY <1>4, <1>5, <1>6

\* A sum of amounts in whole cents is in whole cents.
LEMMA CentsAddUp ==
    ASSUME NEW n \in Nat, NEW s, DOMAIN s = 1..n, \A i \in 1..n : s[i] \in Int /\ s[i] % 100 = 0
    PROVE  Total(s) \in Int /\ Total(s) % 100 = 0
<1>1. PICK g : AddsUp(g, s, n) /\ Total(s) = g[n]
  BY TotalsAddUp
<1> DEFINE Bad == {k \in 0..n : g[k] % 100 # 0}
<1>2. \A k \in 0..n : g[k] \in Int
  BY <1>1 DEF AddsUp
<1>3. Bad = {}
  <2> SUFFICES ASSUME Bad # {} PROVE FALSE
    OBVIOUS
  <2>1. PICK k \in Bad : \A m \in Bad : k <= m
    <3>1. Bad \subseteq Nat
      OBVIOUS
    <3> HIDE DEF Bad
    <3> QED  BY <3>1, LeastNat
  <2>2. k \in 1..n
    <3>1. 0 \notin Bad
      BY <1>1 DEF AddsUp
    <3> QED  BY <3>1
  <2>3. k - 1 \in 0..n /\ k - 1 \notin Bad
    <3> HIDE DEF Bad
    <3> QED  BY <2>1, <2>2
  <2>4. g[k] = g[k - 1] + s[k] /\ g[k - 1] % 100 = 0 /\ s[k] % 100 = 0
    BY <1>1, <2>2, <2>3 DEF AddsUp
  <2>5. g[k - 1] \in Int /\ s[k] \in Int
    BY <1>2, <2>2, <2>3
  <2>6. \A x, y \in Int : x % 100 = 0 /\ y % 100 = 0 => (x + y) % 100 = 0
    OBVIOUS
  <2>7. g[k] % 100 = 0
    <3> HIDE DEF Bad
    <3> QED  BY <2>4, <2>5, <2>6
  <2> QED  BY <2>7
<1> QED  BY <1>1, <1>2, <1>3

-----------------------------------------------------------------------------
(* Tiers *)

\* Min, where the least element is known; of two numbers; of one and perhaps another.
LEMMA LeastOf ==
    ASSUME NEW S, S \subseteq Int, NEW x \in S, \A y \in S : x <= y
    PROVE  Min(S) = x
<1>1. Min(S) \in S /\ \A y \in S : Min(S) <= y
  BY DEF Min
<1>2. Min(S) <= x /\ x <= Min(S) /\ Min(S) \in Int /\ x \in Int
  BY <1>1
<1> QED  BY <1>2

LEMMA LeastOfTwo ==
    ASSUME NEW x \in Int, NEW y \in Int
    PROVE  Min({x} \union {y}) = IF x <= y THEN x ELSE y
<1>1. CASE x <= y
  <2>1. x \in {x} \union {y} /\ \A z \in {x} \union {y} : x <= z
    BY <1>1
  <2>2. {x} \union {y} \subseteq Int
    OBVIOUS
  <2> QED  BY <1>1, <2>1, <2>2, LeastOf
<1>2. CASE ~(x <= y)
  <2>1. y \in {x} \union {y} /\ \A z \in {x} \union {y} : y <= z
    BY <1>2
  <2>2. {x} \union {y} \subseteq Int
    OBVIOUS
  <2> QED  BY <1>2, <2>1, <2>2, LeastOf
<1> QED  BY <1>1, <1>2

LEMMA OneOrNone ==
    ASSUME NEW S \in AtMostOne
    PROVE  S = {} \/ \E x \in Nat : S = {x} /\ Max(S) = x
<1> SUFFICES ASSUME S # {} PROVE \E x \in Nat : S = {x} /\ Max(S) = x
  OBVIOUS
<1>1. PICK x \in S : TRUE
  OBVIOUS
<1>2. x \in Nat /\ S = {x}
  BY <1>1 DEF AtMostOne
<1>3. Max({x}) = x
  BY <1>2 DEF Max
<1> QED  BY <1>2, <1>3

-----------------------------------------------------------------------------
\* One bracket, as Graduated takes it, and the loop over the brackets.
Taken(acc, tier) ==
    IF acc.remaining <= 0 THEN acc
    ELSE LET taken == Min({acc.remaining} \union {u - acc.limit : u \in tier.upTo}) IN
         [remaining |-> acc.remaining - taken,
          limit |-> IF tier.upTo = {} THEN acc.limit ELSE Max(tier.upTo),
          total |-> acc.total + tier.unit * taken]

\* The loop of graduated pricing: what is left, the last limit, the total so far.
Untaken(quantity) == [remaining |-> quantity, limit |-> 0, total |-> 0]

Brackets(tiers, quantity) ==
    CHOOSE g : g = [S \in SUBSET (DOMAIN tiers) |->
        IF S = {} THEN Untaken(quantity) ELSE Taken(g[S \ {Max(S)}], tiers[Max(S)])]

\* The result of the loop is its account after all the tiers.
LEMMA GraduatedIsTaken ==
    \A tiers, quantity : Graduated(tiers, quantity) = Brackets(tiers, quantity)[DOMAIN tiers].total
BY DEF Graduated, FoldLeft, MapThenFoldSet, Brackets, Taken, Untaken

\* t tiers with integral prices, each with one limit or none.
IsTierList(tiers, t) ==
    /\ t \in Nat /\ DOMAIN tiers = 1..t
    /\ \A i \in 1..t : tiers[i].upTo \in AtMostOne /\ tiers[i].unit \in Int

Account == [remaining : Int, limit : Int, total : Int]

\* A round of the loop keeps the account integral.
LEMMA TakenIsWhole ==
    ASSUME NEW acc \in Account, NEW tier, tier.upTo \in AtMostOne, tier.unit \in Int, acc.remaining > 0
    PROVE  /\ Taken(acc, tier) \in Account
           /\ tier.upTo = {} =>
                 Taken(acc, tier) = [remaining |-> 0, limit |-> acc.limit,
                                     total |-> acc.total + tier.unit * acc.remaining]
           /\ \A u \in tier.upTo : Taken(acc, tier) =
                 LET taken == IF acc.remaining <= u - acc.limit THEN acc.remaining ELSE u - acc.limit
                 IN  [remaining |-> acc.remaining - taken, limit |-> u,
                      total |-> acc.total + tier.unit * taken]
<1> DEFINE least == Min({acc.remaining} \union {u - acc.limit : u \in tier.upTo})
<1>0. acc.remaining \in Int /\ acc.limit \in Int /\ acc.total \in Int /\ ~(acc.remaining <= 0)
  BY DEF Account
<1>3. Taken(acc, tier) = [remaining |-> acc.remaining - least,
                          limit |-> IF tier.upTo = {} THEN acc.limit ELSE Max(tier.upTo),
                          total |-> acc.total + tier.unit * least]
  BY <1>0 DEF Taken
<1>1. CASE tier.upTo = {}
  <2>1. {acc.remaining} \union {u - acc.limit : u \in tier.upTo} = {acc.remaining}
    BY <1>1
  <2>2. Min({acc.remaining}) = acc.remaining
    BY <1>0, LeastOf
  <2>3. Taken(acc, tier) = [remaining |-> 0, limit |-> acc.limit,
                            total |-> acc.total + tier.unit * acc.remaining]
    <3>1. acc.remaining - acc.remaining = 0
      BY <1>0
    <3>2. least = acc.remaining
      BY <2>1, <2>2
    <3> HIDE DEF least
    <3> QED  BY <1>1, <1>3, <3>1, <3>2
  <2>4. acc.total + tier.unit * acc.remaining \in Int
    BY <1>0
  <2> QED  BY <1>0, <1>1, <2>3, <2>4 DEF Account
<1>2. CASE tier.upTo # {}
  <2>1. PICK u \in Nat : tier.upTo = {u} /\ Max(tier.upTo) = u
    BY <1>2, OneOrNone
  <2> DEFINE taken == IF acc.remaining <= u - acc.limit THEN acc.remaining ELSE u - acc.limit
  <2>2. {v - acc.limit : v \in tier.upTo} = {u - acc.limit}
    BY <2>1
  <2>3. Min({acc.remaining} \union {u - acc.limit}) = taken
    BY <1>0, LeastOfTwo
  <2>4. Taken(acc, tier) = [remaining |-> acc.remaining - taken, limit |-> u,
                            total |-> acc.total + tier.unit * taken]
    <3>1. least = taken
      BY <2>2, <2>3
    <3> HIDE DEF least, taken
    <3> QED  BY <1>2, <1>3, <2>1, <3>1
  <2>5. acc.total + tier.unit * taken \in Int /\ acc.remaining - taken \in Int
    BY <1>0
  <2>6. Taken(acc, tier) \in Account
    BY <2>4, <2>5 DEF Account
  <2> QED  BY <1>2, <2>1, <2>4, <2>6
<1> QED  BY <1>1, <1>2

TakenInOrder(tiers, quantity, t) ==
    /\ Brackets(tiers, quantity)[1..0] = Untaken(quantity)
    /\ \A k \in 1..t : Brackets(tiers, quantity)[1..k] =
          Taken(Brackets(tiers, quantity)[1..(k - 1)], tiers[k])

\* Each round takes the account of the round before and the next tier.
LEMMA BracketsStep ==
    ASSUME NEW tiers, NEW t, IsTierList(tiers, t), NEW quantity \in Nat
    PROVE  TakenInOrder(tiers, quantity, t)
<1> DEFINE F == [x \in Account \X (1..t) |-> Taken(x[1], tiers[x[2]])]
           start == Untaken(quantity)
           bracket == Brackets(tiers, quantity)
<1>0. t \in Nat /\ DOMAIN tiers = 1..t
  BY DEF IsTierList
<1>1. \A v \in Account : \A i \in 1..t : Taken(v, tiers[i]) \in Account
  <2> SUFFICES ASSUME NEW v \in Account, NEW i \in 1..t PROVE Taken(v, tiers[i]) \in Account
    OBVIOUS
  <2>1. CASE v.remaining <= 0
    BY <2>1 DEF Taken
  <2>2. CASE ~(v.remaining <= 0)
    <3>1. v.remaining > 0
      BY <2>2 DEF Account
    <3> QED  BY <3>1, TakenIsWhole DEF IsTierList
  <2> QED  BY <2>1, <2>2
<1>2. \A v \in Account : \A i \in 1..t : F[<<v, i>>] = Taken(v, tiers[i]) /\ F[<<v, i>>] \in Account
  BY <1>1
<1>3. start \in Account
  BY DEF Account, Untaken
<1>4. PICK g : Folds(t, F, start, Account, g, t)
  <2> HIDE DEF F, start
  <2> QED  BY <1>0, <1>2, <1>3, FoldsExist
<1>5. g = [S \in SUBSET (1..t) |-> IF S = {} THEN start ELSE Taken(g[S \ {Max(S)}], tiers[Max(S)])]
  <2> HIDE DEF F, start
  <2>1. \A S \in SUBSET (1..t) : S # {} => Max(S) \in 1..t /\ S \ {Max(S)} \in SUBSET (1..t)
    BY <1>0, LastIndex
  <2>2. \A S \in SUBSET (1..t) : S # {} => g[S] = Taken(g[S \ {Max(S)}], tiers[Max(S)])
    BY <1>2, <1>4, <2>1 DEF Folds
  <2>3. g[{}] = start /\ g \in [SUBSET (1..t) -> Account]
    BY <1>4 DEF Folds
  <2> QED  BY <2>2, <2>3
<1>6. bracket = [S \in SUBSET (1..t) |->
                    IF S = {} THEN start ELSE Taken(bracket[S \ {Max(S)}], tiers[Max(S)])]
  BY <1>0, <1>5 DEF Brackets
<1> HIDE DEF bracket
<1>7. bracket[1..0] = start
  <2>1. 1..0 = {} /\ 1..0 \in SUBSET (1..t)
    OBVIOUS
  <2> QED  BY <1>6, <2>1
<1>8. ASSUME NEW k \in 1..t
      PROVE  bracket[1..k] = Taken(bracket[1..(k - 1)], tiers[k])
  <2>1. /\ 1..k \in SUBSET (1..t) /\ 1..k # {}
        /\ Max(1..k) = k /\ (1..k) \ {k} = 1..(k - 1)
    BY <1>0, LastOfPrefix
  <2> QED  BY <1>6, <2>1
<1> QED  BY <1>7, <1>8 DEF bracket, TakenInOrder

\* The price of the k-th event, and the tier it falls into.
TierPrice(tiers, k) ==
    LET open == {j \in DOMAIN tiers : \A u \in tiers[j].upTo : k <= u} IN
    IF open = {} THEN 0 ELSE tiers[Min(open)].unit

\* An event is priced by the first tier whose limit it does not exceed ...
LEMMA PriceInTier ==
    ASSUME NEW tiers, NEW t, IsTierList(tiers, t), NEW k \in Nat, NEW j \in 1..t,
           \A i \in 1..(j - 1) : \E u \in tiers[i].upTo : u < k,
           \A u \in tiers[j].upTo : k <= u
    PROVE  TierPrice(tiers, k) = tiers[j].unit
<1> DEFINE open == {i \in DOMAIN tiers : \A u \in tiers[i].upTo : k <= u}
<1>0. t \in Nat /\ DOMAIN tiers = 1..t /\ \A i \in 1..t : tiers[i].upTo \in AtMostOne
  BY DEF IsTierList
<1>1. j \in open /\ open \subseteq Int
  BY <1>0
<1>2. ASSUME NEW i \in open PROVE j <= i
  <2> SUFFICES ASSUME i < j PROVE FALSE
    BY <1>0
  <2>1. i \in 1..(j - 1)
    BY <1>0
  <2>2. PICK u \in tiers[i].upTo : u < k
    BY <2>1
  <2>3. u \in Nat /\ k <= u
    BY <1>0 DEF AtMostOne
  <2> QED  BY <2>2, <2>3
<1>3. Min(open) = j
  <2> HIDE DEF open
  <2> QED  BY <1>1, <1>2, LeastOf
<1> QED  BY <1>1, <1>3 DEF TierPrice

\* ... and is free beyond the last.
LEMMA PriceBeyondTiers ==
    ASSUME NEW tiers, NEW t, IsTierList(tiers, t), NEW k \in Nat,
           \A i \in 1..t : \E u \in tiers[i].upTo : u < k
    PROVE  TierPrice(tiers, k) = 0
<1>0. t \in Nat /\ DOMAIN tiers = 1..t /\ \A i \in 1..t : tiers[i].upTo \in AtMostOne
  BY DEF IsTierList
<1>1. ASSUME NEW i \in 1..t PROVE ~ \A u \in tiers[i].upTo : k <= u
  <2>1. PICK u \in tiers[i].upTo : u < k
    OBVIOUS
  <2>2. u \in Nat
    BY <1>0 DEF AtMostOne
  <2> QED  BY <2>1, <2>2
<1> QED  BY <1>0, <1>1 DEF TierPrice

\* After j brackets: what is taken is paid for, and all j are used up if anything is left.
UsedUp(tiers, j, n, g, acc) ==
    /\ acc \in Account
    /\ acc.remaining \in 0..n
    /\ acc.total = g[n - acc.remaining]
    /\ acc.remaining > 0 =>
          /\ acc.limit = n - acc.remaining
          /\ \A i \in 1..j : \E u \in tiers[i].upTo : u <= acc.limit
          /\ IF j = 0 THEN acc.limit = 0 ELSE acc.limit \in tiers[j].upTo

\* With ascending limits every round prices the events of its tier, and no others.
LEMMA UsesUp ==
    ASSUME NEW tiers, NEW t, IsTierList(tiers, t), Ascending(tiers), NEW n \in Nat,
           NEW g, NEW s, AddsUp(g, s, n), \A k \in 1..n : s[k] = TierPrice(tiers, k),
           NEW j \in 1..t, NEW acc, UsedUp(tiers, j - 1, n, g, acc)
    PROVE  UsedUp(tiers, j, n, g, Taken(acc, tiers[j]))
<1> DEFINE tier == tiers[j]
           c == n - acc.remaining
<1>0. /\ t \in Nat /\ DOMAIN tiers = 1..t
      /\ \A i \in 1..t : tiers[i].upTo \in AtMostOne /\ tiers[i].unit \in Int
      /\ acc \in Account /\ acc.remaining \in 0..n /\ acc.limit \in Int /\ acc.total \in Int
      /\ acc.total = g[c]
      /\ \A k \in 0..n : g[k] \in Int
  BY DEF IsTierList, UsedUp, Account, AddsUp
<1>1. CASE acc.remaining <= 0
  <2>1. Taken(acc, tier) = acc /\ ~(acc.remaining > 0)
    BY <1>0, <1>1 DEF Taken
  <2> QED  BY <2>1 DEF UsedUp
<1>2. CASE acc.remaining > 0
  <2>1. /\ acc.limit = c /\ c \in 0..(n - 1)
        /\ \A i \in 1..(j - 1) : \E u \in tiers[i].upTo : u <= c
        /\ j - 1 # 0 => c \in tiers[j - 1].upTo
    BY <1>0, <1>2 DEF UsedUp
  <2>2. \A i \in 1..(j - 1) : \A k \in (c + 1)..n : \E u \in tiers[i].upTo : u < k
    <3> SUFFICES ASSUME NEW i \in 1..(j - 1), NEW k \in (c + 1)..n
                 PROVE  \E u \in tiers[i].upTo : u < k
      OBVIOUS
    <3>1. PICK u \in tiers[i].upTo : u <= c
      BY <2>1
    <3>2. i \in 1..t
      BY <1>0
    <3>3. u \in Nat
      BY <1>0, <3>2 DEF AtMostOne
    <3>4. u < k
      BY <2>1, <3>1, <3>3
    <3> QED  BY <3>4
  \* What the bracket takes is priced by its tier.
  <2>3. ASSUME NEW m \in 0..acc.remaining, \A u \in tier.upTo : c + m <= u
        PROVE  g[c + m] = g[c] + tier.unit * m /\ c + m \in 0..n
    <3>1. \A k \in (c + 1)..(c + m) : s[k] = tier.unit
      <4> SUFFICES ASSUME NEW k \in (c + 1)..(c + m) PROVE s[k] = tier.unit
        OBVIOUS
      <4>1. k \in 1..n /\ k \in (c + 1)..n /\ k \in Nat
        BY <1>0, <2>1
      <4>2. \A u \in tier.upTo : k <= u
        <5>1. \A u \in tier.upTo : u \in Nat
          BY <1>0 DEF AtMostOne
        <5> QED  BY <1>0, <2>1, <2>3, <5>1
      <4> QED  BY <2>2, <4>1, <4>2, PriceInTier
    <3>2. c \in 0..n /\ c + m \in c..n /\ c + m \in 0..n /\ tier.unit \in Int
      BY <1>0, <2>1
    <3>3. g[c + m] = g[c] + tier.unit * ((c + m) - c)
      <4> DEFINE to == c + m
                 price == tier.unit
      <4>1. c \in 0..n /\ to \in c..n /\ price \in Int /\ \A k \in (c + 1)..to : s[k] = price
        BY <3>1, <3>2
      <4> HIDE DEF c, tier, to, price
      <4>2. g[to] = g[c] + price * (to - c)
        BY <4>1, ConstantStretch
      <4> QED  BY <4>2 DEF to, price
    <3>4. (c + m) - c = m
      BY <1>0, <2>1
    <3> QED  BY <3>2, <3>3, <3>4
  <2>4. CASE tier.upTo = {}
    <3>1. Taken(acc, tier) = [remaining |-> 0, limit |-> acc.limit,
                              total |-> acc.total + tier.unit * acc.remaining]
      BY <1>0, <1>2, <2>4, TakenIsWhole
    <3>2. g[n] = g[c] + tier.unit * acc.remaining
      <4>1. acc.remaining \in 0..acc.remaining /\ c + acc.remaining = n
        BY <1>0, <2>1
      <4>2. g[c + acc.remaining] = g[c] + tier.unit * acc.remaining
        BY <2>3, <2>4, <4>1
      <4> QED  BY <4>1, <4>2
    <3>3. g[n - 0] = g[c] + tier.unit * acc.remaining /\ g[c] + tier.unit * acc.remaining \in Int
      <4>1. n - 0 = n /\ g[n] \in Int
        BY <1>0
      <4> QED  BY <3>2, <4>1
    <3>4. Taken(acc, tier).remaining = 0 /\ Taken(acc, tier).total = g[n - 0]
      BY <1>0, <3>1, <3>3
    <3>5. Taken(acc, tier) \in Account
      BY <1>0, <1>2, TakenIsWhole
    <3> QED  BY <3>4, <3>5 DEF UsedUp
  <2>5. CASE tier.upTo # {}
    <3>1. PICK u \in Nat : tier.upTo = {u}
      BY <1>0, <2>5, OneOrNone
    <3>2. c <= u
      <4>1. CASE j = 1
        <5>1. acc.limit = 0
          BY <1>2, <4>1 DEF UsedUp
        <5> QED  BY <2>1, <5>1
      <4>2. CASE j # 1
        <5>1. j - 1 \in DOMAIN tiers /\ j \in DOMAIN tiers /\ j - 1 < j /\ j - 1 # 0
          BY <1>0, <4>2
        <5>2. PICK w \in tiers[j - 1].upTo : \A v \in tiers[j].upTo : w < v
          BY <5>1 DEF Ascending
        <5>3. w = c
          BY <1>0, <2>1, <5>1 DEF AtMostOne
        <5> QED  BY <3>1, <5>2, <5>3, <2>1
      <4> QED  BY <4>1, <4>2
    <3> DEFINE m == IF acc.remaining <= u - acc.limit THEN acc.remaining ELSE u - acc.limit
    <3>3. Taken(acc, tier) = [remaining |-> acc.remaining - m, limit |-> u,
                              total |-> acc.total + tier.unit * m]
      BY <1>0, <1>2, <3>1, TakenIsWhole
    <3>4. m \in 0..acc.remaining /\ c + m <= u
      <4>1. acc.remaining \in 0..n /\ u - acc.limit >= 0 /\ u - acc.limit = u - c /\ c \in Int
        BY <1>0, <2>1, <3>2
      <4> HIDE DEF c
      <4> QED  BY <4>1
    <3>5. g[c + m] = g[c] + tier.unit * m /\ c + m \in 0..n
      <4> HIDE DEF c, m, tier
      <4> QED  BY <2>3, <3>1, <3>4
    <3>6. n - (acc.remaining - m) = c + m /\ acc.remaining - m \in 0..n
      <4>1. acc.remaining \in 0..n /\ m \in 0..acc.remaining
        BY <1>0, <3>4
      <4> HIDE DEF m
      <4> QED  BY <4>1
    <3>7. /\ Taken(acc, tier).remaining = acc.remaining - m
          /\ Taken(acc, tier).limit = u
          /\ Taken(acc, tier).total = g[n - (acc.remaining - m)]
      BY <1>0, <3>3, <3>5, <3>6
    <3>8. Taken(acc, tier) \in Account
      BY <1>0, <1>2, TakenIsWhole
    <3>9. ASSUME acc.remaining - m > 0
          PROVE  /\ u = n - (acc.remaining - m)
                 /\ \A i \in 1..j : \E v \in tiers[i].upTo : v <= u
                 /\ u \in tiers[j].upTo
      <4>1. m = u - acc.limit
        BY <1>0, <3>9
      <4>2. u = n - (acc.remaining - m)
        BY <1>0, <2>1, <3>6, <4>1
      <4>3. \A i \in 1..j : \E v \in tiers[i].upTo : v <= u
        <5> SUFFICES ASSUME NEW i \in 1..j PROVE \E v \in tiers[i].upTo : v <= u
          OBVIOUS
        <5>1. CASE i = j
          BY <3>1, <5>1
        <5>2. CASE i # j
          <6>1. i \in 1..(j - 1) /\ i \in 1..t
            BY <1>0, <5>2
          <6>2. PICK v \in tiers[i].upTo : v <= c
            BY <2>1, <6>1
          <6>3. v \in Nat
            BY <1>0, <6>1 DEF AtMostOne
          <6>4. v <= u
            BY <2>1, <3>2, <6>2, <6>3
          <6> QED  BY <6>4
        <5> QED  BY <5>1, <5>2
      <4> QED  BY <3>1, <4>2, <4>3
    <3> HIDE DEF m
    <3> QED  BY <3>6, <3>7, <3>8, <3>9 DEF UsedUp
  <2> QED  BY <2>4, <2>5
<1> QED  BY <1>0, <1>1, <1>2

\* So graduated pricing is the sum of the prices of the events, one by one.
LEMMA GraduatedByEvent ==
    ASSUME NEW tiers, NEW t, IsTierList(tiers, t), Ascending(tiers), NEW n \in Nat,
           NEW s, DOMAIN s = 1..n, \A k \in 1..n : s[k] = TierPrice(tiers, k)
    PROVE  Graduated(tiers, n) = Total(s)
<1>0. t \in Nat /\ DOMAIN tiers = 1..t /\ \A i \in 1..t : tiers[i].unit \in Int
  BY DEF IsTierList
<1>1. \A k \in 1..n : s[k] \in Int
  <2>1. \A S \in SUBSET (1..t) : S # {} => Min(S) \in S
    <3> SUFFICES ASSUME NEW S \in SUBSET (1..t), S # {} PROVE Min(S) \in S
      OBVIOUS
    <3>1. S \subseteq Nat /\ S \subseteq Int
      BY <1>0
    <3>2. PICK x \in S : \A y \in S : x <= y
      BY <3>1, LeastNat
    <3> QED  BY <3>1, <3>2, LeastOf
  <2> SUFFICES ASSUME NEW k \in 1..n PROVE TierPrice(tiers, k) \in Int
    OBVIOUS
  <2> DEFINE open == {j \in DOMAIN tiers : \A u \in tiers[j].upTo : k <= u}
  <2>2. open \in SUBSET (1..t)
    BY <1>0
  <2> HIDE DEF open
  <2>3. open # {} => tiers[Min(open)].unit \in Int
    BY <1>0, <2>1, <2>2
  <2>4. TierPrice(tiers, k) = IF open = {} THEN 0 ELSE tiers[Min(open)].unit
    BY DEF TierPrice, open
  <2> QED  BY <2>3, <2>4
<1>2. PICK g : AddsUp(g, s, n) /\ Total(s) = g[n]
  BY <1>1, TotalsAddUp
<1> DEFINE acc(j) == Brackets(tiers, n)[1..j]
           Bad == {j \in 0..t : ~UsedUp(tiers, j, n, g, acc(j))}
<1>3. acc(0) = Untaken(n) /\ \A j \in 1..t : acc(j) = Taken(acc(j - 1), tiers[j])
  <2>1. TakenInOrder(tiers, n, t)
    BY BracketsStep
  <2> QED  BY <2>1 DEF TakenInOrder
<1>4. 0 \notin Bad
  <2>1. UsedUp(tiers, 0, n, g, Untaken(n))
    <3>1. n - n = 0 /\ g[0] = 0 /\ n \in 0..n /\ 1..0 = {} /\ ~(0 > 0)
      BY <1>2 DEF AddsUp
    <3>2. Untaken(n) \in Account /\ Untaken(n).remaining = n /\ Untaken(n).limit = 0 /\ Untaken(n).total = 0
      BY DEF Untaken, Account
    <3> QED  BY <3>1, <3>2 DEF UsedUp
  <2>2. UsedUp(tiers, 0, n, g, acc(0))
    <3> HIDE DEF acc
    <3> QED  BY <1>3, <2>1
  <2> HIDE DEF acc
  <2> QED  BY <2>2
<1>5. Bad = {}
  <2> SUFFICES ASSUME Bad # {} PROVE FALSE
    OBVIOUS
  <2>1. PICK j \in Bad : \A m \in Bad : j <= m
    <3>1. Bad \subseteq Nat
      OBVIOUS
    <3> HIDE DEF Bad
    <3> QED  BY <3>1, LeastNat
  <2>2. j \in 1..t
    <3>1. j \in 0..t /\ j # 0
      BY <1>4
    <3> QED  BY <3>1
  <2>3. j - 1 \in 0..t /\ j - 1 \notin Bad
    <3> HIDE DEF Bad
    <3> QED  BY <1>0, <2>1, <2>2
  <2> HIDE DEF acc
  <2>4. UsedUp(tiers, j - 1, n, g, acc(j - 1))
    BY <2>3
  <2>5. UsedUp(tiers, j, n, g, Taken(acc(j - 1), tiers[j]))
    <3> HIDE DEF Bad
    <3> QED  BY <1>2, <2>2, <2>4, UsesUp
  <2>6. UsedUp(tiers, j, n, g, acc(j))
    BY <1>3, <2>2, <2>5
  <2> QED  BY <2>6
<1> DEFINE last == acc(t)
<1>6. UsedUp(tiers, t, n, g, last)
  <2>1. t \in 0..t
    BY <1>0
  <2> HIDE DEF acc
  <2> QED  BY <1>5, <2>1
<1>7. last.total = g[n]
  <2> HIDE DEF last
  <2>1. CASE last.remaining = 0
    <3>1. n - 0 = n
      OBVIOUS
    <3> QED  BY <1>6, <2>1, <3>1 DEF UsedUp
  <2>2. CASE last.remaining # 0
    <3> DEFINE c == n - last.remaining
    <3>1. /\ c \in 0..n /\ last.limit = c /\ last.total = g[c]
          /\ \A i \in 1..t : \E u \in tiers[i].upTo : u <= c
      BY <1>6, <2>2 DEF UsedUp
    <3>2. \A k \in (c + 1)..n : s[k] = 0
      <4> SUFFICES ASSUME NEW k \in (c + 1)..n PROVE s[k] = 0
        OBVIOUS
      <4>1. k \in 1..n /\ k \in Nat
        BY <3>1
      <4>2. \A i \in 1..t : \E u \in tiers[i].upTo : u < k
        <5> SUFFICES ASSUME NEW i \in 1..t PROVE \E u \in tiers[i].upTo : u < k
          OBVIOUS
        <5>1. PICK u \in tiers[i].upTo : u <= c
          BY <3>1
        <5>2. u \in Nat
          BY DEF IsTierList, AtMostOne
        <5>3. u < k
          BY <3>1, <5>1, <5>2
        <5> QED  BY <5>3
      <4> QED  BY <4>1, <4>2, PriceBeyondTiers
    <3>3. g[n] = g[c] + 0 * (n - c)
      <4>1. n \in c..n
        BY <3>1
      <4> HIDE DEF c
      <4> QED  BY <1>2, <3>1, <3>2, <4>1, ConstantStretch
    <3>4. 0 * (n - c) = 0 /\ g[c] \in Int
      BY <1>2, <3>1 DEF AddsUp
    <3> QED  BY <3>1, <3>3, <3>4
  <2> QED  BY <2>1, <2>2
<1>8. Graduated(tiers, n) = last.total
  BY <1>0, GraduatedIsTaken
<1> QED  BY <1>2, <1>7, <1>8

-----------------------------------------------------------------------------
(* Prices *)

\* Rounding a whole quotient leaves it alone.
LEMMA WholeStays ==
    ASSUME NEW d \in Int \ {0}, NEW q \in Int
    PROVE  HalfUp(d * q, d) = q
<1> DEFINE e == Magnitude(d)
           p == Magnitude(q)
           n == d * q
<1>1. e \in Nat \ {0} /\ p \in Nat /\ n \in Int
  BY DEF Magnitude
<1>2. Magnitude(n) = e * p
  BY DEF Magnitude
<1>3. IF n < 0 <=> d < 0 THEN q = p ELSE q = -p
  BY DEF Magnitude
<1>4. (2 * Magnitude(n) + e) \div (2 * e) = p
  <2> HIDE DEF e, p, n
  <2>1. 2 * e \in Nat \ {0} /\ e \in 0..(2 * e - 1)
    BY <1>1
  <2>2. 2 * (e * p) + e = (2 * e) * p + e /\ (2 * e) * p + e \in Int
    BY <1>1
  <2>3. (2 * (e * p) + e) \div (2 * e) = p
    BY <1>1, <2>1, <2>2, QuotientIsUnique
  <2> QED  BY <1>2, <2>3
<1>5. HalfUp(n, d) = IF n < 0 <=> d < 0 THEN p ELSE -p
  <2> HIDE DEF p
  <2> QED  BY <1>4 DEF HalfUp, e
<1> HIDE DEF p
<1> QED  BY <1>1, <1>3, <1>5

\* The outcomes that meet the conditions of a rule, and how many it charges.
Meeting(rule, outcomes) == {k \in DOMAIN outcomes : rule.outcome.when \subseteq outcomes[k].props}

\* It charges those that the cap allows.
LEMMA BillableIsCapped ==
    ASSUME NEW rule, rule.outcome.cap \in AtMostOne, NEW outcomes, IsFiniteSet(DOMAIN outcomes)
    PROVE  /\ Cardinality(Meeting(rule, outcomes)) \in Nat
           /\ BillableCount(rule, outcomes) \in 0..Cardinality(Meeting(rule, outcomes))
           /\ \A k \in Nat : k > BillableCount(rule, outcomes) /\ k <= Cardinality(Meeting(rule, outcomes))
                                <=> /\ k <= Cardinality(Meeting(rule, outcomes))
                                    /\ \E c \in rule.outcome.cap : k > c
           /\ rule.outcome.cap = {} =>
                 BillableCount(rule, outcomes) = Cardinality(Meeting(rule, outcomes))
<1> DEFINE n == Cardinality(Meeting(rule, outcomes))
<1>1. n \in Nat
  <2>1. IsFiniteSet(Meeting(rule, outcomes))
    BY FS_Subset DEF Meeting
  <2> QED  BY <2>1, FS_CardinalityType
<1>2. BillableCount(rule, outcomes) = Min({n} \union rule.outcome.cap)
  BY DEF BillableCount, Meeting
<1> HIDE DEF n
<1>3. CASE rule.outcome.cap = {}
  <2>1. {n} \union rule.outcome.cap = {n} /\ Min({n}) = n
    BY <1>1, <1>3, LeastOf
  <2>2. BillableCount(rule, outcomes) = n
    BY <1>2, <2>1
  <2> QED  BY <1>1, <1>3, <2>2 DEF n
<1>4. CASE rule.outcome.cap # {}
  <2>1. PICK c \in Nat : rule.outcome.cap = {c}
    BY <1>4, OneOrNone
  <2>2. BillableCount(rule, outcomes) = IF n <= c THEN n ELSE c
    BY <1>1, <1>2, <2>1, LeastOfTwo
  <2> QED  BY <1>1, <2>1, <2>2 DEF n
<1> QED  BY <1>3, <1>4

\* How many events a rule is charged for, from what was collected for its metric.
ChargedCount(rule, usage) ==
    IF rule.model = "outcome" THEN Cardinality(Meeting(rule, usage.outcomes)) ELSE usage.quantity

\* What was collected for a metric is countable.
IsUsage(usage) == usage.quantity \in Nat /\ IsFiniteSet(DOMAIN usage.outcomes)

\* What PricedByEvent says of one line, for n events.
LineIsPriced(rule, usage, n) ==
    LET line == LineItem(rule, usage)
        charged == {k \in 1..n : PriceOfEvent(rule, k) # 0}
    IN  IF rule.model = "flat" THEN line.amount = RoundMoney(rule.flat)
        ELSE Ascending(rule.tiers) =>
            /\ line.amount = RoundMoney(Total([k \in 1..n |-> PriceOfEvent(rule, k)]))
            /\ (rule.model = "outcome" /\ OutcomePrice(rule) % 100 = 0) =>
                  line.quantity = 100 * Cardinality(charged)

\* The columns of a rule, typed.
LEMMA RuleFields ==
    ASSUME NEW rule, IsRule(rule)
    PROVE  /\ rule.flat \in Int /\ rule.unit \in Int /\ rule.model \in PricingModel
           /\ rule.outcome.price \in Int /\ rule.outcome.perUnit \in Int /\ rule.outcome.rate \in Int
           /\ rule.outcome.cap \in AtMostOne
           /\ OutcomePrice(rule) \in Int
           /\ rule.tiers \in Seq([upTo : AtMostOne, unit : Int])
           /\ IsTierList(rule.tiers, Len(rule.tiers))
<1>1. rule \in [model : PricingModel, metric : {rule.metric}, flat : Int, unit : Int,
                tiers : Seq([upTo : AtMostOne, unit : Int]),
                outcome : [price : Int, cap : AtMostOne, when : {rule.outcome.when},
                           perUnit : Int, rate : Int]]
  BY DEF IsRule
<1>2. rule.outcome \in [price : Int, cap : AtMostOne, when : {rule.outcome.when},
                        perUnit : Int, rate : Int]
  BY <1>1
<1>3. rule.tiers \in Seq([upTo : AtMostOne, unit : Int])
  BY <1>1
<1>4. IsTierList(rule.tiers, Len(rule.tiers))
  <2> DEFINE tiers == rule.tiers
             Tiers == [upTo : AtMostOne, unit : Int]
  <2>1. Len(tiers) \in Nat /\ DOMAIN tiers = 1..Len(tiers) /\ \A i \in 1..Len(tiers) : tiers[i] \in Tiers
    <3> HIDE DEF Tiers, tiers
    <3>1. tiers \in Seq(Tiers)
      BY <1>3 DEF tiers, Tiers
    <3> QED  BY <3>1
  <2>2. \A i \in 1..Len(tiers) : tiers[i].upTo \in AtMostOne /\ tiers[i].unit \in Int
    BY <2>1
  <2> QED  BY <2>1, <2>2 DEF IsTierList
<1>5. /\ rule.outcome.price \in Int /\ rule.outcome.perUnit \in Int /\ rule.outcome.rate \in Int
      /\ rule.outcome.cap \in AtMostOne
  BY <1>2
<1>6. rule.flat \in Int /\ rule.unit \in Int /\ rule.model \in PricingModel
  BY <1>1
<1>7. OutcomePrice(rule) \in Int
  BY <1>5, <1>6 DEF OutcomePrice
<1> QED  BY <1>3, <1>4, <1>5, <1>6, <1>7

\* A flat rule charges its fee.
LEMMA FlatLine ==
    ASSUME NEW rule, NEW usage, rule.model = "flat"
    PROVE  LineItem(rule, usage).amount = RoundMoney(rule.flat)
BY DEF LineItem, Amount

\* The amount of a line, event by event, for each pricing model.
LEMMA AmountByEvent ==
    ASSUME NEW rule, IsRule(rule), Priceable(rule), rule.model # "flat", Ascending(rule.tiers),
           NEW usage, IsUsage(usage), NEW n, n = ChargedCount(rule, usage)
    PROVE  /\ n \in Nat
           /\ Amount(rule, usage) = RoundMoney(Total([k \in 1..n |-> PriceOfEvent(rule, k)]))
<1> DEFINE s == [k \in 1..n |-> PriceOfEvent(rule, k)]
<1>0. n \in Nat
  BY RuleFields, BillableIsCapped DEF ChargedCount, IsUsage
<1>1. CASE rule.model = "usage"
  <2>1. s = [k \in 1..n |-> rule.unit]
    BY <1>1 DEF PriceOfEvent
  <2>2. Total(s) = rule.unit * n
    BY <1>0, <2>1, RuleFields, ConstantTotal
  <2>3. Amount(rule, usage) = RoundMoney(rule.unit * n)
    BY <1>1 DEF Amount, ChargedCount
  <2> QED  BY <1>0, <2>2, <2>3
<1>2. CASE rule.model = "credit"
  <2> DEFINE price == rule.outcome.perUnit * rule.outcome.rate
  <2>0. price \in Int /\ rule.outcome.perUnit \in Int /\ rule.outcome.rate \in Int
    BY RuleFields
  <2>1. s = [k \in 1..n |-> price]
    BY <1>2 DEF PriceOfEvent
  <2>2. Total(s) = price * n
    <3> HIDE DEF price
    <3> QED  BY <1>0, <2>0, <2>1, ConstantTotal
  <2>3. Amount(rule, usage) = RoundMoney(n * rule.outcome.perUnit * rule.outcome.rate)
    BY <1>2 DEF Amount, ChargedCount
  <2>4. n * rule.outcome.perUnit * rule.outcome.rate = price * n
    BY <1>0, <2>0
  <2> QED  BY <1>0, <2>2, <2>3, <2>4
<1>3. CASE rule.model = "outcome"
  <2> DEFINE price == OutcomePrice(rule)
             m == BillableCount(rule, usage.outcomes)
  <2>0. price \in Int /\ n = Cardinality(Meeting(rule, usage.outcomes)) /\ m \in 0..n
    BY <1>3, RuleFields, BillableIsCapped DEF ChargedCount, IsUsage
  <2>1. \A k \in 1..n : s[k] = IF k > m THEN 0 ELSE price
    <3> SUFFICES ASSUME NEW k \in 1..n PROVE s[k] = IF k > m THEN 0 ELSE price
      OBVIOUS
    <3>1. k > m <=> \E c \in rule.outcome.cap : k > c
      <4>1. k \in Nat /\ k <= n
        BY <1>0
      <4> QED  BY <2>0, <4>1, RuleFields, BillableIsCapped DEF IsUsage
    <3>2. PriceOfEvent(rule, k) = IF \E c \in rule.outcome.cap : k > c THEN 0 ELSE price
      BY <1>3 DEF PriceOfEvent
    <3> HIDE DEF price, m
    <3> QED  BY <3>1, <3>2
  <2>2. Total(s) = price * m
    <3>1. DOMAIN s = 1..n
      OBVIOUS
    <3> HIDE DEF price, m, s
    <3> QED  BY <1>0, <2>0, <2>1, <3>1, CappedTotal
  <2>3. Amount(rule, usage) = RoundMoney(price * m)
    BY <1>3 DEF Amount
  <2> QED  BY <1>0, <2>2, <2>3
<1>4. CASE rule.model = "tiered"
  <2>1. \A k \in 1..n : s[k] = TierPrice(rule.tiers, k)
    BY <1>4 DEF PriceOfEvent, TierPrice
  <2>2. Graduated(rule.tiers, n) = Total(s)
    <3>1. DOMAIN s = 1..n
      OBVIOUS
    <3> HIDE DEF s
    <3> QED  BY <1>0, <2>1, <3>1, RuleFields, GraduatedByEvent
  <2>3. Amount(rule, usage) = RoundMoney(Graduated(rule.tiers, n))
    BY <1>4 DEF Amount, ChargedCount
  <2> QED  BY <1>0, <2>2, <2>3
<1>5. rule.model \in {"usage", "credit", "outcome", "tiered"}
  BY DEF Priceable
<1> QED  BY <1>1, <1>2, <1>3, <1>4, <1>5

\* The quantity an outcome line derives from its amount is the number charged.
LEMMA QuantityByEvent ==
    ASSUME NEW rule, IsRule(rule), Priceable(rule), rule.model = "outcome", OutcomePrice(rule) % 100 = 0,
           NEW usage, IsUsage(usage), NEW n, n = ChargedCount(rule, usage)
    PROVE  /\ Quantity(rule, usage) = 100 * BillableCount(rule, usage.outcomes)
           /\ BillableCount(rule, usage.outcomes) = Cardinality({k \in 1..n : PriceOfEvent(rule, k) # 0})
           /\ Amount(rule, usage) = OutcomePrice(rule) * BillableCount(rule, usage.outcomes)
<1> DEFINE price == OutcomePrice(rule)
           m == BillableCount(rule, usage.outcomes)
           charged == {k \in 1..n : PriceOfEvent(rule, k) # 0}
<1>0. price \in Int /\ price # 0 /\ n \in Nat /\ n = Cardinality(Meeting(rule, usage.outcomes)) /\ m \in 0..n
  BY RuleFields, BillableIsCapped DEF ChargedCount, IsUsage, Priceable
<1>1. Amount(rule, usage) = price * m
  <2>1. Amount(rule, usage) = RoundMoney(price * m)
    BY DEF Amount
  <2>2. PICK q \in Int : price = 100 * q
    BY <1>0
  <2>3. price * m = 100 * (q * m) /\ q * m \in Int
    BY <1>0, <2>2
  <2> QED  BY <2>1, <2>3, CentsStay
<1>2. Quantity(rule, usage) = HalfUp(100 * (price * m), price)
  BY <1>1 DEF Quantity
<1>3. HalfUp(100 * (price * m), price) = 100 * m
  <2> HIDE DEF price, m
  <2>1. 100 * (price * m) = price * (100 * m) /\ 100 * m \in Int
    BY <1>0
  <2> QED  BY <1>0, <2>1, WholeStays
<1>4. charged = 1..m
  <2>1. \A k \in 1..n : PriceOfEvent(rule, k) = IF \E c \in rule.outcome.cap : k > c THEN 0 ELSE price
    BY DEF PriceOfEvent
  <2>2. \A k \in 1..n : k > m <=> \E c \in rule.outcome.cap : k > c
    <3> SUFFICES ASSUME NEW k \in 1..n PROVE k > m <=> \E c \in rule.outcome.cap : k > c
      OBVIOUS
    <3>1. k \in Nat /\ k <= n
      BY <1>0
    <3> QED  BY <1>0, <3>1, RuleFields, BillableIsCapped DEF IsUsage
  <2>3. \A k \in 1..n : PriceOfEvent(rule, k) # 0 <=> k <= m
    <3> HIDE DEF price, m
    <3> QED  BY <1>0, <2>1, <2>2
  <2> HIDE DEF m
  <2> QED  BY <1>0, <2>3
<1>5. Cardinality(1..m) = m
  <2> HIDE DEF m
  <2>1. 1 \in Int /\ m \in Int
    BY <1>0
  <2>2. Cardinality(1..m) = IF 1 > m THEN 0 ELSE m - 1 + 1
    BY <2>1, FS_Interval
  <2> QED  BY <1>0, <2>2
<1> QED  BY <1>1, <1>2, <1>3, <1>4, <1>5

\* A line is priced by the events that its rule is charged for.
LEMMA LinesArePriced ==
    ASSUME NEW rule, IsRule(rule), Priceable(rule), NEW usage, IsUsage(usage)
    PROVE  LineIsPriced(rule, usage, ChargedCount(rule, usage))
<1> DEFINE n == ChargedCount(rule, usage)
           charged == {k \in 1..n : PriceOfEvent(rule, k) # 0}
<1>1. /\ LineItem(rule, usage).amount = Amount(rule, usage)
      /\ LineItem(rule, usage).quantity = Quantity(rule, usage)
  BY DEF LineItem
<1>2. rule.model = "flat" => LineItem(rule, usage).amount = RoundMoney(rule.flat)
  BY FlatLine
<1>3. rule.model # "flat" /\ Ascending(rule.tiers) =>
         Amount(rule, usage) = RoundMoney(Total([k \in 1..n |-> PriceOfEvent(rule, k)]))
  BY AmountByEvent
<1>4. (rule.model = "outcome" /\ OutcomePrice(rule) % 100 = 0) =>
         Quantity(rule, usage) = 100 * Cardinality(charged)
  BY QuantityByEvent
<1> QED  BY <1>1, <1>2, <1>3, <1>4 DEF LineIsPriced

\* A plan of n rules.
IsPlan(rules, n) == n \in Nat /\ DOMAIN rules = 1..n /\ \A i \in 1..n : IsRule(rules[i])

LEMMA PlansAreLists ==
    ASSUME NEW rules \in Plans \union TestPlans
    PROVE  IsPlan(rules, Len(rules))
<1> DEFINE S == Range(rules)
<1>1. rules \in Seq(S) /\ \A i \in DOMAIN rules : IsRule(rules[i])
  BY PlanAssumption
<1> HIDE DEF S
<1>2. Len(rules) \in Nat /\ DOMAIN rules = 1..Len(rules)
  BY <1>1
<1> QED  BY <1>1, <1>2 DEF IsPlan

\* The first rule of a plan with the metric of the i-th.
FirstWith(rules, i) == Min({j \in DOMAIN rules : rules[j].metric = rules[i].metric})

\* It exists: the metric of a rule is the metric of some rule.
LEMMA FirstIsThere ==
    ASSUME NEW rules, NEW n, IsPlan(rules, n), NEW i \in 1..n
    PROVE  FirstWith(rules, i) \in 1..n /\ rules[FirstWith(rules, i)].metric = rules[i].metric
<1> DEFINE S == {j \in DOMAIN rules : rules[j].metric = rules[i].metric}
<1>1. i \in S /\ S \subseteq Nat /\ S \subseteq Int /\ S \subseteq 1..n
  BY DEF IsPlan
<1>2. PICK x \in S : \A y \in S : x <= y
  <2> HIDE DEF S
  <2> QED  BY <1>1, LeastNat
<1>3. Min(S) = x
  <2> HIDE DEF S
  <2> QED  BY <1>1, <1>2, LeastOf
<1> QED  BY <1>1, <1>3 DEF FirstWith

\* What calculate_line_items finds for a rule among what was aggregated.
UsageFor(rules, i, aggregated) ==
    IF rules[i].metric \in DOMAIN aggregated THEN aggregated[rules[i].metric] ELSE Nothing

\* The events of a period, in which every metric of a plan occurs.
AreEvents(rules, events) ==
    /\ \A m \in DOMAIN events : events[m].count \in Nat /\ IsFiniteSet(DOMAIN events[m].outcomes)
    /\ \A i \in DOMAIN rules : rules[i].metric \in DOMAIN events \union {""}

\* What is aggregated for a metric is what its first rule needs.
LEMMA AggregatedForFirst ==
    ASSUME NEW rules, NEW n, IsPlan(rules, n), NEW events, NEW i \in 1..n
    PROVE  UsageFor(rules, i, Aggregated(rules, events)) =
               IF rules[i].metric = "" THEN Nothing
               ELSE AggregateForRule(rules[FirstWith(rules, i)], events)
<1>1. DOMAIN rules = 1..n
  BY DEF IsPlan
<1>2. DOMAIN Aggregated(rules, events) = {rules[j].metric : j \in 1..n} \ {""}
  BY <1>1 DEF Aggregated
<1>3. CASE rules[i].metric = ""
  BY <1>2, <1>3 DEF UsageFor
<1>4. CASE rules[i].metric # ""
  <2>1. rules[i].metric \in {rules[j].metric : j \in DOMAIN rules} \ {""}
    BY <1>1, <1>4
  <2>2. Aggregated(rules, events)[rules[i].metric] = AggregateForRule(rules[FirstWith(rules, i)], events)
    BY <2>1 DEF Aggregated, FirstWith
  <2> QED  BY <1>1, <1>2, <1>4, <2>1, <2>2 DEF UsageFor
<1> QED  BY <1>3, <1>4

\* No usage, which is what a rule without a metric finds, charges nothing.
LEMMA NothingIsUsage ==
    /\ IsUsage(Nothing) /\ DOMAIN Nothing.outcomes = {} /\ Nothing.quantity = 0
    /\ \A rule : ChargedCount(rule, Nothing) = 0
<1>1. DOMAIN <<>> = {} /\ IsFiniteSet({}) /\ Cardinality({}) = 0
  BY FS_EmptySet
<1>2. Nothing.outcomes = <<>> /\ Nothing.quantity = 0
  BY DEF Nothing
<1>3. \A rule : Meeting(rule, Nothing.outcomes) = {}
  BY <1>1, <1>2 DEF Meeting
<1> QED  BY <1>1, <1>2, <1>3 DEF IsUsage, ChargedCount

\* What the aggregation collects is usage.
LEMMA AggregatedIsUsage ==
    ASSUME NEW rule, NEW events, events[rule.metric].count \in Nat,
           IsFiniteSet(DOMAIN events[rule.metric].outcomes)
    PROVE  /\ IsUsage(AggregateForRule(rule, events))
           /\ DOMAIN Validated(events[rule.metric].outcomes) \subseteq DOMAIN events[rule.metric].outcomes
<1> DEFINE outcomes == events[rule.metric].outcomes
           data == AggregateForRule(rule, events)
<1>1. DOMAIN Validated(outcomes) = {k \in DOMAIN outcomes : outcomes[k].validated}
  BY DEF Validated, Restrict
<1>2. IsFiniteSet(DOMAIN Validated(outcomes))
  BY <1>1, FS_Subset
<1>3. DOMAIN <<>> = {} /\ IsFiniteSet({})
  BY FS_EmptySet
<1>4. data.outcomes = Validated(outcomes) \/ data.outcomes = <<>>
  BY DEF AggregateForRule
<1>5. data.quantity \in Nat
  BY DEF AggregateForRule
<1> QED  BY <1>1, <1>2, <1>3, <1>4, <1>5 DEF IsUsage

\* A rule is charged for its events if it is metered, and for none otherwise.
LEMMA ChargedIfMetered ==
    ASSUME NEW rules, NEW n, IsPlan(rules, n), NEW events, AreEvents(rules, events), NEW i \in 1..n,
           Priceable(rules[i]), rules[i].model # "flat"
    PROVE  /\ IsUsage(UsageFor(rules, i, Aggregated(rules, events)))
           /\ ChargedCount(rules[i], UsageFor(rules, i, Aggregated(rules, events)))
                 = IF Metered(rules, i) THEN EventsOf(rules[i], events) ELSE 0
<1> DEFINE rule == rules[i]
           first == rules[FirstWith(rules, i)]
           usage == UsageFor(rules, i, Aggregated(rules, events))
           outcomes == events[rule.metric].outcomes
<1>0. /\ DOMAIN rules = 1..n
      /\ FirstWith(rules, i) \in 1..n /\ first.metric = rule.metric
      /\ rule.model \in {"usage", "tiered", "credit", "outcome"}
  BY FirstIsThere DEF IsPlan, Priceable
<1>1. Metered(rules, i) <=> rule.metric # "" /\ Collects(first) = Needs(rule)
  BY DEF Metered, FirstWith
<1>2. CASE rule.metric = ""
  BY <1>1, <1>2, AggregatedForFirst, NothingIsUsage
<1>3. CASE rule.metric # ""
  <2>1. usage = AggregateForRule(first, events)
    BY <1>3, AggregatedForFirst
  <2>2. rule.metric \in DOMAIN events /\ events[rule.metric].count \in Nat /\ IsFiniteSet(DOMAIN outcomes)
    BY <1>0, <1>3 DEF AreEvents
  <2>3. IsUsage(usage)
    BY <1>0, <2>1, <2>2, AggregatedIsUsage
  <2>4. /\ usage.quantity = IF first.model \in {"usage", "tiered"} THEN events[rule.metric].count ELSE 0
        /\ usage.outcomes = IF first.model = "outcome" THEN Validated(outcomes) ELSE <<>>
    BY <1>0, <2>1 DEF AggregateForRule
  <2>5. CASE rule.model = "outcome"
    <3>1. Needs(rule) = "outcomes" /\ (Collects(first) = "outcomes" <=> first.model = "outcome")
      BY <2>5 DEF Needs, Collects
    <3>2. CASE first.model = "outcome"
      <4>1. Meeting(rule, Validated(outcomes))
              = {k \in DOMAIN outcomes : outcomes[k].validated /\ rule.outcome.when \subseteq outcomes[k].props}
        BY DEF Meeting, Validated, Restrict
      <4>2. usage.outcomes = Validated(outcomes) /\ Metered(rules, i)
        BY <1>1, <1>3, <2>4, <3>1, <3>2
      <4> QED  BY <2>3, <2>5, <4>1, <4>2 DEF ChargedCount, EventsOf
    <3>3. CASE first.model # "outcome"
      <4>1. usage.outcomes = <<>> /\ ~Metered(rules, i)
        BY <1>1, <1>3, <2>4, <3>1, <3>3
      <4>2. Meeting(rule, usage.outcomes) = {} /\ Cardinality({}) = 0
        <5>1. DOMAIN <<>> = {} /\ Cardinality({}) = 0
          BY FS_EmptySet
        <5> QED  BY <4>1, <5>1 DEF Meeting
      <4> QED  BY <2>3, <2>5, <4>1, <4>2 DEF ChargedCount
    <3> QED  BY <3>2, <3>3
  <2>6. CASE rule.model # "outcome"
    <3>1. Needs(rule) = "count" /\ (Collects(first) = "count" <=> first.model \in {"usage", "tiered"})
      BY <1>0, <2>6 DEF Needs, Collects
    <3>2. ChargedCount(rule, usage) = usage.quantity /\ EventsOf(rule, events) = events[rule.metric].count
      BY <2>6 DEF ChargedCount, EventsOf
    <3> QED  BY <1>1, <1>3, <2>3, <2>4, <3>1, <3>2
  <2> QED  BY <2>5, <2>6
<1> QED  BY <1>2, <1>3

\* Graduated pricing comes to an integer, ascending limits or not.
LEMMA GraduatedIsWhole ==
    ASSUME NEW tiers, NEW t, IsTierList(tiers, t), NEW n \in Nat
    PROVE  Graduated(tiers, n) \in Int
<1> DEFINE acc(j) == Brackets(tiers, n)[1..j]
           Bad == {j \in 0..t : acc(j) \notin Account}
<1>0. t \in Nat /\ DOMAIN tiers = 1..t /\ \A i \in 1..t : tiers[i].upTo \in AtMostOne /\ tiers[i].unit \in Int
  BY DEF IsTierList
<1>1. acc(0) = Untaken(n) /\ \A j \in 1..t : acc(j) = Taken(acc(j - 1), tiers[j])
  <2>1. TakenInOrder(tiers, n, t)
    BY BracketsStep
  <2> QED  BY <2>1 DEF TakenInOrder
<1>2. Bad = {}
  <2> SUFFICES ASSUME Bad # {} PROVE FALSE
    OBVIOUS
  <2>1. PICK j \in Bad : \A m \in Bad : j <= m
    <3>1. Bad \subseteq Nat
      OBVIOUS
    <3> HIDE DEF Bad
    <3> QED  BY <3>1, LeastNat
  <2>2. j \in 1..t
    <3>1. Untaken(n) \in Account
      BY DEF Untaken, Account
    <3>2. j \in 0..t /\ j # 0
      BY <1>1, <3>1
    <3> QED  BY <3>2
  <2>3. j - 1 \in 0..t /\ j - 1 \notin Bad
    <3> HIDE DEF Bad
    <3> QED  BY <1>0, <2>1, <2>2
  <2> DEFINE before == acc(j - 1)
  <2>4. before \in Account
    BY <2>3
  <2>5. acc(j) = Taken(before, tiers[j])
    BY <1>1, <2>2
  <2> HIDE DEF acc, before
  <2>6. Taken(before, tiers[j]) \in Account
    <3>1. CASE before.remaining <= 0
      BY <2>4, <3>1 DEF Taken
    <3>2. CASE ~(before.remaining <= 0)
      <4>1. before.remaining > 0
        BY <2>4, <3>2 DEF Account
      <4> QED  BY <1>0, <2>2, <2>4, <4>1, TakenIsWhole
    <3> QED  BY <3>1, <3>2
  <2> QED  BY <2>5, <2>6
<1>3. acc(t) \in Account
  <2>1. t \in 0..t
    BY <1>0
  <2> HIDE DEF acc
  <2> QED  BY <1>2, <2>1
<1>4. Graduated(tiers, n) = acc(t).total
  BY <1>0, GraduatedIsTaken
<1> HIDE DEF acc
<1> QED  BY <1>3, <1>4 DEF Account

\* Every line is in whole cents.
LEMMA LinesAreInCents ==
    ASSUME NEW rule, IsRule(rule), Priceable(rule), NEW usage, IsUsage(usage)
    PROVE  Amount(rule, usage) \in Int /\ Amount(rule, usage) % 100 = 0
<1>1. CASE rule.model = "flat"
  BY <1>1, RuleFields, CentsStay DEF Amount
<1>2. CASE rule.model = "usage"
  <2>1. rule.unit * usage.quantity \in Int
    BY RuleFields DEF IsUsage
  <2> QED  BY <1>2, <2>1, CentsStay DEF Amount
<1>3. CASE rule.model = "outcome"
  <2>1. BillableCount(rule, usage.outcomes) \in Int /\ OutcomePrice(rule) \in Int
    BY RuleFields, BillableIsCapped DEF IsUsage
  <2>2. OutcomePrice(rule) * BillableCount(rule, usage.outcomes) \in Int
    BY <2>1
  <2> QED  BY <1>3, <2>2, CentsStay DEF Amount
<1>4. CASE rule.model = "tiered"
  <2>1. Graduated(rule.tiers, usage.quantity) \in Int
    BY RuleFields, GraduatedIsWhole DEF IsUsage
  <2> QED  BY <1>4, <2>1, CentsStay DEF Amount
<1>5. CASE rule.model = "credit"
  <2>1. usage.quantity * rule.outcome.perUnit * rule.outcome.rate \in Int
    BY RuleFields DEF IsUsage
  <2> QED  BY <1>5, <2>1, CentsStay DEF Amount
<1> QED  BY <1>1, <1>2, <1>3, <1>4, <1>5 DEF Priceable

\* The lines of a plan, and their total in whole cents.
LEMMA LinesOfAPlan ==
    ASSUME NEW rules, NEW n, IsPlan(rules, n), \A i \in 1..n : Priceable(rules[i]),
           NEW aggregated, \A i \in 1..n : IsUsage(UsageFor(rules, i, aggregated))
    PROVE  /\ DOMAIN LineItems(rules, aggregated) = 1..n
           /\ \A i \in 1..n : LineItems(rules, aggregated)[i] = LineItem(rules[i], UsageFor(rules, i, aggregated))
           /\ TotalAmount(LineItems(rules, aggregated)) \in Int
           /\ TotalAmount(LineItems(rules, aggregated)) % 100 = 0
<1> DEFINE lines == LineItems(rules, aggregated)
           amounts == [i \in DOMAIN lines |-> lines[i].amount]
<1>1. /\ n \in Nat /\ DOMAIN rules = 1..n /\ DOMAIN lines = 1..n
      /\ \A i \in 1..n : lines[i] = LineItem(rules[i], UsageFor(rules, i, aggregated))
  BY DEF IsPlan, LineItems, UsageFor
<1>2. \A i \in 1..n : lines[i].amount = Amount(rules[i], UsageFor(rules, i, aggregated))
  BY <1>1 DEF LineItem
<1>3. \A i \in 1..n : lines[i].amount \in Int /\ lines[i].amount % 100 = 0
  <2> SUFFICES ASSUME NEW i \in 1..n PROVE lines[i].amount \in Int /\ lines[i].amount % 100 = 0
    OBVIOUS
  <2> DEFINE amount == Amount(rules[i], UsageFor(rules, i, aggregated))
  <2>1. IsRule(rules[i]) /\ Priceable(rules[i]) /\ IsUsage(UsageFor(rules, i, aggregated))
    BY DEF IsPlan
  <2>2. amount \in Int /\ amount % 100 = 0
    BY <2>1, LinesAreInCents
  <2>3. lines[i].amount = amount
    BY <1>2
  <2> HIDE DEF amount, lines
  <2> QED  BY <2>2, <2>3
<1>4. Total(amounts) \in Int /\ Total(amounts) % 100 = 0
  <2>1. DOMAIN amounts = 1..n /\ \A i \in 1..n : amounts[i] = lines[i].amount
    BY <1>1
  <2> HIDE DEF amounts
  <2> QED  BY <1>1, <1>3, <2>1, CentsAddUp
<1> QED  BY <1>1, <1>4 DEF TotalAmount

\* The part of PricedByEvent about what was billed.
InvoiceIsPriced(rules, events, answer) ==
    answer.raised = "nothing" =>
        /\ Len(answer.lines) = Len(rules)
        /\ answer.subtotal = TotalAmount(answer.lines)
        /\ \A i \in DOMAIN rules :
              LET rule == rules[i]
                  line == answer.lines[i]
                  n == IF Metered(rules, i) THEN EventsOf(rule, events) ELSE 0
                  charged == {k \in 1..n : PriceOfEvent(rule, k) # 0}
              IN  IF rule.model = "flat" THEN line.amount = RoundMoney(rule.flat)
                  ELSE Ascending(rule.tiers) =>
                      /\ line.amount = RoundMoney(Total([k \in 1..n |-> PriceOfEvent(rule, k)]))
                      /\ (rule.model = "outcome" /\ OutcomePrice(rule) % 100 = 0) =>
                            line.quantity = 100 * Cardinality(charged)

\* Every invoice that run_billing_cycle makes is priced so.
LEMMA BilledByEvent ==
    ASSUME NEW rules \in Plans, NEW events \in EventSets, NEW customer, NEW policies
    PROVE  InvoiceIsPriced(rules, events, RunBillingCycle(rules, events, customer, policies))
<1> DEFINE n == Len(rules)
           aggregated == Aggregated(rules, events)
           lines == LineItems(rules, aggregated)
           answer == RunBillingCycle(rules, events, customer, policies)
           usage(i) == UsageFor(rules, i, aggregated)
<1> SUFFICES ASSUME answer.raised = "nothing" PROVE InvoiceIsPriced(rules, events, answer)
  BY DEF InvoiceIsPriced
<1>1. IsPlan(rules, n) /\ n \in Nat /\ DOMAIN rules = 1..n /\ AreEvents(rules, events)
  BY PlansAreLists, EventAssumption DEF IsPlan, AreEvents
<1>2. /\ \A i \in 1..n : Priceable(rules[i])
      /\ answer = GenerateInvoice(lines, customer)
  <2>1. \A by : Raised(by).raised = by
    BY DEF Raised
  <2> HIDE DEF lines
  <2>2. answer = IF \E i \in DOMAIN rules : ~Priceable(rules[i]) THEN Raised("price")
                 ELSE Decided(lines, customer, policies)
    BY DEF RunBillingCycle, lines
  <2>3. \A i \in DOMAIN rules : Priceable(rules[i])
    BY <2>1, <2>2
  <2>4. Decided(lines, customer, policies)
          \in {Raised("comparison"), Raised("reject"), GenerateInvoice(lines, customer)}
    BY DEF Decided
  <2> HIDE DEF answer
  <2> QED  BY <1>1, <2>1, <2>2, <2>3, <2>4
<1>3. answer.lines = lines /\ answer.subtotal = RoundMoney(TotalAmount(lines))
  <2> HIDE DEF lines, answer
  <2> QED  BY <1>2 DEF GenerateInvoice
<1>4. \A i \in 1..n : IsUsage(usage(i))
  <2> SUFFICES ASSUME NEW i \in 1..n PROVE IsUsage(usage(i))
    OBVIOUS
  <2>1. CASE rules[i].metric = ""
    BY <1>1, <2>1, AggregatedForFirst, NothingIsUsage
  <2>2. CASE rules[i].metric # ""
    <3> DEFINE first == rules[FirstWith(rules, i)]
    <3>1. usage(i) = AggregateForRule(first, events)
      BY <1>1, <2>2, AggregatedForFirst
    <3>2. first.metric = rules[i].metric
      BY <1>1, FirstIsThere
    <3>3. events[first.metric].count \in Nat /\ IsFiniteSet(DOMAIN events[first.metric].outcomes)
      BY <1>1, <2>2, <3>2 DEF AreEvents
    <3> QED  BY <3>1, <3>3, AggregatedIsUsage
  <2> QED  BY <2>1, <2>2
<1>5. /\ DOMAIN lines = 1..n
      /\ \A i \in 1..n : lines[i] = LineItem(rules[i], usage(i))
      /\ TotalAmount(lines) \in Int /\ TotalAmount(lines) % 100 = 0
  <2> HIDE DEF aggregated
  <2> QED  BY <1>1, <1>2, <1>4, LinesOfAPlan
<1>6. Len(lines) = n
  <2> HIDE DEF lines
  <2>1. lines = [i \in 1..n |-> lines[i]]
    <3>1. lines = [i \in DOMAIN rules |-> LineItem(rules[i], usage(i))]
      BY DEF lines, LineItems, UsageFor
    <3> QED  BY <1>1, <1>5, <3>1
  <2> QED  BY <1>1, <2>1
<1>7. RoundMoney(TotalAmount(lines)) = TotalAmount(lines)
  <2> DEFINE x == TotalAmount(lines)
  <2>1. x = 100 * (x \div 100) /\ x \div 100 \in Int
    <3>0. x \in Int /\ x % 100 = 0
      BY <1>5
    <3> HIDE DEF x
    <3> QED  BY <3>0
  <2> HIDE DEF x
  <2>2. RoundMoney(x) = x
    BY <2>1, CentsStay
  <2> QED  BY <2>2 DEF x
<1>8. \A i \in 1..n : LineIsPriced(rules[i], usage(i), ChargedCount(rules[i], usage(i)))
  BY <1>1, <1>2, <1>4, LinesArePriced DEF IsPlan
<1>9. ASSUME NEW i \in 1..n, rules[i].model # "flat"
      PROVE  ChargedCount(rules[i], usage(i)) = IF Metered(rules, i) THEN EventsOf(rules[i], events) ELSE 0
  BY <1>1, <1>2, <1>9, ChargedIfMetered
<1>10. ASSUME NEW i \in 1..n
       PROVE  LineIsPriced(rules[i], usage(i), IF Metered(rules, i) THEN EventsOf(rules[i], events) ELSE 0)
  <2>1. CASE rules[i].model = "flat"
    BY <1>8, <2>1 DEF LineIsPriced
  <2>2. CASE rules[i].model # "flat"
    BY <1>8, <1>9, <2>2
  <2> QED  BY <2>1, <2>2
<1> HIDE DEF answer, lines, usage, n
<1>11. \A i \in 1..n : lines[i] = LineItem(rules[i], usage(i))
  BY <1>5
<1> QED  BY <1>1, <1>3, <1>6, <1>7, <1>10, <1>11 DEF InvoiceIsPriced, LineIsPriced, n

\* The pricing engine (billing/pricing.py) charges every event of a metered rule once, at
\* the price of its tier and never above the cap, and the invoice adds the lines up.  For
\* plans of any length, tiers of any number and any number of events.
THEOREM EventsArePriced == CalculationSpec => []PricedByEvent
<1>1. CalculationInit => PricedByEvent
  BY DEF CalculationInit, PricedByEvent
<1>2. PricedByEvent /\ [CalculationNext]_call => PricedByEvent'
  <2>1. Bill => PricedByEvent'
    <3> SUFFICES ASSUME NEW rules \in Plans, NEW events \in EventSets,
                        NEW customer \in Customers, NEW policies \in PolicySets,
                        call' = [op |-> "bill", rules |-> rules, events |-> events,
                                 customer |-> customer, policies |-> policies,
                                 answer |-> RunBillingCycle(rules, events, customer, policies)]
                 PROVE  PricedByEvent'
      BY DEF Bill
    <3> DEFINE answer == RunBillingCycle(rules, events, customer, policies)
    <3>1. InvoiceIsPriced(rules, events, answer)
      BY BilledByEvent
    <3> HIDE DEF answer
    <3>2. call'.rules = rules /\ call'.events = events /\ call'.answer = answer
      BY DEF answer
    <3>3. InvoiceIsPriced(call'.rules, call'.events, call'.answer)
      BY <3>1, <3>2
    <3> QED  BY <3>3 DEF PricedByEvent, InvoiceIsPriced
  <2>2. UNCHANGED call /\ PricedByEvent => PricedByEvent'
    BY DEF PricedByEvent
  <2> QED  BY <2>1, <2>2, CallIsNamed DEF CalculationNext, PricedByEvent
<1> QED  BY <1>1, <1>2, PTL DEF CalculationSpec

-----------------------------------------------------------------------------
(* Outcomes *)

\* The rule as the pricing engine reads it keeps its price and cap.
LEMMA PricedFields ==
    ASSUME NEW rule, IsRule(rule)
    PROVE  /\ IsRule(PricedRule(rule))
           /\ PricedRule(rule).model = rule.model /\ PricedRule(rule).metric = rule.metric
           /\ OutcomePrice(PricedRule(rule)) = OutcomePrice(rule)
           /\ PricedRule(rule).outcome.cap = rule.outcome.cap
           /\ PricedRule(rule).outcome.when = {<<c.name, c.value>> : c \in rule.outcome.when}
<1> DEFINE W == {<<c.name, c.value>> : c \in rule.outcome.when}
           new == [rule EXCEPT !.outcome.when = W]
           Tiers == Seq([upTo : AtMostOne, unit : Int])
<1>1. rule \in [model : PricingModel, metric : {rule.metric}, flat : Int, unit : Int, tiers : Tiers,
                outcome : [price : Int, cap : AtMostOne, when : {rule.outcome.when},
                           perUnit : Int, rate : Int]]
  BY DEF IsRule
<1> HIDE DEF W, Tiers
<1>2. /\ new.model = rule.model /\ new.metric = rule.metric /\ new.flat = rule.flat
      /\ new.unit = rule.unit /\ new.tiers = rule.tiers
      /\ new.outcome = [rule.outcome EXCEPT !.when = W]
  BY <1>1
<1>3. rule.outcome \in [price : Int, cap : AtMostOne, when : {rule.outcome.when}, perUnit : Int, rate : Int]
  BY <1>1
<1>4. /\ [rule.outcome EXCEPT !.when = W] \in [price : Int, cap : AtMostOne, when : {W}, perUnit : Int, rate : Int]
      /\ [rule.outcome EXCEPT !.when = W].price = rule.outcome.price
      /\ [rule.outcome EXCEPT !.when = W].cap = rule.outcome.cap
      /\ [rule.outcome EXCEPT !.when = W].when = W
  BY <1>3
<1>5. new \in [model : PricingModel, metric : {rule.metric}, flat : Int, unit : Int, tiers : Tiers,
               outcome : [price : Int, cap : AtMostOne, when : {W}, perUnit : Int, rate : Int]]
  BY <1>1, <1>4
<1> HIDE DEF new
<1>6. PricedRule(rule) = new
  BY DEF PricedRule, new, W
<1>7. new.outcome.price = rule.outcome.price /\ new.outcome.cap = rule.outcome.cap /\ new.outcome.when = W
  BY <1>2, <1>4
<1>8. OutcomePrice(new) = OutcomePrice(rule)
  BY <1>2, <1>7 DEF OutcomePrice
<1>9. IsRule(new)
  BY <1>2, <1>5, <1>7 DEF IsRule, Tiers
<1> QED  BY <1>2, <1>6, <1>7, <1>8, <1>9 DEF W

\* Whether an event has a condition's whole name and value, as the pricing engine compares.
Matches(c, properties) == <<c.name, c.value>> \in {<<k, properties[k]>> : k \in DOMAIN properties}

\* One outcome is counted exactly when it has all the facts that the rule asks for.
LEMMA OneOutcome ==
    ASSUME NEW rule, IsRule(rule), 0 \notin rule.outcome.cap, NEW o
    PROVE  BillableCount(rule, <<o>>) # 0 <=> rule.outcome.when \subseteq o.props
<1> DEFINE meeting == Meeting(rule, <<o>>)
           m == BillableCount(rule, <<o>>)
<1>1. DOMAIN <<o>> = {1} /\ <<o>>[1] = o
  OBVIOUS
<1>2. /\ IsFiniteSet({}) /\ Cardinality({}) = 0
      /\ IsFiniteSet({1}) /\ Cardinality({1}) = 1
  BY FS_EmptySet, FS_Singleton
<1>3. meeting = IF rule.outcome.when \subseteq o.props THEN {1} ELSE {}
  BY <1>1 DEF Meeting
<1>4. Cardinality(meeting) = IF rule.outcome.when \subseteq o.props THEN 1 ELSE 0
  <2> HIDE DEF meeting
  <2> QED  BY <1>2, <1>3
<1>5. m = Cardinality(meeting)
  <2>1. IsFiniteSet(DOMAIN <<o>>)
    BY <1>1, <1>2
  <2>2. /\ m \in 0..Cardinality(meeting)
        /\ \A k \in Nat : k > m /\ k <= Cardinality(meeting)
                <=> k <= Cardinality(meeting) /\ \E c \in rule.outcome.cap : k > c
    BY <2>1, RuleFields, BillableIsCapped
  <2>3. \A c \in rule.outcome.cap : c \in Nat /\ c # 0
    BY RuleFields DEF AtMostOne
  <2> HIDE DEF m, meeting
  <2>4. 1 > m /\ 1 <= Cardinality(meeting) => \E c \in rule.outcome.cap : 1 > c
    BY <2>2
  <2>5. ~ \E c \in rule.outcome.cap : 1 > c
    BY <2>3
  <2> QED  BY <1>4, <2>2, <2>4, <2>5
<1> HIDE DEF m, meeting
<1>6. m # 0 <=> rule.outcome.when \subseteq o.props
  BY <1>4, <1>5
<1> QED  BY <1>6 DEF m

\* The rules that count an event are those it matches.
LEMMA CountedWhenMatched ==
    ASSUME NEW rules \in OutcomePlans, NEW event, NEW i \in DOMAIN rules
    PROVE  i \in Counted(event, rules)
               <=> \A c \in rules[i].outcome.when : Matches(c, event.properties)
<1> DEFINE facts == {<<k, event.properties[k]>> : k \in DOMAIN event.properties}
           o == [props |-> facts, validated |-> TRUE]
           rule == PricedRule(rules[i])
<1>1. IsRule(rules[i]) /\ 0 \notin rules[i].outcome.cap
  BY OutcomeAssumption
<1>2. /\ IsRule(rule) /\ 0 \notin rule.outcome.cap
      /\ rule.outcome.when = {<<c.name, c.value>> : c \in rules[i].outcome.when}
  BY <1>1, PricedFields
<1>3. i \in Counted(event, rules) <=> BillableCount(rule, <<o>>) # 0
  BY DEF Counted
<1>4. o.props = facts
  OBVIOUS
<1> HIDE DEF rule, o
<1>5. BillableCount(rule, <<o>>) # 0 <=> rule.outcome.when \subseteq facts
  BY <1>2, <1>4, OneOutcome
<1>6. rule.outcome.when \subseteq facts
          <=> \A c \in rules[i].outcome.when : Matches(c, event.properties)
  BY <1>2 DEF Matches
<1> QED  BY <1>3, <1>5, <1>6

\* The conditions of a rule, as the agent means them.
Met(rule, properties) == \A c \in rule.outcome.when : Holds(c, properties)

\* The verdict of the conditions is whether they all hold; one that raises does not.
LEMMA CheckedIsMet ==
    \A conditions, properties :
        CheckRules(conditions, properties) = "validated" <=> \A c \in conditions : Holds(c, properties)
<1> SUFFICES ASSUME NEW conditions, NEW properties
             PROVE  CheckRules(conditions, properties) = "validated"
                        <=> \A c \in conditions : Holds(c, properties)
  OBVIOUS
<1> DEFINE present == {c \in conditions : c.key \in DOMAIN properties}
           raises == \E c \in present : c.operator # "eq" /\ properties[c.key] = NoNumber
           fits(c) == IF c.operator = "eq" THEN properties[c.key] = c.value
                      ELSE Compares(c.operator, properties[c.key], c.value)
<1>1. CheckRules(conditions, properties) = "validated"
          <=> ~raises /\ present = conditions /\ \A c \in present : fits(c)
  BY DEF CheckRules
<1>2. \A c \in conditions : Holds(c, properties)
          <=> /\ c \in present
              /\ fits(c) /\ ~(c.operator # "eq" /\ properties[c.key] = NoNumber)
  BY DEF Holds
<1> HIDE DEF fits
<1>3. (\A c \in conditions : Holds(c, properties))
          <=> ~raises /\ present = conditions /\ \A c \in present : fits(c)
  BY <1>2
<1> QED  BY <1>1, <1>3

\* The agent decides by the conditions of the first rule, if the event is linked.
LEMMA FirstIsLoaded ==
    ASSUME NEW rules \in OutcomePlans, NEW event
    PROVE  /\ 1 \in DOMAIN rules
           /\ event.loads => (Verdict(event, rules) = "validated" <=>
                                 (event.linked => Met(rules[1], event.properties)))
           /\ ~event.loads => Verdict(event, rules) # "validated"
<1> DEFINE found == {i \in DOMAIN rules : rules[i].model = "outcome"}
           n == Len(rules)
           S == Range(rules)
<1>1. 1 \in DOMAIN rules /\ DOMAIN rules = 1..n /\ n \in Nat
  <2>1. rules \in Seq(S) /\ rules # <<>>
    BY OutcomeAssumption
  <2> HIDE DEF S
  <2> QED  BY <2>1
<1>2. found = DOMAIN rules
  BY OutcomeAssumption
<1>3. Min(found) = 1
  <2>1. 1 \in found /\ found \subseteq Int /\ \A i \in found : 1 <= i
    <3> HIDE DEF found, n
    <3> QED  BY <1>1, <1>2
  <2> HIDE DEF found
  <2> QED  BY <2>1, LeastOf
<1>4. LoadedConditions(event, rules) = IF event.linked THEN rules[1].outcome.when ELSE {}
  BY <1>1, <1>2, <1>3 DEF LoadedConditions
<1>5. ASSUME event.loads
      PROVE  Verdict(event, rules) = "validated" <=> (event.linked => Met(rules[1], event.properties))
  <2>1. Verdict(event, rules) = CheckRules(LoadedConditions(event, rules), event.properties)
    BY <1>5 DEF Verdict
  <2> QED  BY <1>4, <2>1, CheckedIsMet DEF Met
<1>6. ~event.loads => Verdict(event, rules) # "validated"
  BY DEF Verdict
<1> QED  BY <1>1, <1>5, <1>6

\* ConditionsReadAlike of one event.
ReadAlike(rules, event, verdict, counted) ==
    /\ verdict = "validated" <=> event.loads /\ (event.linked => Met(rules[1], event.properties))
    /\ \A i \in DOMAIN rules :
          /\ (\A c \in rules[i].outcome.when : c.operator = "eq")
                => (i \in counted <=> Met(rules[i], event.properties))
          /\ (\E c \in rules[i].outcome.when : c.name \notin DOMAIN event.properties)
                => i \notin counted

\* It holds of every event and every list of outcome rules.
LEMMA ReadRight ==
    ASSUME NEW rules \in OutcomePlans, NEW event
    PROVE  ReadAlike(rules, event, Verdict(event, rules), Counted(event, rules))
<1> DEFINE properties == event.properties
<1>1. Verdict(event, rules) = "validated"
          <=> event.loads /\ (event.linked => Met(rules[1], properties))
  BY FirstIsLoaded
<1>2. ASSUME NEW i \in DOMAIN rules, \A c \in rules[i].outcome.when : c.operator = "eq"
      PROVE  i \in Counted(event, rules) <=> Met(rules[i], properties)
  <2>1. ASSUME NEW c \in rules[i].outcome.when
        PROVE  Matches(c, properties) <=> Holds(c, properties)
    <3>1. c.operator = "eq" /\ c.name = c.key
      BY <1>2, OutcomeAssumption
    <3>2. Holds(c, properties) <=> \E k \in DOMAIN properties : k = c.name /\ properties[k] = c.value
      BY <3>1 DEF Holds
    <3> QED  BY <3>2 DEF Matches
  <2> QED  BY <2>1, CountedWhenMatched DEF Met
<1>3. ASSUME NEW i \in DOMAIN rules,
             \E c \in rules[i].outcome.when : c.name \notin DOMAIN properties
      PROVE  i \notin Counted(event, rules)
  <2>1. \A c \in rules[i].outcome.when : Matches(c, properties) => c.name \in DOMAIN properties
    BY DEF Matches
  <2> QED  BY <1>3, <2>1, CountedWhenMatched
<1> QED  BY <1>1, <1>2, <1>3 DEF ReadAlike

\* The verdict of the outcome agent (agents/outcome_agent.py) is the truth of the first
\* rule's conditions, and the pricing engine (billing/pricing.py) counts the same events
\* where conditions are exact, and none by a suffix.  For rules, conditions and properties
\* of any number.
THEOREM ConditionsAreReadAlike == CalculationSpec => []ConditionsReadAlike
<1>1. CalculationInit => ConditionsReadAlike
  BY DEF CalculationInit, ConditionsReadAlike
<1>2. ConditionsReadAlike /\ [CalculationNext]_call => ConditionsReadAlike'
  <2>1. Validate => ConditionsReadAlike'
    <3> SUFFICES ASSUME NEW rules \in OutcomePlans, NEW event \in OutcomeEvents,
                        call' = [op |-> "validate", rules |-> rules, event |-> event,
                                 verdict |-> Verdict(event, rules), counted |-> Counted(event, rules)]
                 PROVE  ConditionsReadAlike'
      BY DEF Validate
    <3> DEFINE verdict == Verdict(event, rules)
               counted == Counted(event, rules)
    <3>1. ReadAlike(rules, event, verdict, counted)
      BY ReadRight
    <3> HIDE DEF verdict, counted
    <3>2. /\ call'.rules = rules /\ call'.event = event
          /\ call'.verdict = verdict /\ call'.counted = counted
      BY DEF verdict, counted
    <3>3. ReadAlike(call'.rules, call'.event, call'.verdict, call'.counted)
      BY <3>1, <3>2
    <3> QED  BY <3>3 DEF ConditionsReadAlike, ReadAlike, Met
  <2>2. UNCHANGED call /\ ConditionsReadAlike => ConditionsReadAlike'
    BY DEF ConditionsReadAlike
  <2> QED  BY <2>1, <2>2, CallIsNamed DEF CalculationNext, ConditionsReadAlike
<1> QED  BY <1>1, <1>2, PTL DEF CalculationSpec

-----------------------------------------------------------------------------
(* The pricing studio *)

\* The first of the keys that a proposed rule has gives the value.
LEMMA FirstKey ==
    ASSUME NEW d, NEW keys, NEW default,
           DOMAIN keys \subseteq Nat \ {0}, 1 \in DOMAIN keys, keys[1] \in DOMAIN d
    PROVE  KeyOr(d, keys, default) = d[keys[1]]
<1> DEFINE present == {j \in DOMAIN keys : keys[j] \in DOMAIN d}
<1>1. 1 \in present /\ present \subseteq Int /\ \A j \in present : 1 <= j
  OBVIOUS
<1>2. Min(present) = 1
  <2> HIDE DEF present
  <2> QED  BY <1>1, LeastOf
<1> QED  BY <1>1, <1>2 DEF KeyOr

\* If only the second is there, that one does.
LEMMA SecondKey ==
    ASSUME NEW d, NEW keys, NEW default,
           DOMAIN keys \subseteq Nat \ {0}, 2 \in DOMAIN keys,
           keys[1] \notin DOMAIN d, keys[2] \in DOMAIN d
    PROVE  KeyOr(d, keys, default) = d[keys[2]]
<1> DEFINE present == {j \in DOMAIN keys : keys[j] \in DOMAIN d}
<1>1. 2 \in present /\ present \subseteq Int /\ \A j \in present : 2 <= j
  OBVIOUS
<1>2. Min(present) = 2
  <2> HIDE DEF present
  <2> QED  BY <1>1, LeastOf
<1> QED  BY <1>1, <1>2 DEF KeyOr

\* A rule written in one of the API's spellings is read back as it was.
LEMMA RuleIsReadBack ==
    ASSUME NEW rule, IsRule(rule), NEW keys \in Spellings
    PROVE  DictToRule(AsDict(rule, keys)) = rule
<1> DEFINE d == AsDict(rule, keys)
<1>1. \/ keys.model = "model" /\ keys.unit = "unit_price"
      \/ keys.model = "pricing_model" /\ keys.unit = "unit_amount"
  BY DEF Spellings
<1>2. /\ DOMAIN d = {keys.model, keys.unit, "metric", "flat_amount", "tiers", "outcome_rules"}
      /\ d[keys.model] = rule.model /\ d[keys.unit] = rule.unit /\ d["metric"] = rule.metric
      /\ d["flat_amount"] = rule.flat /\ d["tiers"] = rule.tiers /\ d["outcome_rules"] = rule.outcome
  BY <1>1 DEF AsDict
<1> HIDE DEF d
<1>3. KeyOr(d, <<"model", "pricing_model">>, "outcome") = rule.model
  <2> DEFINE names == <<"model", "pricing_model">>
  <2>1. /\ DOMAIN names \subseteq Nat \ {0} /\ 1 \in DOMAIN names /\ 2 \in DOMAIN names
        /\ names[1] = "model" /\ names[2] = "pricing_model"
    OBVIOUS
  <2> HIDE DEF names
  <2>2. ASSUME keys.model = "model", keys.unit = "unit_price"
        PROVE  KeyOr(d, names, "outcome") = rule.model
    <3>1. names[1] \in DOMAIN d /\ d[names[1]] = rule.model
      BY <1>2, <2>1, <2>2
    <3> QED  BY <2>1, <3>1, FirstKey
  <2>3. ASSUME keys.model = "pricing_model", keys.unit = "unit_amount"
        PROVE  KeyOr(d, names, "outcome") = rule.model
    <3>1. names[1] \notin DOMAIN d /\ names[2] \in DOMAIN d /\ d[names[2]] = rule.model
      BY <1>2, <2>1, <2>3
    <3> QED  BY <2>1, <3>1, SecondKey
  <2>4. KeyOr(d, names, "outcome") = rule.model
    BY <1>1, <2>2, <2>3
  <2> QED  BY <2>4 DEF names
<1>4. KeyOr(d, <<"unit_price", "unit_amount", "price_per_outcome">>, 0) = rule.unit
  <2> DEFINE names == <<"unit_price", "unit_amount", "price_per_outcome">>
  <2>1. /\ DOMAIN names \subseteq Nat \ {0} /\ 1 \in DOMAIN names /\ 2 \in DOMAIN names
        /\ names[1] = "unit_price" /\ names[2] = "unit_amount" /\ names[3] = "price_per_outcome"
    OBVIOUS
  <2> HIDE DEF names
  <2>2. ASSUME keys.model = "model", keys.unit = "unit_price"
        PROVE  KeyOr(d, names, 0) = rule.unit
    <3>1. names[1] \in DOMAIN d /\ d[names[1]] = rule.unit
      BY <1>2, <2>1, <2>2
    <3> QED  BY <2>1, <3>1, FirstKey
  <2>3. ASSUME keys.model = "pricing_model", keys.unit = "unit_amount"
        PROVE  KeyOr(d, names, 0) = rule.unit
    <3>1. names[1] \notin DOMAIN d /\ names[2] \in DOMAIN d /\ d[names[2]] = rule.unit
      BY <1>2, <2>1, <2>3
    <3> QED  BY <2>1, <3>1, SecondKey
  <2>4. KeyOr(d, names, 0) = rule.unit
    BY <1>1, <2>2, <2>3
  <2> QED  BY <2>4 DEF names
<1>5. ASSUME NEW k \in DOMAIN d, NEW default PROVE KeyOr(d, <<k>>, default) = d[k]
  <2> DEFINE names == <<k>>
  <2>1. DOMAIN names \subseteq Nat \ {0} /\ 1 \in DOMAIN names /\ names[1] = k
    OBVIOUS
  <2> HIDE DEF names
  <2>2. KeyOr(d, names, default) = d[names[1]]
    BY <2>1, FirstKey
  <2> QED  BY <2>1, <2>2 DEF names
<1>6. DictToRule(d) = [model |-> rule.model, metric |-> rule.metric, flat |-> rule.flat,
                       unit |-> rule.unit, tiers |-> rule.tiers, outcome |-> rule.outcome]
  <2>1. /\ KeyOr(d, <<"metric">>, "") = rule.metric /\ KeyOr(d, <<"flat_amount">>, 0) = rule.flat
        /\ KeyOr(d, <<"tiers">>, <<>>) = rule.tiers
        /\ KeyOr(d, <<"outcome_rules">>, NoOutcome) = rule.outcome
    BY <1>2, <1>5
  <2> QED  BY <1>3, <1>4, <2>1 DEF DictToRule
<1>7. rule = [model |-> rule.model, metric |-> rule.metric, flat |-> rule.flat,
              unit |-> rule.unit, tiers |-> rule.tiers, outcome |-> rule.outcome]
  BY DEF IsRule
<1> QED  BY <1>6, <1>7 DEF d

\* The amount depends on how many events are charged, not on which.
LEMMA AmountOfCharged ==
    ASSUME NEW rule, Priceable(rule), NEW usage, NEW other,
           rule.model # "flat" => ChargedCount(rule, usage) = ChargedCount(rule, other)
    PROVE  Amount(rule, usage) = Amount(rule, other)
<1>1. rule.model = "outcome" => BillableCount(rule, usage.outcomes) = BillableCount(rule, other.outcomes)
  BY DEF ChargedCount, Meeting, BillableCount
<1>2. rule.model \in {"usage", "tiered", "credit"} => usage.quantity = other.quantity
  BY DEF ChargedCount
<1> QED  BY <1>1, <1>2 DEF Priceable, Amount

\* What the studio collects for a rule: the events of its metric, validated or not.
LEMMA StudioUsage ==
    ASSUME NEW rules, NEW n, IsPlan(rules, n), NEW events, AreEvents(rules, events), NEW i \in 1..n
    PROVE  LET m == rules[i].metric
               usage == UsageFor(rules, i, AggregateEvents(events, rules))
           IN  /\ usage = IF m \in DOMAIN events
                          THEN [quantity |-> events[m].count, outcomes |-> events[m].outcomes] ELSE Nothing
               /\ IsUsage(usage)
<1> DEFINE m == rules[i].metric
           usage == UsageFor(rules, i, AggregateEvents(events, rules))
<1>1. usage = IF m \in DOMAIN events
              THEN [quantity |-> events[m].count, outcomes |-> events[m].outcomes] ELSE Nothing
  BY DEF UsageFor, AggregateEvents, IsPlan
<1>2. IsUsage(usage)
  <2>1. CASE m \in DOMAIN events
    <3>1. events[m].count \in Nat /\ IsFiniteSet(DOMAIN events[m].outcomes)
      BY <2>1 DEF AreEvents
    <3> HIDE DEF m
    <3>2. usage.quantity = events[m].count /\ usage.outcomes = events[m].outcomes
      BY <1>1, <2>1
    <3> HIDE DEF usage
    <3> QED  BY <3>1, <3>2 DEF IsUsage
  <2>2. CASE m \notin DOMAIN events
    BY <1>1, <2>2, NothingIsUsage
  <2> QED  BY <2>1, <2>2
<1> QED  BY <1>1, <1>2

\* The two parts of SimulationAgrees.
SimulationIsRight(rules, events, answer) ==
    /\ answer.delta = 0 /\ answer.pct = 0
    /\ answer.outcomes.current = answer.outcomes.simulated
    /\ BilledAlike(rules, events) =>
          answer.current = TotalAmount(LineItems(rules, Aggregated(rules, events)))

\* Where the two aggregations see the same events, they make the same total.
LEMMA StudioBillsAlike ==
    ASSUME NEW rules, NEW n, IsPlan(rules, n), NEW events, AreEvents(rules, events),
           \A i \in 1..n : Priceable(rules[i]), BilledAlike(rules, events)
    PROVE  TotalAmount(LineItems(rules, AggregateEvents(events, rules)))
             = TotalAmount(LineItems(rules, Aggregated(rules, events)))
<1> DEFINE studio(i) == UsageFor(rules, i, AggregateEvents(events, rules))
           billed(i) == UsageFor(rules, i, Aggregated(rules, events))
<1>1. ASSUME NEW i \in 1..n PROVE Amount(rules[i], studio(i)) = Amount(rules[i], billed(i))
  <2> DEFINE rule == rules[i]
             m == rule.metric
  <2>1. CASE rule.model = "flat"
    BY <2>1, AmountOfCharged
  <2>2. CASE rule.model # "flat"
    <3>1. i \in DOMAIN rules /\ Metered(rules, i) /\ m # "" /\ m \in DOMAIN events
      BY <2>2 DEF BilledAlike, IsPlan, Metered, AreEvents
    <3>2. ChargedCount(rule, billed(i)) = EventsOf(rule, events)
      BY <2>2, <3>1, ChargedIfMetered
    <3>3. studio(i) = [quantity |-> events[m].count, outcomes |-> events[m].outcomes]
      BY <3>1, StudioUsage
    <3>4. \A k \in DOMAIN events[m].outcomes : events[m].outcomes[k].validated
      BY <3>1 DEF BilledAlike
    <3>5. studio(i).quantity = events[m].count /\ studio(i).outcomes = events[m].outcomes
      BY <3>3
    <3>6. ChargedCount(rule, studio(i)) = EventsOf(rule, events)
      <4>1. CASE rule.model = "outcome"
        <5>1. Meeting(rule, events[m].outcomes)
                = {k \in DOMAIN events[m].outcomes :
                      events[m].outcomes[k].validated /\ rule.outcome.when \subseteq events[m].outcomes[k].props}
          BY <3>4 DEF Meeting
        <5> HIDE DEF studio
        <5> QED  BY <3>5, <4>1, <5>1 DEF ChargedCount, EventsOf
      <4>2. CASE rule.model # "outcome"
        <5> HIDE DEF studio
        <5> QED  BY <3>5, <4>2 DEF ChargedCount, EventsOf
      <4> QED  BY <4>1, <4>2
    <3> QED  BY <3>2, <3>6, AmountOfCharged
  <2> QED  BY <2>1, <2>2
<1> DEFINE lines == LineItems(rules, AggregateEvents(events, rules))
           other == LineItems(rules, Aggregated(rules, events))
<1>2. DOMAIN lines = 1..n /\ DOMAIN other = 1..n
  BY DEF LineItems, IsPlan
<1>3. \A i \in 1..n : lines[i].amount = Amount(rules[i], studio(i)) /\ other[i].amount = Amount(rules[i], billed(i))
  BY DEF LineItems, LineItem, IsPlan, UsageFor
<1> HIDE DEF lines, other, studio, billed
<1>4. [i \in DOMAIN lines |-> lines[i].amount] = [i \in DOMAIN other |-> other[i].amount]
  BY <1>1, <1>2, <1>3
<1> QED  BY <1>4 DEF TotalAmount, lines, other

\* Simulating a plan as it is changes nothing, and bills what an invoice would.
LEMMA SimulatedAsIs ==
    ASSUME NEW rules \in Plans, NEW keys \in Spellings, NEW events \in EventSets, Priced(rules)
    PROVE  SimulationIsRight(rules, events,
                RunSimulation(rules, [i \in DOMAIN rules |-> AsDict(rules[i], keys)], events))
<1> DEFINE n == Len(rules)
           scenario == [i \in DOMAIN rules |-> AsDict(rules[i], keys)]
           read == [i \in DOMAIN scenario |-> DictToRule(scenario[i])]
           current == LineItems(rules, AggregateEvents(events, rules))
           total == TotalAmount(current)
           answer == RunSimulation(rules, scenario, events)
<1>1. IsPlan(rules, n) /\ DOMAIN rules = 1..n /\ AreEvents(rules, events)
  BY PlansAreLists, EventAssumption DEF IsPlan, AreEvents
<1>2. read = rules
  <2>1. \A i \in DOMAIN rules : DictToRule(AsDict(rules[i], keys)) = rules[i]
    BY <1>1, RuleIsReadBack DEF IsPlan
  <2>2. read = [i \in DOMAIN rules |-> rules[i]]
    BY <2>1
  <2>3. rules = [i \in DOMAIN rules |-> rules[i]]
    <3> DEFINE S == Range(rules)
    <3>1. rules \in Seq(S)
      BY PlanAssumption
    <3> HIDE DEF S
    <3> QED  BY <3>1
  <2> QED  BY <2>2, <2>3
<1>3. SimulatedLines(scenario, events) = current
  BY <1>2 DEF SimulatedLines
<1>4. total \in Int /\ total % 100 = 0
  <2>1. \A i \in 1..n : Priceable(rules[i])
    BY <1>1 DEF Priced
  <2>2. \A i \in 1..n : IsUsage(UsageFor(rules, i, AggregateEvents(events, rules)))
    BY <1>1, StudioUsage
  <2> HIDE DEF n
  <2> QED  BY <1>1, <2>1, <2>2, LinesOfAPlan
<1> HIDE DEF current, scenario, total
<1>5. /\ answer.current = total /\ answer.delta = total - total
      /\ answer.pct = IF total = 0 THEN 0 ELSE HalfUp((total - total) * 100, total \div 100)
      /\ answer.outcomes = [current |-> CountBillableOutcomes(current),
                            simulated |-> CountBillableOutcomes(current)]
  BY <1>3 DEF RunSimulation, current, total
<1>6. answer.delta = 0
  BY <1>4, <1>5
<1>7. answer.pct = 0
  <2>1. CASE total = 0
    BY <1>5, <2>1
  <2>2. CASE total # 0
    <3> DEFINE d == total \div 100
    <3>1. d \in Int \ {0} /\ (total - total) * 100 = 0
      BY <1>4, <2>2
    <3> HIDE DEF d
    <3>2. HalfUp(d * 0, d) = 0
      BY <3>1, WholeStays
    <3>3. d * 0 = 0
      BY <3>1
    <3> QED  BY <1>5, <2>2, <3>1, <3>2, <3>3 DEF d
  <2> QED  BY <2>1, <2>2
<1>8. BilledAlike(rules, events) => total = TotalAmount(LineItems(rules, Aggregated(rules, events)))
  <2>1. \A i \in 1..n : Priceable(rules[i])
    BY <1>1 DEF Priced
  <2> HIDE DEF n
  <2> QED  BY <1>1, <2>1, StudioBillsAlike DEF total, current
<1> HIDE DEF answer
<1>9. answer.outcomes.current = answer.outcomes.simulated
  BY <1>5
<1>10. SimulationIsRight(rules, events, answer)
  BY <1>5, <1>6, <1>7, <1>8, <1>9 DEF SimulationIsRight
<1> QED  BY <1>10 DEF answer, scenario

\* The price of one event of a rule whose prices add up.
EventPrice(rule) == IF rule.model = "outcome" THEN OutcomePrice(rule) ELSE rule.unit

\* If prices add up, an amount is so many times the price of an event.
LEMMA AmountAddsUp ==
    ASSUME NEW rule, IsRule(rule), Priceable(rule), NEW usage, IsUsage(usage),
           \/ rule.model = "usage" /\ rule.unit % 100 = 0
           \/ rule.model = "outcome" /\ OutcomePrice(rule) % 100 = 0 /\ rule.outcome.cap = {}
    PROVE  /\ ChargedCount(rule, usage) \in Nat /\ EventPrice(rule) \in Int
           /\ Amount(rule, usage) = EventPrice(rule) * ChargedCount(rule, usage)
<1>1. CASE rule.model = "usage" /\ rule.unit % 100 = 0
  <2> DEFINE q == rule.unit \div 100
             n == usage.quantity
  <2>1. n \in Nat /\ rule.unit \in Int
    BY RuleFields DEF IsUsage
  <2>2. q \in Int /\ rule.unit = 100 * q
    BY <1>1, <2>1
  <2>3. rule.unit * n = 100 * (q * n) /\ q * n \in Int
    <3> HIDE DEF q, n
    <3> QED  BY <2>1, <2>2
  <2>4. Amount(rule, usage) = RoundMoney(rule.unit * n)
    BY <1>1 DEF Amount
  <2>5. RoundMoney(100 * (q * n)) = 100 * (q * n)
    <3> HIDE DEF q, n
    <3> QED  BY <2>3, CentsStay
  <2>6. ChargedCount(rule, usage) = n /\ EventPrice(rule) = rule.unit
    BY <1>1 DEF ChargedCount, EventPrice
  <2> HIDE DEF q, n
  <2> QED  BY <2>1, <2>3, <2>4, <2>5, <2>6
<1>2. CASE rule.model = "outcome" /\ OutcomePrice(rule) % 100 = 0 /\ rule.outcome.cap = {}
  <2> DEFINE n == ChargedCount(rule, usage)
             m == BillableCount(rule, usage.outcomes)
  <2>1. Amount(rule, usage) = OutcomePrice(rule) * m
    BY <1>2, QuantityByEvent
  <2>2. n = Cardinality(Meeting(rule, usage.outcomes))
    BY <1>2 DEF ChargedCount
  <2>3. /\ n \in Nat /\ m \in 0..n
        /\ \A k \in Nat : k > m /\ k <= n <=> k <= n /\ \E c \in rule.outcome.cap : k > c
    BY <2>2, RuleFields, BillableIsCapped DEF IsUsage
  <2>4. m = n
    <3> HIDE DEF m, n
    <3> QED  BY <1>2, <2>3
  <2>5. EventPrice(rule) = OutcomePrice(rule) /\ OutcomePrice(rule) \in Int
    BY <1>2, RuleFields DEF EventPrice
  <2> QED  BY <2>1, <2>3, <2>4, <2>5
<1> QED  BY <1>1, <1>2

\* Of k customers with the same events, k times as many are charged.
LEMMA FinitelyPooled ==
    ASSUME NEW k \in Nat, NEW S, IsFiniteSet(S)
    PROVE  IsFiniteSet((1..k) \X S) /\ Cardinality((1..k) \X S) = k * Cardinality(S)
<1>1. IsFiniteSet(1..k) /\ Cardinality(1..k) = k
  BY FS_Interval
<1> QED  BY <1>1, FS_Product

Together(outcomes, k) == [x \in (1..k) \X DOMAIN outcomes |-> outcomes[x[2]]]

LEMMA PooledCharge ==
    ASSUME NEW rule, NEW k \in Nat, NEW count, NEW outcomes, IsFiniteSet(DOMAIN outcomes),
           NEW one, one = [quantity |-> count, outcomes |-> outcomes],
           NEW all, all = [quantity |-> k * count, outcomes |-> Together(outcomes, k)]
    PROVE  ChargedCount(rule, all) = k * ChargedCount(rule, one)
<1>1. Meeting(rule, all.outcomes) = (1..k) \X Meeting(rule, outcomes)
  BY DEF Meeting, Together
<1>2. Meeting(rule, outcomes) \subseteq DOMAIN outcomes
  BY DEF Meeting
<1>3. Cardinality(Meeting(rule, all.outcomes)) = k * Cardinality(Meeting(rule, outcomes))
  BY <1>1, <1>2, FS_Subset, FinitelyPooled
<1>4. one.quantity = count /\ one.outcomes = outcomes /\ all.quantity = k * count
  OBVIOUS
<1>5. CASE rule.model = "outcome"
  BY <1>3, <1>4, <1>5 DEF ChargedCount
<1>6. CASE rule.model # "outcome"
  BY <1>4, <1>6 DEF ChargedCount
<1> QED  BY <1>5, <1>6

\* An arm of k customers has k times the events of one.
LEMMA PooledEvents ==
    ASSUME NEW rules, NEW n, IsPlan(rules, n), NEW events, AreEvents(rules, events), NEW k \in Nat
    PROVE  /\ AreEvents(rules, Pooled(events, k))
           /\ \A i \in 1..n :
                 LET one == UsageFor(rules, i, AggregateEvents(events, rules))
                     all == UsageFor(rules, i, AggregateEvents(Pooled(events, k), rules))
                 IN  ChargedCount(rules[i], all) = k * ChargedCount(rules[i], one)
<1> DEFINE pooled == Pooled(events, k)
<1>1. DOMAIN pooled = DOMAIN events
  BY DEF Pooled
<1>2. \A m \in DOMAIN events :
         /\ pooled[m].count = k * events[m].count
         /\ pooled[m].outcomes = [x \in (1..k) \X DOMAIN events[m].outcomes |-> events[m].outcomes[x[2]]]
  BY DEF Pooled
<1>3. \A m \in DOMAIN events : events[m].count \in Nat /\ IsFiniteSet(DOMAIN events[m].outcomes)
  BY DEF AreEvents
<1> HIDE DEF pooled
<1>5. AreEvents(rules, pooled)
  <2>1. \A m \in DOMAIN events : DOMAIN pooled[m].outcomes = (1..k) \X DOMAIN events[m].outcomes
    BY <1>2
  <2>2. \A m \in DOMAIN events : pooled[m].count \in Nat
    <3>1. \A x \in Nat : k * x \in Nat
      OBVIOUS
    <3> QED  BY <1>2, <1>3, <3>1
  <2>3. \A m \in DOMAIN events : IsFiniteSet(DOMAIN pooled[m].outcomes)
    BY <1>3, <2>1, FinitelyPooled
  <2> QED  BY <1>1, <2>2, <2>3 DEF AreEvents
<1>6. ASSUME NEW i \in 1..n
      PROVE  ChargedCount(rules[i], UsageFor(rules, i, AggregateEvents(pooled, rules)))
               = k * ChargedCount(rules[i], UsageFor(rules, i, AggregateEvents(events, rules)))
  <2> DEFINE rule == rules[i]
             m == rule.metric
             one == UsageFor(rules, i, AggregateEvents(events, rules))
             all == UsageFor(rules, i, AggregateEvents(pooled, rules))
  <2>1. /\ one = IF m \in DOMAIN events
                 THEN [quantity |-> events[m].count, outcomes |-> events[m].outcomes] ELSE Nothing
        /\ all = IF m \in DOMAIN pooled
                 THEN [quantity |-> pooled[m].count, outcomes |-> pooled[m].outcomes] ELSE Nothing
    BY <1>5, StudioUsage
  <2>2. CASE m \notin DOMAIN events
    <3>1. one = Nothing /\ all = Nothing
      BY <1>1, <2>1, <2>2
    <3>2. ChargedCount(rule, one) = 0 /\ ChargedCount(rule, all) = 0 /\ k * 0 = 0
      BY <3>1, NothingIsUsage
    <3> QED  BY <3>2
  <2>3. CASE m \in DOMAIN events
    <3> DEFINE outcomes == events[m].outcomes
    <3>1. one = [quantity |-> events[m].count, outcomes |-> outcomes]
      BY <2>1, <2>3
    <3>2. all = [quantity |-> k * events[m].count, outcomes |-> Together(outcomes, k)]
      BY <1>1, <1>2, <2>1, <2>3 DEF Together
    <3>3. IsFiniteSet(DOMAIN outcomes)
      BY <1>3, <2>3
    <3>4. ChargedCount(rule, all) = k * ChargedCount(rule, one)
      <4> DEFINE count == events[m].count
      <4>1. /\ one = [quantity |-> count, outcomes |-> outcomes]
            /\ all = [quantity |-> k * count, outcomes |-> Together(outcomes, k)]
        BY <3>1, <3>2
      <4> HIDE DEF one, all, outcomes, count, rule
      <4> QED  BY <3>3, <4>1, PooledCharge
    <3> QED  BY <3>4
  <2> QED  BY <2>2, <2>3
<1> QED  BY <1>5, <1>6 DEF pooled

\* A sum of multiples is the multiple of the sum.
LEMMA MultiplesAddUp ==
    ASSUME NEW n \in Nat, NEW c \in Int, NEW s, DOMAIN s = 1..n, \A i \in 1..n : s[i] \in Int,
           NEW t, DOMAIN t = 1..n, \A i \in 1..n : t[i] = c * s[i]
    PROVE  Total(t) = c * Total(s)
<1>1. PICK g : AddsUp(g, s, n) /\ Total(s) = g[n]
  BY TotalsAddUp
<1>2. PICK h : AddsUp(h, t, n) /\ Total(t) = h[n]
  <2>1. \A i \in 1..n : t[i] \in Int
    OBVIOUS
  <2> QED  BY <2>1, TotalsAddUp
<1> DEFINE Bad == {k \in 0..n : h[k] # c * g[k]}
<1>3. Bad = {}
  <2> SUFFICES ASSUME Bad # {} PROVE FALSE
    OBVIOUS
  <2>1. PICK k \in Bad : \A m \in Bad : k <= m
    <3>1. Bad \subseteq Nat
      OBVIOUS
    <3> HIDE DEF Bad
    <3> QED  BY <3>1, LeastNat
  <2>2. k \in 1..n
    <3>1. 0 \notin Bad
      <4>1. h[0] = 0 /\ g[0] = 0
        BY <1>1, <1>2 DEF AddsUp
      <4> QED  BY <4>1
    <3> QED  BY <3>1
  <2>3. k - 1 \in 0..n /\ k - 1 \notin Bad
    <3> HIDE DEF Bad
    <3> QED  BY <2>1, <2>2
  <2>4. h[k - 1] = c * g[k - 1]
    BY <2>3
  <2>5. /\ g[k] = g[k - 1] + s[k] /\ h[k] = h[k - 1] + c * s[k]
        /\ g[k - 1] \in Int /\ s[k] \in Int
    BY <1>1, <1>2, <2>2, <2>3 DEF AddsUp
  <2>6. \A x, y \in Int : c * (x + y) = c * x + c * y
    OBVIOUS
  <2>7. h[k] = c * g[k]
    <3> HIDE DEF Bad
    <3> QED  BY <2>4, <2>5, <2>6
  <2> QED  BY <2>7
<1>4. n \in 0..n
  OBVIOUS
<1> QED  BY <1>1, <1>2, <1>3, <1>4

\* The revenue of an arm is that of one customer, times the customers.
LEMMA ArmIsMultiple ==
    ASSUME NEW rules \in TestPlans, Priced(rules), Additive(rules), NEW events \in EventSets, NEW k \in Nat
    PROVE  /\ ArmRevenue(rules, events) \in Int /\ ArmRevenue(rules, events) % 100 = 0
           /\ ArmRevenue(rules, Pooled(events, k)) = k * ArmRevenue(rules, events)
<1> DEFINE n == Len(rules)
           pooled == Pooled(events, k)
           one(i) == UsageFor(rules, i, AggregateEvents(events, rules))
           all(i) == UsageFor(rules, i, AggregateEvents(pooled, rules))
           lines == LineItems(rules, AggregateEvents(events, rules))
           together == LineItems(rules, AggregateEvents(pooled, rules))
<1>1. /\ IsPlan(rules, n) /\ n \in Nat /\ DOMAIN rules = 1..n
      /\ AreEvents(rules, events) /\ AreEvents(rules, pooled)
      /\ \A i \in 1..n : ChargedCount(rules[i], all(i)) = k * ChargedCount(rules[i], one(i))
  <2>1. IsPlan(rules, n) /\ n \in Nat /\ DOMAIN rules = 1..n /\ AreEvents(rules, events)
    BY PlansAreLists, EventAssumption DEF IsPlan, AreEvents
  <2> HIDE DEF n
  <2> QED  BY <2>1, PooledEvents
<1>2. \A i \in 1..n : Priceable(rules[i]) /\ IsUsage(one(i)) /\ IsUsage(all(i))
  <2>1. \A i \in 1..n : Priceable(rules[i])
    BY <1>1 DEF Priced
  <2> HIDE DEF n, pooled
  <2> QED  BY <1>1, <2>1, StudioUsage
<1> HIDE DEF n, pooled
<1>3. /\ DOMAIN lines = 1..n /\ \A i \in 1..n : lines[i] = LineItem(rules[i], one(i))
      /\ TotalAmount(lines) \in Int /\ TotalAmount(lines) % 100 = 0
  BY <1>1, <1>2, LinesOfAPlan
<1>4. DOMAIN together = 1..n /\ \A i \in 1..n : together[i] = LineItem(rules[i], all(i))
  BY <1>1, <1>2, LinesOfAPlan
<1>5. ASSUME NEW i \in 1..n
      PROVE  /\ Amount(rules[i], one(i)) \in Int
             /\ Amount(rules[i], all(i)) = k * Amount(rules[i], one(i))
  <2> DEFINE rule == rules[i]
             price == EventPrice(rule)
             charged == ChargedCount(rule, one(i))
  <2>1. IsRule(rule) /\ Priceable(rule) /\ IsUsage(one(i)) /\ IsUsage(all(i))
    BY <1>1, <1>2 DEF IsPlan
  <2>2. \/ rule.model = "usage" /\ rule.unit % 100 = 0
        \/ rule.model = "outcome" /\ OutcomePrice(rule) % 100 = 0 /\ rule.outcome.cap = {}
    BY <1>1 DEF Additive
  <2>3. /\ charged \in Nat /\ price \in Int
        /\ Amount(rule, one(i)) = price * charged
        /\ Amount(rule, all(i)) = price * ChargedCount(rule, all(i))
    <3> HIDE DEF one, all, rule
    <3> QED  BY <2>1, <2>2, AmountAddsUp
  <2>4. ChargedCount(rule, all(i)) = k * charged
    BY <1>1
  <2>5. price * (k * charged) = k * (price * charged) /\ price * charged \in Int
    <3> HIDE DEF price, charged
    <3> QED  BY <2>3
  <2> HIDE DEF one, all, rule, price, charged
  <2>6. Amount(rule, one(i)) \in Int /\ Amount(rule, all(i)) = k * Amount(rule, one(i))
    BY <2>3, <2>4, <2>5
  <2> QED  BY <2>6 DEF rule
<1>6. \A i \in 1..n : lines[i].amount = Amount(rules[i], one(i)) /\ together[i].amount = Amount(rules[i], all(i))
  BY <1>3, <1>4 DEF LineItem
<1> HIDE DEF lines, together, one, all
<1>7. TotalAmount(together) = k * TotalAmount(lines)
  <2> DEFINE s == [i \in DOMAIN lines |-> lines[i].amount]
             t == [i \in DOMAIN together |-> together[i].amount]
  <2>1. /\ DOMAIN s = 1..n /\ \A i \in 1..n : s[i] \in Int
        /\ DOMAIN t = 1..n /\ \A i \in 1..n : t[i] = k * s[i]
    BY <1>3, <1>4, <1>5, <1>6
  <2> HIDE DEF s, t
  <2>2. Total(t) = k * Total(s)
    <3>1. n \in Nat /\ k \in Int
      BY <1>1
    <3> QED  BY <2>1, <3>1, MultiplesAddUp
  <2> QED  BY <2>2 DEF TotalAmount, s, t
<1> QED  BY <1>3, <1>7 DEF ArmRevenue, lines, together, pooled

\* So the average per customer is the revenue of one.
LEMMA AverageOfArm ==
    ASSUME NEW revenue \in Int, revenue % 100 = 0, NEW k \in Nat \ {0}
    PROVE  PerCustomer(k * revenue, k) = revenue
<1> DEFINE q == revenue \div 100
           d == 100 * k
<1>1. q \in Int /\ revenue = 100 * q /\ d \in Int \ {0}
  OBVIOUS
<1> HIDE DEF q, d
<1>2. k * revenue = d * q
  BY <1>1 DEF d
<1>3. HalfUp(k * revenue, d) = q
  BY <1>1, <1>2, WholeStays
<1> QED  BY <1>1, <1>3 DEF PerCustomer, d

\* What SimulationAgrees says of a test.
TestIsRight(split, customers, recommendation) ==
    \/ recommendation = "no_difference"
    \/ \E arm \in {"control", "variant"} :
          \A h \in customers : AssignVariant(h, split) = arm

\* A test of a plan against itself finds no difference unless one arm is empty.
LEMMA TestedAgainstItself ==
    ASSUME NEW rules \in TestPlans, Priced(rules), Additive(rules), NEW events \in EventSets,
           NEW customers \in SUBSET Hashes, NEW split
    PROVE  TestIsRight(split, customers,
                EvaluateTest(rules, rules, split, customers, events).recommendation)
<1> DEFINE Arm(name) == {h \in customers : AssignVariant(h, split) = name}
           size(name) == Cardinality(Arm(name))
           revenue(k) == PerCustomer(ArmRevenue(rules, Pooled(events, k)), k)
           c == revenue(size("control"))
           v == revenue(size("variant"))
           answer == EvaluateTest(rules, rules, split, customers, events)
<1>1. answer.recommendation = IF v > c THEN "variant" ELSE IF c > v THEN "control" ELSE "no_difference"
  BY DEF EvaluateTest
<1>2. ASSUME NEW name PROVE IsFiniteSet(Arm(name)) /\ size(name) \in Nat /\ (size(name) = 0 <=> Arm(name) = {})
  <2>1. IsFiniteSet(Arm(name))
    BY TestAssumption, FS_Subset
  <2> HIDE DEF Arm
  <2> QED  BY <2>1, FS_CardinalityType, FS_EmptySet
<1>3. ASSUME NEW k \in Nat \ {0} PROVE revenue(k) = ArmRevenue(rules, events)
  <2>1. ArmRevenue(rules, Pooled(events, k)) = k * ArmRevenue(rules, events)
    BY ArmIsMultiple
  <2>2. ArmRevenue(rules, events) \in Int /\ ArmRevenue(rules, events) % 100 = 0
    BY ArmIsMultiple
  <2> QED  BY <2>1, <2>2, AverageOfArm
<1>4. \A h \in customers : AssignVariant(h, split) \in {"control", "variant"}
  BY DEF AssignVariant
<1>5. CASE size("control") = 0
  <2>1. Arm("control") = {}
    BY <1>2, <1>5
  <2>2. \A h \in customers : AssignVariant(h, split) = "variant"
    BY <1>4, <2>1
  <2> QED  BY <2>2 DEF TestIsRight
<1>6. CASE size("variant") = 0
  <2>1. Arm("variant") = {}
    BY <1>2, <1>6
  <2>2. \A h \in customers : AssignVariant(h, split) = "control"
    BY <1>4, <2>1
  <2> QED  BY <2>2 DEF TestIsRight
<1>7. CASE size("control") # 0 /\ size("variant") # 0
  <2>1. size("control") \in Nat \ {0} /\ size("variant") \in Nat \ {0}
    BY <1>2, <1>7
  <2>2. c = ArmRevenue(rules, events) /\ v = ArmRevenue(rules, events)
    <3> HIDE DEF size, revenue
    <3> QED  BY <1>3, <2>1
  <2>3. ArmRevenue(rules, events) \in Int
    BY ArmIsMultiple
  <2> HIDE DEF c, v, answer
  <2>4. answer.recommendation = "no_difference"
    BY <1>1, <2>2, <2>3
  <2> QED  BY <2>4 DEF TestIsRight, answer
<1> QED  BY <1>5, <1>6, <1>7

\* The pricing studio (pricing_studio/): simulating the rules a plan has changes nothing and
\* returns what an invoice for the same events charges, and a test of a plan against itself
\* finds no difference where prices add up.  For plans, events and customers of any number.
THEOREM SimulationsAgree == CalculationSpec => []SimulationAgrees
<1>1. CalculationInit => SimulationAgrees
  BY DEF CalculationInit, SimulationAgrees
<1>2. SimulationAgrees /\ [CalculationNext]_call => SimulationAgrees'
  <2>1. ASSUME Simulate PROVE SimulationAgrees'
    <3> SUFFICES ASSUME call'.rules = call'.proposed
                 PROVE  SimulationIsRight(call'.rules, call'.events, call'.answer)
      BY <2>1, CallIsNamed DEF SimulationAgrees, SimulationIsRight
    <3>1. PICK rules \in Plans, keys \in Spellings, events \in EventSets :
             \E proposed \in TestPlans \union {rules} :
                LET scenario == [i \in DOMAIN proposed |-> AsDict(proposed[i], keys)] IN
                /\ Priced(rules) /\ Priced(proposed)
                /\ call' = [op |-> "simulate", rules |-> rules, proposed |-> proposed, events |-> events,
                            answer |-> RunSimulation(rules, scenario, events)]
      BY <2>1 DEF Simulate
    <3>2. PICK proposed \in TestPlans \union {rules} :
             LET scenario == [i \in DOMAIN proposed |-> AsDict(proposed[i], keys)] IN
             /\ Priced(rules)
             /\ call' = [op |-> "simulate", rules |-> rules, proposed |-> proposed, events |-> events,
                         answer |-> RunSimulation(rules, scenario, events)]
      BY <3>1
    <3>3. /\ call'.rules = rules /\ call'.proposed = proposed /\ call'.events = events
          /\ call'.answer = RunSimulation(rules, [i \in DOMAIN proposed |-> AsDict(proposed[i], keys)], events)
      BY <3>2
    <3>4. proposed = rules
      BY <3>3
    <3>5. SimulationIsRight(rules, events,
                RunSimulation(rules, [i \in DOMAIN rules |-> AsDict(rules[i], keys)], events))
      BY <3>2, SimulatedAsIs
    <3> QED  BY <3>3, <3>4, <3>5
  <2>2. ASSUME Compare PROVE SimulationAgrees'
    <3> SUFFICES ASSUME call'.control = call'.variant, Additive(call'.control)
                 PROVE  TestIsRight(call'.split, call'.customers, call'.answer.recommendation)
      BY <2>2, CallIsNamed DEF SimulationAgrees, TestIsRight
    <3>1. PICK control \in TestPlans, variant \in TestPlans, customers \in SUBSET Hashes,
               events \in EventSets, split \in 0..Cardinality(Hashes) :
             /\ Priced(control)
             /\ call' = [op |-> "compare", control |-> control, variant |-> variant, split |-> split,
                         customers |-> customers, events |-> events,
                         answer |-> EvaluateTest(control, variant, split, customers, events)]
      BY <2>2 DEF Compare
    <3>2. /\ call'.control = control /\ call'.variant = variant
          /\ call'.split = split /\ call'.customers = customers
          /\ call'.answer = EvaluateTest(control, variant, split, customers, events)
      BY <3>1
    <3>3. variant = control /\ Additive(control)
      BY <3>2
    <3>4. TestIsRight(split, customers,
                EvaluateTest(control, control, split, customers, events).recommendation)
      BY <3>1, <3>3, TestedAgainstItself
    <3> QED  BY <3>2, <3>3, <3>4
  <2>3. UNCHANGED call /\ SimulationAgrees => SimulationAgrees'
    BY DEF SimulationAgrees
  <2> QED  BY <2>1, <2>2, <2>3, CallIsNamed DEF CalculationNext, SimulationAgrees
<1> QED  BY <1>1, <1>2, PTL DEF CalculationSpec
=============================================================================
