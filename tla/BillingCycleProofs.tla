------------------------- MODULE BillingCycleProofs -------------------------
(***************************************************************************)
(* Billing for any number of subscriptions, periods, workers and calls.    *)
(*                                                                         *)
(* A poll commits what it read: the proof carries, for every period a poll *)
(* has read, what is settled before it (PollsReadPeriods), and for every   *)
(* row that a call will insert, that nothing refers to it yet (NewRows,    *)
(* AbsentIsUntouched).                                                     *)
(***************************************************************************)
EXTENDS BillingCycle, FiniteSetTheorems, TLAPS

Billed(s, p) == \E i \in invoices : i.sub = s /\ i.period = p

Seen(w) == worker[w].seen

\* A poll holds subscriptions that exist and periods that have ended, and the periods
\* before them are settled.
PollsReadPeriods ==
    \A w \in Workers :
        /\ worker[w].at = "idle" => DOMAIN Seen(w) = {}
        /\ \A s \in DOMAIN Seen(w) :
              /\ subs[s].status # "absent"
              /\ subs[s].since <= Seen(w)[s] /\ Seen(w)[s] < now
              /\ \A p \in Periods : subs[s].since <= p /\ p < Seen(w)[s] => Billed(s, p)

\* A row is inserted by one call, and canceled or replaced when it is there.
NewRows ==
    \A r \in Requests :
        /\ call[r].at # "ended" => subs[Row[r]].status = "absent"
        /\ call[r].at = "commit" => call[r].op # "none"
        /\ call[r].at = "commit" /\ call[r].op # "create" => subs[call[r].sub].status # "absent"

AbsentIsUntouched ==
    \A s \in Subs, p \in Periods : subs[s].status = "absent" => ~ Billed(s, p)

Ordered == \A s \in Subs : subs[s].since <= subs[s].period

IInv ==
    /\ TypeOK
    /\ PollsReadPeriods
    /\ NewRows
    /\ AbsentIsUntouched
    /\ Ordered
    /\ InvoicedOnceAfterEnd
    /\ NoPeriodLost
    /\ UpgradeReplaces

-----------------------------------------------------------------------------
(* Readings of TypeOK. *)

LEMMA PeriodsAreNumbers == Periods \subseteq Nat /\ 0 \in Periods
BY BoundAssumption DEF Periods

LEMMA SeenTyped ==
    ASSUME TypeOK, NEW w \in Workers
    PROVE  DOMAIN Seen(w) \subseteq Subs /\ \A s \in DOMAIN Seen(w) : Seen(w)[s] \in Periods
<1>1. Seen(w) \in UNION {[T -> Periods] : T \in SUBSET Subs}
  BY DEF TypeOK, Seen
<1>2. PICK T \in SUBSET Subs : Seen(w) \in [T -> Periods]
  BY <1>1
<1> QED
  BY <1>2

LEMMA RowTyped ==
    /\ \A r \in Requests : Row[r] \in Subs /\ Row[r] # First
    /\ \A r, t \in Requests : Row[r] = Row[t] => r = t
BY RowAssumption

LEMMA InitIInv == Init => IInv
<1> SUFFICES ASSUME Init PROVE IInv
  OBVIOUS
<1> USE PeriodsAreNumbers
<1>1. TypeOK
  <2>1. now \in Periods /\ invoices = {} /\ charged = {} /\ overlapped = {}
        /\ agent \in [Runs -> {"load_subscription", "check_policy"}]
    BY DEF Init
  <2>2. subs \in [Subs -> [status : SubscriptionStatus, period : Periods, since : Periods]]
    BY DEF Init, SubscriptionStatus
  <2>3. worker \in [Workers -> [at : {"idle", "poll"},
                               seen : UNION {[T -> Periods] : T \in SUBSET Subs}]]
    <3>1. <<>> \in [{} -> Periods]
      OBVIOUS
    <3>2. <<>> \in UNION {[T -> Periods] : T \in SUBSET Subs}
      BY <3>1
    <3>3. Idle \in [at : {"idle", "poll"}, seen : UNION {[T -> Periods] : T \in SUBSET Subs}]
      BY <3>2 DEF Idle
    <3> QED
      BY <3>3 DEF Init
  <2>4. call \in [Requests -> [op : {"none", "create", "cancel", "upgrade"},
                              at : {"idle", "commit", "ended"}, sub : Subs]]
    BY SubsAssumption DEF Init, NoCall
  <2>5. faults \in 0..MaxFaults
    BY BoundAssumption DEF Init
  <2> QED
    BY <2>1, <2>2, <2>3, <2>4, <2>5 DEF TypeOK
<1>2. PollsReadPeriods
  BY DEF Init, PollsReadPeriods, Seen, Idle
<1>3. NewRows
  BY RowTyped DEF Init, NewRows, NoCall
<1>4. \A s, p : ~ Billed(s, p)
  BY DEF Init, Billed
<1>5. AbsentIsUntouched /\ Ordered
  BY <1>4 DEF Init, AbsentIsUntouched, Ordered
<1>6. InvoicedOnceAfterEnd
  BY DEF Init, InvoicedOnceAfterEnd
<1>7. NoPeriodLost
  BY <1>4 DEF Init, NoPeriodLost, Billed, Periods
<1>8. UpgradeReplaces
  <2>1. Active = {First}
    BY SubsAssumption DEF Init, Active
  <2>2. Cardinality(Active) = 1
    BY <2>1, FS_Singleton
  <2>3. {r \in Requests : call[r].op = "create" /\ call[r].at = "ended"} = {}
    BY DEF Init, NoCall
  <2>4. Cardinality({r \in Requests : call[r].op = "create" /\ call[r].at = "ended"}) = 0
    BY <2>3, FS_EmptySet
  <2> QED
    BY <2>2, <2>4 DEF UpgradeReplaces
<1> QED
  BY <1>1, <1>2, <1>3, <1>5, <1>6, <1>7, <1>8 DEF IInv

-----------------------------------------------------------------------------
(* The worker. *)

\* Steps that change no row and no call: the clock, a scan, a lost poll, the agent.
LEMMA FrameStep ==
    ASSUME IInv, TypeOK', UNCHANGED <<subs, invoices, call, overlapped>>, now <= now',
           PollsReadPeriods'
    PROVE  IInv'
<1>1. \A s, p : Billed(s, p)' = Billed(s, p)
  BY DEF Billed
<1>2. NewRows' /\ AbsentIsUntouched' /\ Ordered'
  BY <1>1 DEF IInv, NewRows, AbsentIsUntouched, Ordered
<1>3. InvoicedOnceAfterEnd'
  <2>1. \A i \in invoices : i.period \in Nat /\ now \in Nat /\ now' \in Nat
    BY PeriodsAreNumbers DEF IInv, TypeOK
  <2> QED
    BY <2>1 DEF IInv, InvoicedOnceAfterEnd
<1>4. NoPeriodLost'
  BY DEF IInv, NoPeriodLost
<1>5. UpgradeReplaces'
  BY DEF IInv, UpgradeReplaces, Active
<1> QED
  BY <1>2, <1>3, <1>4, <1>5 DEF IInv

LEMMA PeriodEndsStep == IInv /\ PeriodEnds => IInv'
<1> SUFFICES ASSUME IInv, PeriodEnds PROVE IInv'
  OBVIOUS
<1>1. /\ now' = now + 1 /\ now < MaxPeriod
      /\ UNCHANGED <<subs, invoices, worker, call, agent, charged, overlapped, faults>>
  BY DEF PeriodEnds
<1>2. now' \in Periods /\ now <= now' /\ now \in Nat /\ now' \in Nat
  BY <1>1, BoundAssumption DEF IInv, TypeOK, Periods
<1>3. TypeOK'
  BY <1>1, <1>2 DEF IInv, TypeOK
<1>4. PollsReadPeriods'
  <2>1. \A w \in Workers : \A s \in DOMAIN Seen(w) : Seen(w)[s] \in Nat
    BY SeenTyped, PeriodsAreNumbers DEF IInv
  <2>2. \A s, p : Billed(s, p)' = Billed(s, p)
    BY <1>1 DEF Billed
  <2>3. \A w : Seen(w)' = Seen(w)
    BY <1>1 DEF Seen
  <2> QED
    BY <1>1, <1>2, <2>1, <2>2, <2>3 DEF IInv, PollsReadPeriods
<1> QED
  BY <1>1, <1>2, <1>3, <1>4, FrameStep

LEMMA ScanStep == ASSUME IInv, NEW w \in Workers, Scan(w) PROVE IInv'
<1> DEFINE seen == [s \in Due |-> subs[s].period]
<1>1. /\ worker' = [worker EXCEPT ![w] = [at |-> "poll", seen |-> seen]]
      /\ UNCHANGED <<now, invoices, agent, charged, subs, call, overlapped, faults>>
  BY DEF Scan, others
<1>2. /\ Due \subseteq Subs /\ DOMAIN seen = Due
      /\ \A s \in Due : /\ seen[s] = subs[s].period /\ seen[s] \in Periods
                        /\ subs[s].status = "active" /\ seen[s] < now
  BY DEF Due, Active, IInv, TypeOK
<1>3. seen \in UNION {[T -> Periods] : T \in SUBSET Subs}
  <2>1. seen \in [Due -> Periods]
    BY <1>2
  <2> QED
    BY <1>2, <2>1
<1> HIDE DEF seen
<1>4. TypeOK'
  BY <1>1, <1>3 DEF IInv, TypeOK
<1>5. Seen(w)' = seen /\ worker'[w].at = "poll"
      /\ \A v \in Workers : v # w => worker'[v] = worker[v] /\ Seen(v)' = Seen(v)
  BY <1>1 DEF IInv, TypeOK, Seen
<1>6. \A s, p : Billed(s, p)' = Billed(s, p)
  BY <1>1 DEF Billed
<1>7. PollsReadPeriods'
  <2>1. \A s \in Due : \A p \in Periods : subs[s].since <= p /\ p < seen[s] => Billed(s, p)
    BY <1>2 DEF IInv, NoPeriodLost, Billed
  <2>2. \A s \in Due : subs[s].since <= seen[s]
    BY <1>2 DEF IInv, Ordered
  <2> QED
    BY <1>1, <1>2, <1>5, <1>6, <2>1, <2>2 DEF IInv, PollsReadPeriods
<1>8. now <= now'
  BY <1>1, PeriodsAreNumbers DEF IInv, TypeOK
<1> QED
  BY <1>1, <1>4, <1>7, <1>8, FrameStep

\* A poll that is over, committed or lost.
LEMMA IdleWorker ==
    ASSUME TypeOK, NEW w \in Workers, worker' = [worker EXCEPT ![w] = Idle]
    PROVE  /\ worker' \in [Workers -> [at : {"idle", "poll"},
                               seen : UNION {[T -> Periods] : T \in SUBSET Subs}]]
           /\ DOMAIN Seen(w)' = {}
           /\ \A v \in Workers : v # w => worker'[v] = worker[v] /\ Seen(v)' = Seen(v)
<1>1. <<>> \in [{} -> Periods]
  OBVIOUS
<1>2. <<>> \in UNION {[T -> Periods] : T \in SUBSET Subs}
  BY <1>1
<1>3. Idle \in [at : {"idle", "poll"}, seen : UNION {[T -> Periods] : T \in SUBSET Subs}]
  BY <1>2 DEF Idle
<1>4. worker'[w] = Idle /\ \A v \in Workers : v # w => worker'[v] = worker[v]
  BY DEF TypeOK
<1>5. DOMAIN Seen(w)' = {}
  BY <1>4 DEF Seen, Idle
<1> QED
  BY <1>3, <1>4, <1>5 DEF TypeOK, Seen

LEMMA LosePollStep == ASSUME IInv, NEW w \in Workers, LosePoll(w) PROVE IInv'
<1>1. /\ worker' = [worker EXCEPT ![w] = Idle] /\ faults' = faults + 1 /\ faults < MaxFaults
      /\ UNCHANGED <<now, invoices, agent, charged, subs, call, overlapped>>
  BY DEF LosePoll, others
<1>2. faults' \in 0..MaxFaults
  BY <1>1, BoundAssumption DEF IInv, TypeOK
<1>3. TypeOK'
  BY <1>1, <1>2, IdleWorker DEF IInv, TypeOK
<1>4. PollsReadPeriods'
  <2>1. \A s, p : Billed(s, p)' = Billed(s, p)
    BY <1>1 DEF Billed
  <2> QED
    BY <1>1, <2>1, IdleWorker DEF IInv, PollsReadPeriods
<1>5. now <= now'
  BY <1>1, PeriodsAreNumbers DEF IInv, TypeOK
<1> QED
  BY <1>1, <1>3, <1>4, <1>5, FrameStep

\* _process_subscription and _advance_subscription_period, for the whole poll.
LEMMA CommitPollStep == ASSUME IInv, NEW w \in Workers, CommitPoll(w) PROVE IInv'
<1>1. PICK billed \in Outcomes(w) :
          /\ subs' = Advanced(w, billed)
          /\ invoices' = invoices \union
                {InvoiceOf(s, worker[w].seen[s], "worker") : s \in billed}
          /\ overlapped' = overlapped \union
                {s \in billed : subs[s].period # worker[w].seen[s]}
  BY DEF CommitPoll
<1>2. /\ worker[w].at = "poll" /\ worker' = [worker EXCEPT ![w] = Idle]
      /\ UNCHANGED <<now, call, agent, charged, faults>>
  BY DEF CommitPoll
<1> DEFINE seen == Seen(w)
<1>3. billed \subseteq DOMAIN seen
  BY DEF Outcomes, Seen
<1>4. /\ DOMAIN seen \subseteq Subs
      /\ \A s \in DOMAIN seen :
            /\ seen[s] \in Periods /\ seen[s] \in Nat /\ seen[s] + 1 \in Periods
            /\ subs[s].status # "absent"
            /\ subs[s].since <= seen[s] /\ seen[s] < now
            /\ \A p \in Periods : subs[s].since <= p /\ p < seen[s] => Billed(s, p)
  <2>1. /\ DOMAIN seen \subseteq Subs
        /\ \A s \in DOMAIN seen :
              /\ seen[s] \in Periods
              /\ subs[s].status # "absent"
              /\ subs[s].since <= seen[s] /\ seen[s] < now
              /\ \A p \in Periods : subs[s].since <= p /\ p < seen[s] => Billed(s, p)
    BY SeenTyped DEF IInv, PollsReadPeriods
  <2>2. now \in 0..MaxPeriod /\ MaxPeriod \in Nat
    BY BoundAssumption DEF IInv, TypeOK, Periods
  <2>3. \A s \in DOMAIN seen : seen[s] \in Nat /\ seen[s] + 1 \in Periods
    BY <2>1, <2>2 DEF Periods
  <2> QED
    BY <2>1, <2>3
<1>5. subs \in [Subs -> [status : SubscriptionStatus, period : Periods, since : Periods]]
  BY DEF IInv, TypeOK
<1>6. \A s \in Subs : subs'[s] =
          IF s \in billed THEN [subs[s] EXCEPT !.period = seen[s] + 1] ELSE subs[s]
  BY <1>1 DEF Advanced, NextPeriod, Seen
<1>7. \A s \in Subs :
          /\ subs'[s].status = subs[s].status /\ subs'[s].since = subs[s].since
          /\ subs'[s].period = IF s \in billed THEN seen[s] + 1 ELSE subs[s].period
  BY <1>5, <1>6
<1>8. \A i \in invoices' : i \in invoices \/ \E s \in billed :
          /\ i.sub = s /\ i.period = seen[s] /\ i.by = "worker"
          /\ i.n = Cardinality({j \in invoices : j.sub = s /\ j.period = seen[s]}) + 1
  <2> SUFFICES ASSUME NEW i \in invoices', i \notin invoices
               PROVE  \E s \in billed :
                         /\ i.sub = s /\ i.period = seen[s] /\ i.by = "worker"
                         /\ i.n = Cardinality({j \in invoices : j.sub = s /\ j.period = seen[s]}) + 1
    OBVIOUS
  <2>1. PICK s \in billed : i = InvoiceOf(s, seen[s], "worker")
    BY <1>1 DEF Seen
  <2>2. /\ i.sub = s /\ i.period = seen[s] /\ i.by = "worker"
        /\ i.n = Cardinality({j \in invoices : j.sub = s /\ j.period = seen[s]}) + 1
    BY <2>1 DEF InvoiceOf
  <2> QED
    BY <2>2
<1>9. invoices \subseteq invoices'
  BY <1>1
<1>10. \A s \in billed : \E i \in invoices' : i.sub = s /\ i.period = seen[s]
  <2> SUFFICES ASSUME NEW s \in billed PROVE \E i \in invoices' : i.sub = s /\ i.period = seen[s]
    OBVIOUS
  <2>1. InvoiceOf(s, seen[s], "worker") \in invoices'
    BY <1>1 DEF Seen
  <2>2. InvoiceOf(s, seen[s], "worker").sub = s /\ InvoiceOf(s, seen[s], "worker").period = seen[s]
    BY DEF InvoiceOf
  <2> QED
    BY <2>1, <2>2
<1>12. /\ overlapped \subseteq overlapped'
       /\ \A s \in billed : s \notin overlapped' => subs[s].period = seen[s]
       /\ overlapped' \subseteq Subs
  BY <1>1, <1>3, <1>4 DEF Seen, IInv, TypeOK
<1> HIDE DEF seen
<1>13. \A s, p : Billed(s, p)' <=> Billed(s, p) \/ (s \in billed /\ p = seen[s])
  <2> SUFFICES ASSUME NEW s, NEW p
               PROVE  Billed(s, p)' <=> Billed(s, p) \/ (s \in billed /\ p = seen[s])
    OBVIOUS
  <2>1. (\E i \in invoices' : i.sub = s /\ i.period = p)
            <=> (\E i \in invoices : i.sub = s /\ i.period = p) \/ (s \in billed /\ p = seen[s])
    <3>1. (\E i \in invoices' : i.sub = s /\ i.period = p)
              => (\E i \in invoices : i.sub = s /\ i.period = p) \/ (s \in billed /\ p = seen[s])
      BY <1>8
    <3>2. (\E i \in invoices : i.sub = s /\ i.period = p)
              => \E i \in invoices' : i.sub = s /\ i.period = p
      BY <1>9
    <3>3. s \in billed /\ p = seen[s] => \E i \in invoices' : i.sub = s /\ i.period = p
      BY <1>10
    <3> QED
      BY <3>1, <3>2, <3>3
  <2> QED
    BY <2>1 DEF Billed
<1>14. TypeOK'
  <2>1. subs' \in [Subs -> [status : SubscriptionStatus, period : Periods, since : Periods]]
    <3>1. \A s \in billed : [subs[s] EXCEPT !.period = seen[s] + 1]
              \in [status : SubscriptionStatus, period : Periods, since : Periods]
      BY <1>3, <1>4, <1>5
    <3>2. subs' = [s \in Subs |-> subs'[s]]
      BY <1>1 DEF Advanced
    <3> QED
      BY <1>5, <1>6, <3>1, <3>2
  <2>2. \A i \in invoices' : i.sub \in Subs /\ i.period \in Periods /\ i.by \in Runs \union {"worker"}
    BY <1>3, <1>4, <1>8 DEF IInv, TypeOK
  <2> QED
    BY <1>2, <1>12, <2>1, <2>2, IdleWorker DEF IInv, TypeOK
<1>15. PollsReadPeriods'
  <2> SUFFICES ASSUME NEW v \in Workers
               PROVE  /\ worker'[v].at = "idle" => DOMAIN Seen(v)' = {}
                      /\ \A s \in DOMAIN Seen(v)' :
                            /\ subs'[s].status # "absent"
                            /\ subs'[s].since <= Seen(v)'[s] /\ Seen(v)'[s] < now'
                            /\ \A p \in Periods : subs'[s].since <= p /\ p < Seen(v)'[s] => Billed(s, p)'
    BY DEF PollsReadPeriods
  <2>1. CASE v = w
    BY <1>2, <2>1, IdleWorker DEF IInv
  <2>2. CASE v # w
    <3>1. worker'[v] = worker[v] /\ Seen(v)' = Seen(v) /\ now' = now
      BY <1>2, <2>2, IdleWorker DEF IInv
    <3>2. DOMAIN Seen(v) \subseteq Subs
      BY SeenTyped DEF IInv
    <3> QED
      BY <1>7, <1>13, <3>1, <3>2 DEF IInv, PollsReadPeriods
  <2> QED
    BY <2>1, <2>2
<1>16. NewRows'
  <2>1. \A r \in Requests : Row[r] \in Subs /\ call[r].sub \in Subs
    BY RowTyped DEF IInv, TypeOK
  <2> QED
    BY <1>2, <1>7, <2>1 DEF IInv, NewRows
<1>17. AbsentIsUntouched'
  BY <1>3, <1>4, <1>7, <1>13 DEF IInv, AbsentIsUntouched
<1>18. Ordered'
  <2>1. \A s \in Subs : subs[s].since \in Nat
    BY <1>5, PeriodsAreNumbers
  <2> QED
    BY <1>3, <1>4, <1>7, <2>1 DEF IInv, Ordered
<1>19. \A s \in billed : s \notin overlapped' => ~ Billed(s, seen[s])
  <2> SUFFICES ASSUME NEW s \in billed, s \notin overlapped' PROVE ~ Billed(s, seen[s])
    OBVIOUS
  <2>1. subs[s].period = seen[s] /\ s \notin overlapped /\ s \in Subs /\ seen[s] \in Periods
        /\ seen[s] >= subs[s].period
    BY <1>3, <1>4, <1>12
  <2> QED
    BY <2>1 DEF IInv, NoPeriodLost, Billed
<1>20. InvoicedOnceAfterEnd'
  <2> SUFFICES ASSUME NEW i \in invoices'
               PROVE  i.period < now' /\ (i.sub \notin overlapped' => i.n = 1)
    BY DEF InvoicedOnceAfterEnd
  <2>1. CASE i \in invoices
    BY <1>2, <1>12, <2>1 DEF IInv, InvoicedOnceAfterEnd
  <2>2. CASE i \notin invoices
    <3>1. PICK s \in billed :
              /\ i.sub = s /\ i.period = seen[s]
              /\ i.n = Cardinality({j \in invoices : j.sub = s /\ j.period = seen[s]}) + 1
      BY <1>8, <2>2
    <3>2. i.period < now'
      BY <1>2, <1>3, <1>4, <3>1
    <3>3. ASSUME s \notin overlapped' PROVE i.n = 1
      <4>1. {j \in invoices : j.sub = s /\ j.period = seen[s]} = {}
        BY <1>3, <1>19, <3>3 DEF Billed
      <4> QED
        BY <3>1, <4>1, FS_EmptySet
    <3> QED
      BY <3>1, <3>2, <3>3
  <2> QED
    BY <2>1, <2>2
<1>21. NoPeriodLost'
  <2> SUFFICES ASSUME NEW s \in Subs, NEW p \in Periods
               PROVE  /\ subs'[s].since <= p /\ p < subs'[s].period => Billed(s, p)'
                      /\ p >= subs'[s].period /\ s \notin overlapped' => ~ Billed(s, p)'
    BY DEF NoPeriodLost, Billed
  <2>0. p \in Nat /\ subs[s].period \in Nat
    BY <1>5, PeriodsAreNumbers
  <2>1. CASE s \notin billed
    BY <1>7, <1>12, <1>13, <2>1 DEF IInv, NoPeriodLost, Billed
  <2>2. CASE s \in billed
    <3>1. /\ subs'[s].period = seen[s] + 1 /\ subs'[s].since = subs[s].since /\ seen[s] \in Nat
          /\ subs[s].since <= p /\ p < seen[s] => Billed(s, p)
      BY <1>3, <1>4, <1>7, <2>2
    <3>2. subs'[s].since <= p /\ p < subs'[s].period => Billed(s, p)'
      BY <1>13, <2>0, <2>2, <3>1
    <3>3. ASSUME p >= subs'[s].period, s \notin overlapped' PROVE ~ Billed(s, p)'
      <4>1. subs[s].period = seen[s] /\ s \notin overlapped
        BY <1>12, <2>2, <3>3
      <4>2. p >= subs[s].period /\ p # seen[s]
        BY <2>0, <3>1, <3>3, <4>1
      <4>3. ~ Billed(s, p)
        BY <4>1, <4>2 DEF IInv, NoPeriodLost, Billed
      <4> QED
        BY <1>13, <4>2, <4>3
    <3> QED
      BY <3>2, <3>3
  <2> QED
    BY <2>1, <2>2
<1>22. UpgradeReplaces'
  <2>1. Active' = Active
    BY <1>7 DEF Active
  <2>2. overlapped' = {} => overlapped = {}
    BY <1>12
  <2> QED
    BY <1>2, <2>1, <2>2 DEF IInv, UpgradeReplaces
<1> QED
  BY <1>14, <1>15, <1>16, <1>17, <1>18, <1>20, <1>21, <1>22 DEF IInv

-----------------------------------------------------------------------------
(* The API and the agent. *)

LEMMA SelectStep ==
    ASSUME IInv, NEW r \in Requests, NEW op \in {"create", "cancel", "upgrade"}, NEW s \in Subs,
           Select(r, op, s)
    PROVE  IInv'
<1>1. /\ call[r].at = "idle" /\ (op # "create" => subs[s].status # "absent")
      /\ call' = [call EXCEPT ![r] = [op |-> op, at |-> "commit", sub |-> s]]
      /\ UNCHANGED <<now, invoices, agent, charged, subs, worker, overlapped, faults>>
  BY DEF Select, others
<1>2. /\ call'[r] = [op |-> op, at |-> "commit", sub |-> s]
      /\ \A t \in Requests : t # r => call'[t] = call[t]
  BY <1>1 DEF IInv, TypeOK
<1>3. TypeOK'
  BY <1>1 DEF IInv, TypeOK
<1>4. \A x, p : Billed(x, p)' = Billed(x, p)
  BY <1>1 DEF Billed
<1>5. PollsReadPeriods' /\ AbsentIsUntouched' /\ Ordered' /\ InvoicedOnceAfterEnd' /\ NoPeriodLost'
  BY <1>1, <1>4 DEF IInv, PollsReadPeriods, Seen, AbsentIsUntouched, Ordered, InvoicedOnceAfterEnd,
                    NoPeriodLost
<1>6. NewRows'
  <2>1. subs'[Row[r]].status = "absent"
    BY <1>1 DEF IInv, NewRows
  <2> QED
    BY <1>1, <1>2, <2>1 DEF IInv, NewRows
<1>7. UpgradeReplaces'
  <2>1. {t \in Requests : call'[t].op = "create" /\ call'[t].at = "ended"}
            = {t \in Requests : call[t].op = "create" /\ call[t].at = "ended"}
    BY <1>1, <1>2
  <2> QED
    BY <1>1, <2>1 DEF IInv, UpgradeReplaces, Active
<1> QED
  BY <1>3, <1>5, <1>6, <1>7 DEF IInv

\* What the commits have in common: a row is inserted, or a status is set to canceled.
\* r is the call that commits, new tells whether it inserts Row[r].
RowsAfter(r, new) ==
    \A s \in Subs :
        IF new /\ s = Row[r]
        THEN subs'[s].status = "active" /\ subs'[s].period = now /\ subs'[s].since = now
        ELSE /\ subs'[s].status \in {subs[s].status, "canceled"}
             /\ subs'[s].status # subs[s].status =>
                   s = call[r].sub /\ call[r].op \in {"cancel", "upgrade"}
             /\ subs'[s].period = subs[s].period /\ subs'[s].since = subs[s].since

LEMMA CommitRows ==
    ASSUME IInv, NEW r \in Requests, Commit(r)
    PROVE  /\ subs' \in [Subs -> [status : SubscriptionStatus, period : Periods, since : Periods]]
           /\ RowsAfter(r, call[r].op # "cancel")
           /\ call[r].op \in {"create", "cancel", "upgrade"}
           /\ call[r].op # "create" => subs'[call[r].sub].status = "canceled"
           /\ Row[r] \in Subs /\ subs[Row[r]].status = "absent"
           /\ call[r].op # "create" => Row[r] # call[r].sub
<1>1. call[r].at = "commit" /\ call[r].op \in {"create", "cancel", "upgrade"} /\ call[r].sub \in Subs
  BY DEF Commit, IInv, TypeOK, NewRows
<1>2. Row[r] \in Subs /\ subs[Row[r]].status = "absent"
  BY <1>1, RowTyped DEF IInv, NewRows
<1>3. call[r].op # "create" => Row[r] # call[r].sub
  BY <1>1, <1>2 DEF IInv, NewRows
<1>4. subs \in [Subs -> [status : SubscriptionStatus, period : Periods, since : Periods]]
      /\ now \in Periods
  BY DEF IInv, TypeOK
<1>5. [status |-> "active", period |-> now, since |-> now]
          \in [status : SubscriptionStatus, period : Periods, since : Periods]
  BY <1>4 DEF SubscriptionStatus
<1>6. \A s \in Subs : [subs[s] EXCEPT !.status = "canceled"]
          \in [status : SubscriptionStatus, period : Periods, since : Periods]
  BY <1>4 DEF SubscriptionStatus
<1>7. CASE call[r].op = "create"
  <2>1. subs' = [subs EXCEPT ![Row[r]] = [status |-> "active", period |-> now, since |-> now]]
    BY <1>7 DEF Commit, AfterCreate
  <2> QED
    BY <1>1, <1>2, <1>4, <1>5, <1>7, <2>1 DEF RowsAfter
<1>8. CASE call[r].op = "cancel"
  <2>1. subs' = [subs EXCEPT ![call[r].sub] = [subs[call[r].sub] EXCEPT !.status = "canceled"]]
    BY <1>8 DEF Commit, AfterCancel
  <2> QED
    BY <1>1, <1>2, <1>3, <1>4, <1>6, <1>8, <2>1 DEF RowsAfter
<1>9. CASE call[r].op = "upgrade"
  <2> DEFINE old == [subs EXCEPT ![call[r].sub] = [subs[call[r].sub] EXCEPT !.status = "canceled"]]
  <2>1. subs' = [old EXCEPT ![Row[r]] = [status |-> "active", period |-> now, since |-> now]]
    BY <1>9 DEF Commit, AfterUpgrade
  <2>2. /\ old \in [Subs -> [status : SubscriptionStatus, period : Periods, since : Periods]]
        /\ old[call[r].sub].status = "canceled"
        /\ old[call[r].sub].period = subs[call[r].sub].period
        /\ old[call[r].sub].since = subs[call[r].sub].since
        /\ \A s \in Subs : s # call[r].sub => old[s] = subs[s]
    BY <1>1, <1>4, <1>6
  <2> HIDE DEF old
  <2> QED
    BY <1>1, <1>2, <1>3, <1>4, <1>5, <1>9, <2>1, <2>2 DEF RowsAfter
<1> QED
  BY <1>1, <1>7, <1>8, <1>9

LEMMA CommitCallStep == ASSUME IInv, NEW r \in Requests, Commit(r) PROVE IInv'
<1> DEFINE new == call[r].op # "cancel"
           x == call[r].sub
<1>1. /\ call[r].at = "commit"
      /\ call' = [call EXCEPT ![r] = [op |-> call[r].op, at |-> "ended", sub |-> First]]
      /\ overlapped' = overlapped \union {s \in {x} : call[r].op = "upgrade" /\ subs[s].status # "active"}
      /\ UNCHANGED <<now, invoices, agent, charged, worker, faults>>
  BY DEF Commit, others
<1>2. /\ subs' \in [Subs -> [status : SubscriptionStatus, period : Periods, since : Periods]]
      /\ RowsAfter(r, new)
      /\ call[r].op \in {"create", "cancel", "upgrade"}
      /\ call[r].op # "create" => subs'[x].status = "canceled"
      /\ Row[r] \in Subs /\ subs[Row[r]].status = "absent"
      /\ call[r].op # "create" => Row[r] # x
  BY CommitRows
<1>3. x \in Subs /\ now \in Periods /\ now \in Nat
  BY PeriodsAreNumbers DEF IInv, TypeOK
<1>4. /\ call'[r].op = call[r].op /\ call'[r].at = "ended"
      /\ \A t \in Requests : t # r => call'[t] = call[t]
  BY <1>1 DEF IInv, TypeOK
<1>5. overlapped \subseteq overlapped' /\ overlapped' \subseteq Subs
  BY <1>1, <1>3 DEF IInv, TypeOK
<1>6. \A s, p : Billed(s, p)' = Billed(s, p)
  BY <1>1 DEF Billed
<1>7. TypeOK'
  <2>1. call' \in [Requests -> [op : {"none", "create", "cancel", "upgrade"},
                              at : {"idle", "commit", "ended"}, sub : Subs]]
    BY <1>1, <1>2, SubsAssumption DEF IInv, TypeOK
  <2> QED
    BY <1>1, <1>2, <1>5, <2>1 DEF IInv, TypeOK
<1> HIDE DEF new, x
<1>8. \A s \in Subs : subs[s].status # "absent" =>
          /\ subs'[s].status # "absent"
          /\ subs'[s].period = subs[s].period /\ subs'[s].since = subs[s].since
  BY <1>2 DEF RowsAfter
<1>9. PollsReadPeriods'
  <2>1. \A w \in Workers : DOMAIN Seen(w) \subseteq Subs
    BY SeenTyped DEF IInv
  <2> QED
    BY <1>1, <1>6, <1>8, <2>1 DEF IInv, PollsReadPeriods, Seen
<1>10. \A s \in Subs : s # Row[r] => (subs'[s].status = "absent" <=> subs[s].status = "absent")
  <2> SUFFICES ASSUME NEW s \in Subs, s # Row[r], subs'[s].status # subs[s].status
               PROVE  subs'[s].status # "absent" /\ subs[s].status # "absent"
    OBVIOUS
  <2>1. subs'[s].status = "canceled" /\ s = call[r].sub /\ call[r].op \in {"cancel", "upgrade"}
    BY <1>2 DEF RowsAfter
  <2> QED
    BY <1>1, <2>1 DEF IInv, NewRows
<1>11. NewRows'
  <2> SUFFICES ASSUME NEW t \in Requests, call'[t].at # "ended"
               PROVE  /\ subs'[Row[t]].status = "absent"
                      /\ call'[t].at = "commit" => call'[t].op # "none"
                      /\ call'[t].at = "commit" /\ call'[t].op # "create"
                            => subs'[call'[t].sub].status # "absent"
    BY DEF NewRows
  <2>1. t # r /\ call'[t] = call[t] /\ Row[t] \in Subs /\ Row[t] # Row[r] /\ call[t].sub \in Subs
    BY <1>4, RowTyped DEF IInv, TypeOK
  <2> QED
    BY <1>8, <1>10, <2>1 DEF IInv, NewRows
<1>12. AbsentIsUntouched'
  BY <1>6, <1>8 DEF IInv, AbsentIsUntouched
<1>13. Ordered'
  BY <1>2, <1>3 DEF IInv, Ordered, RowsAfter
<1>14. InvoicedOnceAfterEnd'
  BY <1>1, <1>5 DEF IInv, InvoicedOnceAfterEnd
<1>15. NoPeriodLost'
  <2> SUFFICES ASSUME NEW s \in Subs, NEW p \in Periods
               PROVE  /\ subs'[s].since <= p /\ p < subs'[s].period => Billed(s, p)'
                      /\ p >= subs'[s].period /\ s \notin overlapped' => ~ Billed(s, p)'
    BY DEF NoPeriodLost, Billed
  <2>1. p \in Nat
    BY PeriodsAreNumbers
  <2>2. CASE new /\ s = Row[r]
    <3>1. subs'[s].period = now /\ subs'[s].since = now /\ ~ Billed(s, p)'
      BY <1>2, <1>6, <2>2 DEF RowsAfter, IInv, AbsentIsUntouched
    <3> QED
      BY <1>3, <2>1, <3>1
  <2>3. CASE ~ (new /\ s = Row[r])
    <3>1. subs'[s].period = subs[s].period /\ subs'[s].since = subs[s].since
      BY <1>2, <2>3 DEF RowsAfter
    <3> QED
      BY <1>5, <1>6, <3>1 DEF IInv, NoPeriodLost, Billed
  <2> QED
    BY <2>2, <2>3
<1>16. UpgradeReplaces'
  <2> SUFFICES ASSUME overlapped' = {}
               PROVE  Cardinality(Active')
                        <= 1 + Cardinality({t \in Requests : call'[t].op = "create" /\ call'[t].at = "ended"})
    BY DEF UpgradeReplaces
  <2> DEFINE created == {t \in Requests : call[t].op = "create" /\ call[t].at = "ended"}
             createdNext == {t \in Requests : call'[t].op = "create" /\ call'[t].at = "ended"}
  <2> SUFFICES Cardinality(Active') <= 1 + Cardinality(createdNext)
    OBVIOUS
  <2>1. Active \subseteq Subs /\ created \subseteq Requests
    BY DEF Active
  <2>2. Cardinality(Active) <= 1 + Cardinality(created)
    BY <1>5 DEF IInv, UpgradeReplaces
  <2>3. r \notin created
        /\ createdNext = IF call[r].op = "create" THEN created \union {r} ELSE created
    BY <1>1, <1>4
  <2> HIDE DEF created, createdNext
  <2>4. /\ IsFiniteSet(Active) /\ IsFiniteSet(created)
        /\ Cardinality(Active) \in Nat /\ Cardinality(created) \in Nat
    BY <2>1, FiniteAssumption, FS_Subset, FS_CardinalityType
  <2>5. CASE call[r].op = "create"
    <3>1. Active' = Active \union {Row[r]} /\ Row[r] \notin Active
      BY <1>2, <2>5 DEF Active, RowsAfter, new
    <3>2. Cardinality(Active \union {Row[r]}) = Cardinality(Active) + 1
      BY <2>4, <3>1, FS_AddElement
    <3>3. Cardinality(created \union {r}) = Cardinality(created) + 1
      BY <2>3, <2>4, FS_AddElement
    <3> QED
      BY <2>2, <2>3, <2>4, <2>5, <3>1, <3>2, <3>3
  <2>6. CASE call[r].op = "cancel"
    <3>1. Active' \subseteq Active
      BY <1>2, <2>6 DEF Active, RowsAfter, new
    <3>2. Cardinality(Active') <= Cardinality(Active) /\ Cardinality(Active') \in Nat
      BY <2>4, <3>1, FS_Subset, FS_CardinalityType
    <3> QED
      BY <2>2, <2>3, <2>4, <2>6, <3>2
  <2>7. CASE call[r].op = "upgrade"
    <3>1. x \in Active
      BY <1>1, <1>3, <1>5, <2>7 DEF Active
    <3> DEFINE rest == Active \ {x}
    <3>2. Row[r] \notin rest
      BY <1>2 DEF Active
    <3>3. Active' \subseteq rest \union {Row[r]}
      BY <1>2, <2>7 DEF Active, RowsAfter, new, x
    <3>4. IsFiniteSet(rest) /\ Cardinality(rest) = Cardinality(Active) - 1
      BY <2>4, <3>1, FS_RemoveElement
    <3> HIDE DEF rest
    <3>5. /\ IsFiniteSet(rest \union {Row[r]})
          /\ Cardinality(rest \union {Row[r]}) = Cardinality(rest) + 1
      BY <3>2, <3>4, FS_AddElement
    <3>6. /\ Cardinality(Active') <= Cardinality(rest \union {Row[r]})
          /\ Cardinality(Active') \in Nat
      BY <3>3, <3>5, FS_Subset, FS_CardinalityType
    <3> QED
      BY <2>2, <2>3, <2>4, <2>7, <3>4, <3>5, <3>6
  <2> QED
    BY <1>2, <2>5, <2>6, <2>7
<1> QED
  BY <1>7, <1>9, <1>11, <1>12, <1>13, <1>14, <1>15, <1>16 DEF IInv

LEMMA AgentStepKeeps == ASSUME IInv, NEW r \in Runs, AgentStep(r) PROVE IInv'
<1>1. /\ UNCHANGED <<now, subs, invoices, worker, call, overlapped, faults>>
      /\ agent' \in [Runs -> {"load_subscription", "check_policy"}]
      /\ charged' \subseteq Runs
  <2>1. CASE GenerateInvoice(r)
    BY <2>1 DEF GenerateInvoice, Node, IInv, TypeOK
  <2>2. CASE AttemptPayment(r)
    BY <2>2 DEF AttemptPayment, Node, IInv, TypeOK
  <2> QED
    BY <2>1, <2>2 DEF AgentStep
<1>2. TypeOK'
  BY <1>1 DEF IInv, TypeOK
<1>3. PollsReadPeriods'
  BY <1>1 DEF IInv, PollsReadPeriods, Seen, Billed
<1>4. now <= now'
  BY <1>1, PeriodsAreNumbers DEF IInv, TypeOK
<1> QED
  BY <1>1, <1>2, <1>3, <1>4, FrameStep

-----------------------------------------------------------------------------
(* The theorems. *)

LEMMA NextKeepsIInv == IInv /\ [Next]_vars => IInv'
<1> SUFFICES ASSUME IInv, [Next]_vars PROVE IInv'
  OBVIOUS
<1>1. CASE PeriodEnds
  BY <1>1, PeriodEndsStep
<1>2. CASE \E w \in Workers : WorkerStep(w) \/ LosePoll(w)
  BY <1>2, ScanStep, CommitPollStep, LosePollStep DEF WorkerStep
<1>3. CASE \E r \in Requests : RequestStep(r)
  BY <1>3, SelectStep, CommitCallStep DEF RequestStep
<1>4. CASE \E r \in Runs : AgentStep(r)
  BY <1>4, AgentStepKeeps
<1>5. CASE UNCHANGED vars
  <2>1. UNCHANGED <<now, subs, invoices, worker, call, agent, charged, overlapped, faults>>
    BY <1>5 DEF vars, others
  <2>2. TypeOK' /\ now <= now'
    BY <2>1, PeriodsAreNumbers DEF IInv, TypeOK
  <2>3. PollsReadPeriods'
    BY <2>1 DEF IInv, PollsReadPeriods, Seen, Billed
  <2> QED
    BY <2>1, <2>2, <2>3, FrameStep
<1> QED
  BY <1>1, <1>2, <1>3, <1>4, <1>5 DEF Next

\* The invariant holds for any number of subscriptions and of workers polling them
\* at a time.
THEOREM SpecKeepsIInv == Spec => []IInv
BY InitIInv, NextKeepsIInv, PTL DEF Spec

\* Every row, poll and call keeps its type.
THEOREM TypeCorrect == Spec => []TypeOK
<1>1. IInv => TypeOK
  BY DEF IInv
<1> QED
  BY <1>1, SpecKeepsIInv, PTL

\* InvoiceWorker: a period is invoiced after its end, and once unless two polls read
\* it at a time.
THEOREM PeriodsAreInvoicedOnce == Spec => []InvoicedOnceAfterEnd
<1>1. IInv => InvoicedOnceAfterEnd
  BY DEF IInv
<1> QED
  BY <1>1, SpecKeepsIInv, PTL

\* _advance_subscription_period: no period is passed over, whatever raises, is lost or
\* is polled twice.
THEOREM PeriodsAreNotLost == Spec => []NoPeriodLost
<1>1. IInv => NoPeriodLost
  BY DEF IInv
<1> QED
  BY <1>1, SpecKeepsIInv, PTL

\* upgrade: only create_subscription adds to a customer's active subscriptions, unless
\* two upgrades overlapped.
THEOREM UpgradesReplace == Spec => []UpgradeReplaces
<1>1. IInv => UpgradeReplaces
  BY DEF IInv
<1> QED
  BY <1>1, SpecKeepsIInv, PTL
=============================================================================
