---------------------------- MODULE LedgerProofs ----------------------------
(***************************************************************************)
(* The ledger keeps double entry for any accounts, transactions and        *)
(* amounts.  TypeOK and DoubleEntry together are inductive: freshness of   *)
(* the transaction id keeps one row per type, and one UPDATE per           *)
(* transaction keeps the two rows in step.                                 *)
(***************************************************************************)
EXTENDS Ledger, FiniteSetTheorems, WellFoundedInduction, TLAPS

IInv == TypeOK /\ DoubleEntry

-----------------------------------------------------------------------------
(* Sums of amounts.  SumAmounts is defined by recursion over sets of rows,   *)
(* in the order CHOOSE draws them.  What is proved of it: the function that  *)
(* the recursion defines exists, the order does not matter, and the sum is   *)
(* the same in whatever table the rows are.  Each proof looks at a set of    *)
(* least cardinality that would be an exception.                             *)

LEMMA LeastNat ==
    ASSUME NEW T, T \subseteq Nat, T # {}
    PROVE  \E n \in T : \A m \in T : n <= m
<1> DEFINE R == {ss \in Nat \X Nat : ss[1] < ss[2]}
<1>1. IsWellFoundedOn(R, Nat)
  BY NatLessThanWellFounded DEF OpToRel
<1>2. \E x \in T : \A y \in T : ~ (<<y, x>> \in R)
  <2> HIDE DEF R
  <2> QED
    BY <1>1, WFMin
<1>3. \A x, y \in T : ~ (<<y, x>> \in R) => x <= y
  OBVIOUS
<1> QED
  BY <1>2, <1>3

\* A set of sets that holds whatever is not empty has a smallest one.
LEMMA LeastSet ==
    ASSUME NEW S, IsFiniteSet(S), NEW F, F \subseteq SUBSET S, F # {}
    PROVE  \E s \in F : \A t \in F : Cardinality(s) <= Cardinality(t)
<1> DEFINE C == {Cardinality(s) : s \in F}
<1>1. C \subseteq Nat
  BY FS_Subset, FS_CardinalityType
<1>2. C # {}
  OBVIOUS
<1>3. \A s \in F : Cardinality(s) \in C
  OBVIOUS
<1>4. \A n \in C : \E s \in F : n = Cardinality(s)
  OBVIOUS
<1> HIDE DEF C
<1>5. PICK n \in C : \A m \in C : n <= m
  BY <1>1, <1>2, LeastNat
<1>6. PICK s \in F : n = Cardinality(s)
  BY <1>4
<1> QED
  BY <1>3, <1>5, <1>6

Drawn(s) == CHOOSE x \in s : TRUE

\* The sum of s, when f gives the sums of smaller sets.
Total(f, s) == IF s = {} THEN 0 ELSE Drawn(s).amount + f[s \ {Drawn(s)}]

SumOf(S) == CHOOSE f : f = [s \in SUBSET S |-> Total(f, s)]

LEMMA SumAmountsIsSumOf == \A S : SumAmounts(S) = SumOf(S)[S]
BY DEF SumAmounts, MapThenSumSet, MapThenFoldSet, SumOf, Total, Drawn

LEMMA DrawnIsIn == \A s : s # {} => Drawn(s) \in s
BY DEF Drawn

LEMMA OneLess ==
    ASSUME NEW S, IsFiniteSet(S), NEW s \in SUBSET S, NEW x \in s
    PROVE  /\ s \ {x} \in SUBSET S
           /\ Cardinality(s) \in Nat /\ Cardinality(s \ {x}) \in Nat
           /\ Cardinality(s \ {x}) = Cardinality(s) - 1
<1>1. IsFiniteSet(s)
  BY FS_Subset
<1> QED
  BY <1>1, FS_RemoveElement, FS_CardinalityType

LEMMA SumExists ==
    ASSUME NEW S, IsFiniteSet(S)
    PROVE  \E f : f = [s \in SUBSET S |-> Total(f, s)]
<1> DEFINE Upto(n, f) == f = [s \in SUBSET S |-> IF Cardinality(s) <= n THEN Total(f, s) ELSE 0]
           Bad == {n \in Nat : ~ \E f : Upto(n, f)}
<1>0. \A s \in SUBSET S : IsFiniteSet(s) /\ Cardinality(s) \in Nat /\ Cardinality(s) <= Cardinality(S)
  BY FS_Subset, FS_CardinalityType
<1>1. 0 \notin Bad
  <2> DEFINE f == [s \in SUBSET S |-> 0]
  <2>1. \A s \in SUBSET S : Cardinality(s) <= 0 => s = {}
    BY <1>0, FS_EmptySet
  <2>2. f = [s \in SUBSET S |-> IF Cardinality(s) <= 0 THEN Total(f, s) ELSE 0]
    BY <2>1 DEF Total
  <2> QED
    BY <2>2
<1>2. ASSUME NEW n \in Nat, n \notin Bad PROVE n + 1 \notin Bad
  <2>1. PICK f : Upto(n, f)
    BY <1>2
  <2> DEFINE g == [s \in SUBSET S |-> IF Cardinality(s) <= n + 1 THEN Total(f, s) ELSE 0]
  <2>2. \A s \in SUBSET S : Cardinality(s) <= n + 1 => Total(g, s) = Total(f, s)
    <3> SUFFICES ASSUME NEW s \in SUBSET S, Cardinality(s) <= n + 1, s # {}
                 PROVE  g[s \ {Drawn(s)}] = f[s \ {Drawn(s)}]
      BY DEF Total
    <3>1. /\ s \ {Drawn(s)} \in SUBSET S
          /\ Cardinality(s \ {Drawn(s)}) \in Nat
          /\ Cardinality(s \ {Drawn(s)}) <= n
      BY DrawnIsIn, OneLess
    <3>2. g[s \ {Drawn(s)}] = Total(f, s \ {Drawn(s)})
      BY <3>1
    <3>3. f[s \ {Drawn(s)}] = Total(f, s \ {Drawn(s)})
      BY <2>1, <3>1
    <3> QED
      BY <3>2, <3>3
  <2>3. g = [s \in SUBSET S |-> IF Cardinality(s) <= n + 1 THEN Total(g, s) ELSE 0]
    BY <2>2
  <2> QED
    BY <2>3
<1>3. Bad = {}
  <2> SUFFICES ASSUME Bad # {} PROVE FALSE
    OBVIOUS
  <2>1. PICK n \in Bad : \A m \in Bad : n <= m
    BY LeastNat
  <2> HIDE DEF Bad
  <2>2. n \in Nat
    BY <2>1 DEF Bad
  <2>3. n # 0
    BY <1>1, <2>1
  <2>4. n - 1 \in Nat /\ n - 1 \notin Bad
    BY <2>1, <2>2, <2>3
  <2>5. (n - 1) + 1 \notin Bad
    BY <1>2, <2>4
  <2> QED
    BY <2>1, <2>2, <2>5
<1>4. Cardinality(S) \in Nat
  BY FS_CardinalityType
<1>5. PICK f : Upto(Cardinality(S), f)
  BY <1>3, <1>4
<1>6. f = [s \in SUBSET S |-> Total(f, s)]
  BY <1>0, <1>5
<1> QED
  BY <1>6

LEMMA SumOfStep ==
    ASSUME NEW S, IsFiniteSet(S), NEW s \in SUBSET S
    PROVE  SumOf(S)[s] = IF s = {} THEN 0 ELSE Drawn(s).amount + SumOf(S)[s \ {Drawn(s)}]
<1>1. SumOf(S) = [t \in SUBSET S |-> Total(SumOf(S), t)]
  BY SumExists DEF SumOf
<1> QED
  BY <1>1 DEF Total

LEMMA SumOfInt ==
    ASSUME NEW S, IsFiniteSet(S), \A e \in S : e.amount \in Int
    PROVE  \A s \in SUBSET S : SumOf(S)[s] \in Int
<1> DEFINE F == {s \in SUBSET S : SumOf(S)[s] \notin Int}
<1> SUFFICES ASSUME F # {} PROVE FALSE
  OBVIOUS
<1>1. PICK s \in F : \A t \in F : Cardinality(s) <= Cardinality(t)
  BY LeastSet
<1>2. s # {}
  <2>1. s \in SUBSET S /\ SumOf(S)[s] \notin Int
    BY <1>1
  <2>2. s = {} => SumOf(S)[s] = 0
    BY <2>1, SumOfStep
  <2> QED
    BY <2>1, <2>2
<1>3. Drawn(s) \in s /\ s \in SUBSET S
  BY <1>1, <1>2, DrawnIsIn
<1>4. s \ {Drawn(s)} \notin F
  BY <1>1, <1>3, OneLess
<1>5. SumOf(S)[s \ {Drawn(s)}] \in Int
  BY <1>3, <1>4
<1>6. SumOf(S)[s] = Drawn(s).amount + SumOf(S)[s \ {Drawn(s)}]
  BY <1>2, <1>3, SumOfStep
<1> QED
  BY <1>1, <1>3, <1>5, <1>6

\* The order in which the rows are drawn does not matter.
LEMMA SumOfAnyOrder ==
    ASSUME NEW S, IsFiniteSet(S), \A e \in S : e.amount \in Int
    PROVE  \A s \in SUBSET S : \A y \in s : SumOf(S)[s] = y.amount + SumOf(S)[s \ {y}]
<1> DEFINE f == SumOf(S)
           F == {s \in SUBSET S : \E y \in s : f[s] # y.amount + f[s \ {y}]}
<1> SUFFICES ASSUME F # {} PROVE FALSE
  OBVIOUS
<1>1. PICK s \in F : \A t \in F : Cardinality(s) <= Cardinality(t)
  BY LeastSet
<1>2. PICK y \in s : f[s] # y.amount + f[s \ {y}]
  BY <1>1
<1> DEFINE x == Drawn(s)
<1>3. x \in s /\ s \in SUBSET S
  BY <1>1, <1>2, DrawnIsIn
<1>4. f[s] = x.amount + f[s \ {x}]
  BY <1>2, <1>3, SumOfStep
<1> HIDE DEF x
<1>5. x # y
  BY <1>2, <1>4
<1>6. \A z \in s : s \ {z} \in SUBSET S /\ s \ {z} \notin F
  <2> SUFFICES ASSUME NEW z \in s PROVE s \ {z} \in SUBSET S /\ s \ {z} \notin F
    OBVIOUS
  <2>1. /\ s \ {z} \in SUBSET S
        /\ Cardinality(s) \in Nat /\ Cardinality(s \ {z}) \in Nat
        /\ Cardinality(s \ {z}) = Cardinality(s) - 1
    BY <1>3, OneLess
  <2>2. ~ (Cardinality(s) <= Cardinality(s \ {z}))
    BY <2>1
  <2> QED
    BY <1>1, <2>1, <2>2
<1> HIDE DEF f
<1>7. f[s \ {x}] = y.amount + f[(s \ {x}) \ {y}]
  BY <1>3, <1>5, <1>6
<1>8. f[s \ {y}] = x.amount + f[(s \ {y}) \ {x}]
  BY <1>3, <1>5, <1>6
<1>9. (s \ {x}) \ {y} = (s \ {y}) \ {x}
  OBVIOUS
<1>10. /\ x.amount \in Int /\ y.amount \in Int
       /\ f[(s \ {x}) \ {y}] \in Int
  BY <1>3, SumOfInt DEF f
<1>11. f[s \ {y}] = x.amount + f[(s \ {x}) \ {y}]
  BY <1>8, <1>9
<1>12. \A a, b, c \in Int : a + (b + c) = b + (a + c)
  OBVIOUS
<1>13. x.amount + (y.amount + f[(s \ {x}) \ {y}]) = y.amount + (x.amount + f[(s \ {x}) \ {y}])
  BY <1>10, <1>12
<1>14. f[s] = y.amount + f[s \ {y}]
  BY <1>4, <1>7, <1>11, <1>13
<1> QED
  BY <1>2, <1>14

\* Nor does the table from which they are drawn.
LEMMA SumOfPart ==
    ASSUME NEW S, IsFiniteSet(S), NEW T \in SUBSET S
    PROVE  \A s \in SUBSET T : SumOf(T)[s] = SumOf(S)[s]
<1>0. IsFiniteSet(T)
  BY FS_Subset
<1> DEFINE F == {s \in SUBSET T : SumOf(T)[s] # SumOf(S)[s]}
<1> SUFFICES ASSUME F # {} PROVE FALSE
  OBVIOUS
<1>1. PICK s \in F : \A t \in F : Cardinality(s) <= Cardinality(t)
  BY <1>0, LeastSet
<1>2. s \in SUBSET T /\ s \in SUBSET S
  BY <1>1
<1>3. s # {}
  BY <1>0, <1>1, <1>2, SumOfStep
<1>4. Drawn(s) \in s
  BY <1>3, DrawnIsIn
<1>5. s \ {Drawn(s)} \notin F
  BY <1>0, <1>1, <1>2, <1>4, OneLess
<1>6. SumOf(T)[s \ {Drawn(s)}] = SumOf(S)[s \ {Drawn(s)}]
  BY <1>2, <1>5
<1>7. /\ SumOf(T)[s] = Drawn(s).amount + SumOf(T)[s \ {Drawn(s)}]
      /\ SumOf(S)[s] = Drawn(s).amount + SumOf(S)[s \ {Drawn(s)}]
  BY <1>0, <1>2, <1>3, SumOfStep
<1> QED
  BY <1>1, <1>6, <1>7

\* What is used of sums below and in the modules over the ledger.
LEMMA SumNone == SumAmounts({}) = 0
BY SumAmountsIsSumOf, SumOfStep, FS_EmptySet

LEMMA SumIsInt ==
    ASSUME NEW S, IsFiniteSet(S), \A e \in S : e.amount \in Int
    PROVE  SumAmounts(S) \in Int
BY SumAmountsIsSumOf, SumOfInt

LEMMA SumAdd ==
    ASSUME NEW S, IsFiniteSet(S), \A e \in S : e.amount \in Int,
           NEW x, x \notin S, x.amount \in Int
    PROVE  SumAmounts(S \union {x}) = SumAmounts(S) + x.amount
<1> DEFINE U == S \union {x}
<1>1. IsFiniteSet(U) /\ \A e \in U : e.amount \in Int
  BY FS_AddElement
<1>2. S \in SUBSET U /\ U \in SUBSET U /\ x \in U /\ U \ {x} = S
  OBVIOUS
<1> HIDE DEF U
<1>3. SumOf(U)[U] = x.amount + SumOf(U)[S]
  BY <1>1, <1>2, SumOfAnyOrder
<1>4. SumOf(U)[S] = SumOf(S)[S]
  BY <1>1, <1>2, SumOfPart
<1>5. SumOf(S)[S] \in Int
  BY SumOfInt
<1>6. SumAmounts(U) = SumAmounts(S) + x.amount
  BY <1>3, <1>4, <1>5, SumAmountsIsSumOf
<1> QED
  BY <1>6 DEF U

LEMMA SumRemove ==
    ASSUME NEW S, IsFiniteSet(S), \A e \in S : e.amount \in Int, NEW x \in S
    PROVE  SumAmounts(S \ {x}) = SumAmounts(S) - x.amount
<1> DEFINE T == S \ {x}
<1>1. IsFiniteSet(T) /\ \A e \in T : e.amount \in Int
  BY FS_RemoveElement
<1>2. x \notin T /\ T \union {x} = S /\ x.amount \in Int
  OBVIOUS
<1> HIDE DEF T
<1>3. SumAmounts(S) = SumAmounts(T) + x.amount
  BY <1>1, <1>2, SumAdd
<1>4. SumAmounts(T) \in Int
  BY <1>1, SumIsInt
<1>5. SumAmounts(T) = SumAmounts(S) - x.amount
  BY <1>2, <1>3, <1>4
<1> QED
  BY <1>5 DEF T

-----------------------------------------------------------------------------
(* What the operations do to the sums that get_balance and                   *)
(* get_available_balance read.                                                *)

Where(account, type, status) ==
    {e \in entries : e.account_id = account /\ e.entry_type = type /\ e.status = status}

LEMMA SumWhereIsInt ==
    ASSUME TypeOK, IsFiniteSet(entries), NEW account, NEW type, NEW status
    PROVE  SumWhere(account, type, status) \in Int
<1>1. IsFiniteSet(Where(account, type, status))
  BY FS_Subset DEF Where
<1>2. \A e \in Where(account, type, status) : e.amount \in Int
  BY AmountsAssumption DEF TypeOK, LedgerEntry, Where
<1>3. SumAmounts(Where(account, type, status)) \in Int
  BY <1>1, <1>2, SumIsInt
<1> QED
  BY <1>3 DEF SumWhere, Where

LEMMA StepsKeepFinite ==
    ASSUME IsFiniteSet(entries)
    PROVE  /\ \A t, from, to, amount : CreateTransfer(t, from, to, amount) => IsFiniteSet(entries')
           /\ \A t, status : entries' = WithStatus(t, status) => IsFiniteSet(entries')
<1>1. ASSUME NEW t, NEW from, NEW to, NEW amount, CreateTransfer(t, from, to, amount)
      PROVE  IsFiniteSet(entries')
  <2> DEFINE d == [transaction_id |-> t, account_id |-> from, entry_type |-> "debit",
                   amount |-> amount, status |-> "pending"]
             c == [transaction_id |-> t, account_id |-> to, entry_type |-> "credit",
                   amount |-> amount, status |-> "pending"]
  <2>1. entries' = (entries \union {d}) \union {c}
    BY <1>1 DEF CreateTransfer, PairOf
  <2> HIDE DEF d, c
  <2>2. IsFiniteSet(entries \union {d})
    BY FS_AddElement
  <2>3. IsFiniteSet((entries \union {d}) \union {c})
    BY <2>2, FS_AddElement
  <2> QED
    BY <2>1, <2>3
<1>2. ASSUME NEW t, NEW status, entries' = WithStatus(t, status)
      PROVE  IsFiniteSet(entries')
  <2> DEFINE After(e) == IF e.transaction_id = t THEN [e EXCEPT !.status = status] ELSE e
             image == [e \in entries |-> After(e)]
  <2>1. image \in Surjection(entries, WithStatus(t, status))
    <3>1. \A e \in entries : image[e] = After(e)
      OBVIOUS
    <3>2. WithStatus(t, status) = {After(e) : e \in entries}
      BY DEF WithStatus
    <3> HIDE DEF After
    <3> QED
      BY <3>2 DEF Surjection
  <2>2. IsFiniteSet(WithStatus(t, status))
    BY <2>1, FS_Surjection
  <2> QED
    BY <1>2, <2>2
<1> QED
  BY <1>1, <1>2

\* create_transfer adds to the pending debits of one account and to the pending
\* credits of the other, and to no other sum.
LEMMA CreateSums ==
    ASSUME TypeOK, IsFiniteSet(entries),
           NEW t, NEW from, NEW to, NEW amount \in Amounts, CreateTransfer(t, from, to, amount),
           NEW account
    PROVE  /\ \A type : SumWhere(account, type, "settled")' = SumWhere(account, type, "settled")
           /\ SumWhere(account, "debit", "pending")' =
                 SumWhere(account, "debit", "pending") + IF account = from THEN amount ELSE 0
<1> DEFINE d == [transaction_id |-> t, account_id |-> from, entry_type |-> "debit",
                 amount |-> amount, status |-> "pending"]
           c == [transaction_id |-> t, account_id |-> to, entry_type |-> "credit",
                 amount |-> amount, status |-> "pending"]
<1>1. entries' = entries \union {d, c}
  BY DEF CreateTransfer, PairOf
<1>2. d \notin entries
  BY DEF CreateTransfer, RowsOf
<1>3. ASSUME NEW type
      PROVE  SumWhere(account, type, "settled")' = SumWhere(account, type, "settled")
  <2>1. Where(account, type, "settled")' = Where(account, type, "settled")
    BY <1>1 DEF Where
  <2> QED
    BY <2>1 DEF Where, SumWhere
<1>4. Where(account, "debit", "pending")' =
         IF account = from THEN Where(account, "debit", "pending") \union {d}
                           ELSE Where(account, "debit", "pending")
  BY <1>1 DEF Where
<1>5. IsFiniteSet(Where(account, "debit", "pending"))
  BY FS_Subset DEF Where
<1>6. \A e \in Where(account, "debit", "pending") : e.amount \in Int
  BY AmountsAssumption DEF TypeOK, LedgerEntry, Where
<1>7. d \notin Where(account, "debit", "pending") /\ d.amount = amount /\ amount \in Int
  BY <1>2, AmountsAssumption DEF Where
<1> HIDE DEF d
<1>8. SumAmounts(Where(account, "debit", "pending") \union {d}) =
          SumAmounts(Where(account, "debit", "pending")) + amount
  BY <1>5, <1>6, <1>7, SumAdd
<1>9. SumAmounts(Where(account, "debit", "pending")) \in Int
  BY <1>5, <1>6, SumIsInt
<1>10. SumAmounts(Where(account, "debit", "pending")') =
          SumAmounts(Where(account, "debit", "pending")) + IF account = from THEN amount ELSE 0
  BY <1>4, <1>8, <1>9
<1> QED
  BY <1>3, <1>10 DEF Where, SumWhere

\* settle_transaction moves a pending row from the pending to the settled sum of
\* its account and type.
LEMMA SettleSums ==
    ASSUME TypeOK, OneRowPerType, IsFiniteSet(entries),
           NEW r \in entries, r.status = "pending", entries' = WithStatus(r.transaction_id, "settled"),
           NEW account
    PROVE  /\ SumWhere(account, r.entry_type, "settled")' =
                 SumWhere(account, r.entry_type, "settled")
                     + IF r.account_id = account THEN r.amount ELSE 0
           /\ SumWhere(account, r.entry_type, "pending")' =
                 SumWhere(account, r.entry_type, "pending")
                     - IF r.account_id = account THEN r.amount ELSE 0
<1> DEFINE t == r.transaction_id
           type == r.entry_type
           After(e) == IF e.transaction_id = t THEN [e EXCEPT !.status = "settled"] ELSE e
           after == After(r)
           S == Where(account, type, "settled")
           P == Where(account, type, "pending")
<1>1. \A e \in entries :
        /\ e.transaction_id = t /\ e.entry_type = type => e = r
        /\ After(e).transaction_id = e.transaction_id
        /\ After(e).account_id = e.account_id
        /\ After(e).entry_type = e.entry_type
        /\ After(e).amount = e.amount
        /\ After(e).status = IF e.transaction_id = t THEN "settled" ELSE e.status
        /\ e.transaction_id # t => After(e) = e
  BY DEF TypeOK, LedgerEntry, OneRowPerType
<1>2. entries' = {After(e) : e \in entries}
  BY DEF WithStatus
<1>3. r.amount \in Int
  BY AmountsAssumption DEF TypeOK, LedgerEntry
<1>4. /\ IsFiniteSet(S) /\ \A e \in S : e.amount \in Int
      /\ IsFiniteSet(P) /\ \A e \in P : e.amount \in Int
  BY FS_Subset, AmountsAssumption DEF TypeOK, LedgerEntry, Where
<1> HIDE DEF After
<1>5. after \notin entries
  BY <1>1
<1>6. /\ after.amount = r.amount
      /\ after \notin S
      /\ r \in P <=> r.account_id = account
  BY <1>1, <1>5 DEF Where
<1>7. S' = IF r.account_id = account THEN S \union {after} ELSE S
  BY <1>1, <1>2 DEF Where
<1>8. P' = IF r.account_id = account THEN P \ {r} ELSE P
  BY <1>1, <1>2 DEF Where
<1>9. SumAmounts(S) \in Int /\ SumAmounts(P) \in Int
  BY <1>4, SumIsInt
<1> HIDE DEF after, S, P
<1>10. SumAmounts(S') = SumAmounts(S) + IF r.account_id = account THEN r.amount ELSE 0
  <2>1. SumAmounts(S \union {after}) = SumAmounts(S) + r.amount
    BY <1>3, <1>4, <1>6, SumAdd
  <2> QED
    BY <1>7, <1>9, <2>1
<1>11. SumAmounts(P') = SumAmounts(P) - IF r.account_id = account THEN r.amount ELSE 0
  <2>1. r.account_id = account => SumAmounts(P \ {r}) = SumAmounts(P) - r.amount
    BY <1>4, <1>6, SumRemove
  <2> QED
    BY <1>8, <1>9, <2>1
<1> QED
  BY <1>10, <1>11 DEF S, P, Where, SumWhere

-----------------------------------------------------------------------------
(* The rows. *)

\* An UPDATE of the rows of t keeps every other row and rewrites the status of these.
LEMMA WithStatusImage ==
    ASSUME NEW t, NEW status, NEW e \in entries
    PROVE  /\ e.transaction_id # t => e \in WithStatus(t, status)
           /\ e.transaction_id = t => [e EXCEPT !.status = status] \in WithStatus(t, status)
BY DEF WithStatus

\* The inductive step of an UPDATE, shared by settle_transaction and
\* fail_transaction.
LEMMA UpdatePreserves ==
    ASSUME IInv, NEW t \in Transactions, NEW status \in LedgerStatus,
           entries' = WithStatus(t, status)
    PROVE  IInv'
<1> USE DEF IInv
<1> DEFINE After(e) == IF e.transaction_id = t THEN [e EXCEPT !.status = status] ELSE e
<1>1. \A e \in entries :
        /\ After(e) \in LedgerEntry
        /\ After(e).transaction_id = e.transaction_id
        /\ After(e).entry_type = e.entry_type
        /\ After(e).amount = e.amount
        /\ After(e).status = IF e.transaction_id = t THEN status ELSE e.status
  BY DEF TypeOK, LedgerEntry
<1>2. entries' = {After(e) : e \in entries}
  BY DEF WithStatus
<1>3. TypeOK'
  BY <1>1, <1>2 DEF TypeOK
<1> HIDE DEF After
<1>4. OneRowPerType'
  <2> SUFFICES ASSUME NEW e \in entries, NEW f \in entries,
                      After(e).transaction_id = After(f).transaction_id,
                      After(e).entry_type = After(f).entry_type
               PROVE  After(e) = After(f)
    BY <1>2 DEF OneRowPerType
  <2> QED
    BY <1>1 DEF DoubleEntry, OneRowPerType
<1>5. ASSUME NEW e \in entries
      PROVE  After(e).amount > 0 /\ \E g \in entries' : Counterpart(After(e), g)
  <2>1. PICK f \in entries : Counterpart(e, f)
    BY DEF DoubleEntry
  <2>2. Counterpart(After(e), After(f))
    BY <1>1, <2>1 DEF Counterpart
  <2> QED
    BY <1>1, <1>2, <2>2 DEF DoubleEntry
<1>6. \A g \in entries' : g.amount > 0 /\ \E f \in entries' : Counterpart(g, f)
  BY <1>2, <1>5
<1>7. DoubleEntry'
  BY <1>4, <1>6 DEF DoubleEntry, Counterpart
<1> QED
  BY <1>3, <1>7

\* The inductive step of create_transfer.
LEMMA CreatePreserves ==
    ASSUME IInv, NEW t \in Transactions, NEW from \in Accounts, NEW to \in Accounts,
           NEW amount \in Amounts, CreateTransfer(t, from, to, amount)
    PROVE  IInv'
<1> DEFINE d == [transaction_id |-> t, account_id |-> from, entry_type |-> "debit",
                 amount |-> amount, status |-> "pending"]
           c == [transaction_id |-> t, account_id |-> to, entry_type |-> "credit",
                 amount |-> amount, status |-> "pending"]
<1>1. entries' = entries \union {d, c} /\ amount > 0
  BY DEF CreateTransfer, PairOf
<1>2. d \in LedgerEntry /\ c \in LedgerEntry
  BY DEF LedgerEntry, EntryType, LedgerStatus
<1>3. TypeOK'
  BY <1>1, <1>2 DEF IInv, TypeOK
<1>4. \A e \in entries : e.transaction_id # t
  BY DEF CreateTransfer, RowsOf
<1>5. OneRowPerType'
  BY <1>1, <1>4 DEF IInv, DoubleEntry, OneRowPerType
<1>6. Counterpart(d, c) /\ Counterpart(c, d)
  BY DEF Counterpart
<1>7. \A e \in entries' : e.amount > 0 /\ \E f \in entries' : Counterpart(e, f)
  <2>1. \A e \in entries : e.amount > 0 /\ \E f \in entries : Counterpart(e, f)
    BY DEF IInv, DoubleEntry
  <2>2. d.amount > 0 /\ c.amount > 0
    BY <1>1
  <2> HIDE DEF d, c
  <2> QED
    BY <1>1, <1>6, <2>1, <2>2
<1> QED
  BY <1>3, <1>5, <1>7 DEF IInv, DoubleEntry, Counterpart

\* Every step of the ledger keeps the inductive invariant.
LEMMA StepPreserves == IInv /\ [Next]_entries => IInv'
<1> SUFFICES ASSUME IInv, [Next]_entries PROVE IInv'
  OBVIOUS
<1>1. ASSUME NEW t \in Transactions, NEW from \in Accounts, NEW to \in Accounts,
             NEW amount \in Amounts, CreateTransfer(t, from, to, amount)
      PROVE  IInv'
  BY <1>1, CreatePreserves
<1>2. ASSUME NEW t \in Transactions, SettleTransaction(t)
      PROVE  IInv'
  BY <1>2, UpdatePreserves DEF SettleTransaction, LedgerStatus
<1>3. ASSUME NEW t \in Transactions, FailTransaction(t)
      PROVE  IInv'
  BY <1>3, UpdatePreserves DEF FailTransaction, LedgerStatus
<1>4. CASE UNCHANGED entries
  BY <1>4 DEF IInv, TypeOK, DoubleEntry, OneRowPerType, Counterpart
<1> QED
  BY <1>1, <1>2, <1>3, <1>4 DEF Next

-----------------------------------------------------------------------------
\* models/ledger.py: every transaction is exactly two rows, one debit and one
\* credit, of one amount and one status, whatever calls are made in whatever order.
THEOREM LedgerDoubleEntry == Spec => [](TypeOK /\ DoubleEntry)
<1>1. Init => IInv
  BY DEF Init, IInv, TypeOK, DoubleEntry, OneRowPerType
<1>2. IInv => TypeOK /\ DoubleEntry
  BY DEF IInv
<1> QED
  BY <1>1, <1>2, StepPreserves, PTL DEF Spec

\* A posting is never rewritten, and only its status moves, never back to pending.
THEOREM LedgerPostingsImmutable == Spec => PostingsImmutable
<1> DEFINE Kept == \A e \in entries : \E f \in entries' :
                        /\ f = [e EXCEPT !.status = f.status]
                        /\ f.status = "pending" => e.status = "pending"
<1>1. ASSUME TypeOK, NEW t \in Transactions, NEW status \in {"settled", "failed"},
             entries' = WithStatus(t, status)
      PROVE  Kept
  <2> SUFFICES ASSUME NEW e \in entries
               PROVE  \E f \in entries' : /\ f = [e EXCEPT !.status = f.status]
                                          /\ f.status = "pending" => e.status = "pending"
    OBVIOUS
  <2>1. e \in LedgerEntry
    BY <1>1 DEF TypeOK
  <2>2. CASE e.transaction_id = t
    <3>1. [e EXCEPT !.status = status] \in entries'
      BY <1>1, <2>2, WithStatusImage
    <3>2. [e EXCEPT !.status = status].status = status
      BY <2>1 DEF LedgerEntry
    <3> QED
      BY <3>1, <3>2
  <2>3. CASE e.transaction_id # t
    <3>1. e \in entries'
      BY <1>1, <2>3, WithStatusImage
    <3>2. e = [e EXCEPT !.status = e.status]
      BY <2>1 DEF LedgerEntry
    <3> QED
      BY <3>1, <3>2
  <2> QED
    BY <2>2, <2>3
<1>2. ASSUME TypeOK, NEW t, NEW from, NEW to, NEW amount,
             CreateTransfer(t, from, to, amount)
      PROVE  Kept
  <2>1. entries \subseteq entries'
    BY <1>2 DEF CreateTransfer
  <2>2. \A e \in entries : e = [e EXCEPT !.status = e.status]
    BY <1>2 DEF TypeOK, LedgerEntry
  <2> QED
    BY <2>1, <2>2
<1>3. TypeOK /\ [Next]_entries => [Kept]_entries
  BY <1>1, <1>2 DEF Next, SettleTransaction, FailTransaction
<1> QED
  BY <1>3, LedgerDoubleEntry, PTL DEF Spec, PostingsImmutable
=============================================================================
