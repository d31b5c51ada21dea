-------------------------- MODULE OutboxDaysProofs --------------------------
(***************************************************************************)
(* Proofs about days: what a sum over requests is, that the HCM's used_days *)
(* moves by what its transactions say, that pending_days is the sum over    *)
(* the requests in flight, and that no day is promised twice.               *)
(***************************************************************************)
EXTENDS OutboxOwnershipProofs, FiniteSetTheorems

(***************************************************************************)
(* DaysOf is a recursive function over the finite sets of requests.  The   *)
(* induction is by a smallest counterexample.                              *)
(***************************************************************************)
Pick(S) == CHOOSE x \in S : TRUE

\* f sums the days of the sets in D, which has the subsets of its elements.
SumsOn(f, D) ==
  f = [s \in D |-> IF s = {} THEN 0 ELSE daysRequested[Pick(s)] + f[s \ {Pick(s)}]]

SumFn(S) == CHOOSE f : SumsOn(f, SUBSET S)

LEMMA DaysBySum ==
  ASSUME NEW S
  PROVE  DaysOf(S) = SumFn(S)[S]
BY DEF DaysOf, SumFunctionOnSet, FoldFunctionOnSet, MapThenFoldSet, SumFn, SumsOn, Pick

LEMMA PickIn ==
  ASSUME NEW S, S # {}
  PROVE  Pick(S) \in S
BY DEF Pick

\* A finite set of numbers has a greatest.
LEMMA Greatest ==
  ASSUME NEW T \in SUBSET Nat, IsFiniteSet(T), T # {}
  PROVE  \E m \in T : \A n \in T : n <= m
<1> DEFINE Above(m) == {t \in T : t > m}
           Tails == {Above(m) : m \in T}
<1>1. Tails \subseteq FiniteSubsetsOf(T) /\ Tails # {}
  <2>1. \A m \in T : Above(m) \in SUBSET T
    OBVIOUS
  <2>2. \A m \in T : IsFiniteSet(Above(m))
    BY <2>1, FS_Subset
  <2> QED
    BY <2>1, <2>2 DEF FiniteSubsetsOf
<1>2. PICK A \in Tails : \A B \in Tails : <<B, A>> \notin StrictSubsetOrdering(T)
  BY <1>1, FS_StrictSubsetOrderingWellFounded, WFMin
<1>3. PICK m \in T : A = Above(m)
  BY <1>2
<1>4. ASSUME NEW n \in T, n > m
      PROVE  FALSE
  <2>1. Above(n) \subseteq Above(m) /\ n \in Above(m) /\ n \notin Above(n)
    <3>1. m \in Nat /\ n \in Nat /\ \A t \in T : t \in Nat
      OBVIOUS
    <3>2. (\A t \in T : t > n => t > m) /\ ~(n > n)
      BY <1>4, <3>1
    <3> QED
      BY <1>4, <3>2
  <2>2. <<Above(n), Above(m)>> \in StrictSubsetOrdering(T)
    BY <2>1 DEF StrictSubsetOrdering
  <2> QED
    BY <1>2, <1>3, <2>2
<1> QED
  BY <1>4

\* There is such a function: layer by layer.
LEMMA SumExists ==
  ASSUME NEW S, IsFiniteSet(S)
  PROVE  \E f : SumsOn(f, SUBSET S)
<1> DEFINE Layer(n) == {s \in SUBSET S : Cardinality(s) <= n}
           Good == {n \in 0 .. Cardinality(S) : \E f : SumsOn(f, Layer(n))}
<1>1. Cardinality(S) \in Nat
  BY FS_CardinalityType
<1>2. \A s \in SUBSET S : IsFiniteSet(s) /\ Cardinality(s) \in Nat /\ Cardinality(s) <= Cardinality(S)
  BY FS_Subset, FS_CardinalityType
<1>3. 0 \in Good
  <2>1. Layer(0) = {{}}
    BY <1>2, FS_EmptySet
  <2>2. SumsOn([s \in {{}} |-> 0], {{}})
    BY DEF SumsOn
  <2>3. \E f : SumsOn(f, Layer(0))
    BY <2>1, <2>2
  <2> HIDE DEF Layer
  <2> QED
    BY <1>1, <2>3
<1>4. ASSUME NEW n \in Good, n < Cardinality(S)
      PROVE  n + 1 \in Good
  <2>1. PICK f : SumsOn(f, Layer(n))
    BY <1>4
  <2>2. n \in Nat
    BY <1>1
  <2> DEFINE value(s) == IF s = {} THEN 0 ELSE daysRequested[Pick(s)] + f[s \ {Pick(s)}]
             g == [s \in Layer(n + 1) |-> value(s)]
  <2>3. \A s \in Layer(n) : f[s] = value(s)
    <3> HIDE DEF Layer
    <3> QED
      BY <2>1 DEF SumsOn
  <2>4. \A s \in Layer(n + 1) : s # {} => s \ {Pick(s)} \in Layer(n)
    <3> SUFFICES ASSUME NEW s \in Layer(n + 1), s # {} PROVE s \ {Pick(s)} \in Layer(n)
      OBVIOUS
    <3>1. Pick(s) \in s /\ IsFiniteSet(s) /\ Cardinality(s) \in Nat /\ Cardinality(s) <= n + 1
      BY <1>2, PickIn
    <3>2. Cardinality(s \ {Pick(s)}) = Cardinality(s) - 1
      BY <3>1, FS_RemoveElement
    <3> QED
      BY <2>2, <3>1, <3>2
  <2>5. Layer(n) \subseteq Layer(n + 1)
    BY <1>2, <2>2
  <2> HIDE DEF Layer
  <2>6. \A s \in Layer(n + 1) : s # {} => g[s \ {Pick(s)}] = f[s \ {Pick(s)}]
    BY <2>3, <2>4, <2>5
  <2>7. g = [s \in Layer(n + 1) |-> IF s = {} THEN 0 ELSE daysRequested[Pick(s)] + g[s \ {Pick(s)}]]
    BY <2>6
  <2>8. SumsOn(g, Layer(n + 1))
    BY <2>7 DEF SumsOn
  <2>9. n + 1 \in 0 .. Cardinality(S)
    BY <1>1, <1>4, <2>2
  <2> QED
    BY <2>8, <2>9
<1>5. Good \in SUBSET Nat /\ IsFiniteSet(Good)
  <2>1. IsFiniteSet(0 .. Cardinality(S))
    BY <1>1, FS_Interval
  <2>2. Good \in SUBSET (0 .. Cardinality(S))
    OBVIOUS
  <2> HIDE DEF Good
  <2>3. IsFiniteSet(Good)
    BY <2>1, <2>2, FS_Subset
  <2>4. 0 .. Cardinality(S) \subseteq Nat
    BY <1>1
  <2> QED
    BY <2>2, <2>3, <2>4
<1>6. PICK m \in Good : \A n \in Good : n <= m
  <2> HIDE DEF Good
  <2> QED
    BY <1>3, <1>5, Greatest
<1>7. m = Cardinality(S)
  <2>1. m \in Nat /\ m <= Cardinality(S)
    BY <1>1
  <2> HIDE DEF Good
  <2> QED
    BY <1>1, <1>4, <1>6, <2>1
<1>8. Layer(m) = SUBSET S
  BY <1>2, <1>7
<1> QED
  BY <1>6, <1>8

LEMMA SumFnSums ==
  ASSUME NEW S, IsFiniteSet(S)
  PROVE  \A s \in SUBSET S :
           SumFn(S)[s] = IF s = {} THEN 0 ELSE daysRequested[Pick(s)] + SumFn(S)[s \ {Pick(s)}]
<1> DEFINE f == SumFn(S)
<1>1. SumsOn(f, SUBSET S)
  BY SumExists DEF SumFn
<1> HIDE DEF f
<1>2. \A s \in SUBSET S : f[s] = IF s = {} THEN 0 ELSE daysRequested[Pick(s)] + f[s \ {Pick(s)}]
  BY <1>1 DEF SumsOn
<1> QED
  BY <1>2 DEF f

\* Of a family of finite sets one has no other of the family within.
LEMMA SmallestSet ==
  ASSUME NEW S, IsFiniteSet(S), NEW F \in SUBSET (SUBSET S), F # {}
  PROVE  \E T \in F : \A U \in F : U \subseteq T => U = T
<1>1. F \subseteq FiniteSubsetsOf(S)
  BY FS_FiniteSubsetsOfFinite
<1>2. PICK T \in F : \A U \in F : <<U, T>> \notin StrictSubsetOrdering(S)
  BY <1>1, FS_StrictSubsetOrderingWellFounded, WFMin
<1> QED
  BY <1>2 DEF StrictSubsetOrdering

\* It does not matter within which set the sum is taken.
LEMMA SumFnAgrees ==
  ASSUME NEW S, IsFiniteSet(S), NEW T \in SUBSET S
  PROVE  SumFn(S)[T] = SumFn(T)[T]
<1> DEFINE Bad == {U \in SUBSET T : SumFn(S)[U] # SumFn(T)[U]}
<1>1. IsFiniteSet(T)
  BY FS_Subset
<1>2. ASSUME Bad # {}
      PROVE  FALSE
  <2>1. PICK U \in Bad : \A V \in Bad : V \subseteq U => V = U
    <3> Bad \in SUBSET (SUBSET T)
      OBVIOUS
    <3> HIDE DEF Bad
    <3> QED
      BY <1>1, <1>2, SmallestSet
  <2>2. U \in SUBSET T /\ U \in SUBSET S /\ SumFn(S)[U] # SumFn(T)[U]
    OBVIOUS
  <2>3. U # {}
    BY <1>1, <2>2, SumFnSums
  <2> DEFINE V == U \ {Pick(U)}
  <2>4. V \subseteq U /\ V # U /\ V \in SUBSET T
    BY <2>2, <2>3, PickIn
  <2>5. SumFn(S)[V] = SumFn(T)[V]
    BY <2>1, <2>4
  <2>6. SumFn(S)[U] = daysRequested[Pick(U)] + SumFn(S)[V]
    BY <2>2, <2>3, SumFnSums
  <2>7. SumFn(T)[U] = daysRequested[Pick(U)] + SumFn(T)[V]
    BY <1>1, <2>2, <2>3, SumFnSums
  <2> QED
    BY <2>2, <2>5, <2>6, <2>7
<1> QED
  BY <1>2

LEMMA DaysOfNone == DaysOf({}) = 0
<1>1. SumFn({})[{}] = 0
  BY SumFnSums, FS_EmptySet
<1> QED
  BY <1>1, DaysBySum

LEMMA DaysOfPick ==
  ASSUME NEW S, IsFiniteSet(S), S # {}
  PROVE  DaysOf(S) = daysRequested[Pick(S)] + DaysOf(S \ {Pick(S)})
<1>1. SumFn(S)[S] = daysRequested[Pick(S)] + SumFn(S)[S \ {Pick(S)}]
  BY SumFnSums
<1>2. SumFn(S)[S \ {Pick(S)}] = SumFn(S \ {Pick(S)})[S \ {Pick(S)}]
  BY SumFnAgrees
<1> QED
  BY <1>1, <1>2, DaysBySum

LEMMA DaysOfType ==
  ASSUME NEW S \in SUBSET Requests, IsFiniteSet(S)
  PROVE  DaysOf(S) \in Nat
<1> DEFINE Bad == {T \in SUBSET S : DaysOf(T) \notin Nat}
<1>1. ASSUME Bad # {}
      PROVE  FALSE
  <2>1. PICK T \in Bad : \A U \in Bad : U \subseteq T => U = T
    <3> Bad \in SUBSET (SUBSET S)
      OBVIOUS
    <3> HIDE DEF Bad
    <3> QED
      BY <1>1, SmallestSet
  <2>2. T \in SUBSET S /\ DaysOf(T) \notin Nat /\ IsFiniteSet(T)
    BY FS_Subset
  <2>3. T # {}
    BY <2>2, DaysOfNone
  <2> DEFINE U == T \ {Pick(T)}
  <2>4. Pick(T) \in T /\ U \subseteq T /\ U # T /\ U \in SUBSET S
    BY <2>2, <2>3, PickIn
  <2>5. DaysOf(U) \in Nat
    BY <2>1, <2>4
  <2>6. daysRequested[Pick(T)] \in Nat
    BY <2>2, <2>4, LedgerAssumption
  <2>7. DaysOf(T) = daysRequested[Pick(T)] + DaysOf(U)
    BY <2>2, <2>3, DaysOfPick
  <2> QED
    BY <2>2, <2>5, <2>6, <2>7
<1> QED
  BY <1>1

\* Any element may be taken first.
LEMMA DaysOfRemove ==
  ASSUME NEW S \in SUBSET Requests, IsFiniteSet(S), NEW r \in S
  PROVE  DaysOf(S) = daysRequested[r] + DaysOf(S \ {r})
<1> DEFINE Bad == {T \in SUBSET S : \E q \in T : DaysOf(T) # daysRequested[q] + DaysOf(T \ {q})}
<1>1. ASSUME Bad # {}
      PROVE  FALSE
  <2>1. PICK T \in Bad : \A U \in Bad : U \subseteq T => U = T
    <3> Bad \in SUBSET (SUBSET S)
      OBVIOUS
    <3> HIDE DEF Bad
    <3> QED
      BY <1>1, SmallestSet
  <2>2. PICK q \in T : DaysOf(T) # daysRequested[q] + DaysOf(T \ {q})
    OBVIOUS
  <2> DEFINE x == Pick(T)
  <2>3. T \in SUBSET S /\ IsFiniteSet(T) /\ x \in T
    BY FS_Subset, PickIn
  <2>4. DaysOf(T) = daysRequested[x] + DaysOf(T \ {x})
    BY <2>2, <2>3, DaysOfPick
  <2>5. x # q
    BY <2>2, <2>4
  <2>6. \A y \in T, z \in T : y # z => DaysOf(T \ {y}) = daysRequested[z] + DaysOf((T \ {y}) \ {z})
    <3> HIDE DEF x
    <3> SUFFICES ASSUME NEW y \in T, NEW z \in T, y # z
                 PROVE  DaysOf(T \ {y}) = daysRequested[z] + DaysOf((T \ {y}) \ {z})
      OBVIOUS
    <3>1. T \ {y} \notin Bad
      BY <2>1
    <3>2. T \ {y} \in SUBSET S /\ z \in T \ {y}
      BY <2>3
    <3> QED
      BY <3>1, <3>2
  <2>7. (T \ {x}) \ {q} = (T \ {q}) \ {x}
    OBVIOUS
  <2>8. /\ DaysOf(T \ {x}) = daysRequested[q] + DaysOf((T \ {x}) \ {q})
        /\ DaysOf(T \ {q}) = daysRequested[x] + DaysOf((T \ {x}) \ {q})
    <3> HIDE DEF x
    <3> QED
      BY <2>2, <2>3, <2>5, <2>6, <2>7
  <2>9. /\ daysRequested[x] \in Nat /\ daysRequested[q] \in Nat
        /\ DaysOf((T \ {x}) \ {q}) \in Nat
    <3>1. (T \ {x}) \ {q} \in SUBSET Requests /\ IsFiniteSet((T \ {x}) \ {q})
      BY <2>3, FS_Subset
    <3> QED
      BY <2>3, <3>1, LedgerAssumption, DaysOfType
  <2> HIDE DEF x
  <2> QED
    BY <2>2, <2>4, <2>8, <2>9
<1> QED
  BY <1>1

LEMMA DaysOfAdd ==
  ASSUME NEW S \in SUBSET Requests, IsFiniteSet(S), NEW r \in Requests, r \notin S
  PROVE  DaysOf(S \cup {r}) = DaysOf(S) + daysRequested[r]
<1>1. S \cup {r} \in SUBSET Requests /\ IsFiniteSet(S \cup {r})
  BY FS_AddElement
<1>2. (S \cup {r}) \ {r} = S
  OBVIOUS
<1> QED
  BY <1>1, <1>2, DaysOfRemove, DaysOfType, LedgerAssumption

LEMMA DaysOfMonotone ==
  ASSUME NEW S \in SUBSET Requests, IsFiniteSet(S), NEW T \in SUBSET S
  PROVE  DaysOf(T) <= DaysOf(S)
<1> DEFINE Bad == {U \in SUBSET S : T \subseteq U /\ ~(DaysOf(T) <= DaysOf(U))}
<1>1. ASSUME Bad # {}
      PROVE  FALSE
  <2>1. PICK U \in Bad : \A V \in Bad : V \subseteq U => V = U
    <3> Bad \in SUBSET (SUBSET S)
      OBVIOUS
    <3> HIDE DEF Bad
    <3> QED
      BY <1>1, SmallestSet
  <2>2. U \in SUBSET S /\ T \subseteq U /\ ~(DaysOf(T) <= DaysOf(U)) /\ IsFiniteSet(U)
    BY FS_Subset
  <2>3. DaysOf(T) \in Nat
    BY DaysOfType, FS_Subset
  <2>4. PICK r \in U : r \notin T
    BY <2>2, <2>3
  <2>5. DaysOf(T) <= DaysOf(U \ {r})
    BY <2>1, <2>2, <2>4
  <2>6. U \ {r} \in SUBSET Requests /\ IsFiniteSet(U \ {r})
    BY <2>2, FS_Subset
  <2>7. DaysOf(U) = daysRequested[r] + DaysOf(U \ {r}) /\ DaysOf(U \ {r}) \in Nat
    BY <2>2, <2>6, DaysOfRemove, DaysOfType
  <2> QED
    BY <2>2, <2>3, <2>5, <2>7, LedgerAssumption
<1> QED
  BY <1>1

(***************************************************************************)
(* The HCM's books.                                                        *)
(***************************************************************************)
\* The HCM has used at least what is booked; so a reversal never needs the clamp
\* at zero, which would restore less than was deducted.
BooksBalance == IsFiniteSet(Booked) /\ hcmUsed >= DaysOf(Booked)

LEMMA BooksInit == Init => BooksBalance
<1> SUFFICES ASSUME Init PROVE BooksBalance
  OBVIOUS
<1>1. Booked = {} /\ hcmUsed \in Nat
  BY LedgerAssumption DEF Init, LedgerInit, Booked
<1> QED
  BY <1>1, DaysOfNone, FS_EmptySet DEF BooksBalance

\* What one call does to the books.
LEMMA Handled ==
  ASSUME TypeOK, BooksBalance, NEW i \in Rows, NEW reply, HcmHandles(i, reply)
  PROVE  BooksBalance' /\ hcmUsed' - hcmUsed = DaysOf(Booked)' - DaysOf(Booked)
<1> DEFINE r == outbox[i].req
<1>1. r \in Requests
  BY RowType
<1>2. /\ Booked \in SUBSET Requests /\ IsFiniteSet(Booked) /\ hcmUsed >= DaysOf(Booked)
      /\ DaysOf(Booked) \in Nat /\ hcmUsed \in Nat /\ daysRequested[r] \in Nat
  BY <1>1, DaysOfType, LedgerAssumption DEF BooksBalance, Booked, TypeOK, LedgerTypeOK
<1>3. Deduct(r, reply) \/ Reverse(r, reply)
  BY DEF HcmHandles
<1> HIDE DEF r
<1>4. CASE UNCHANGED ledgerVars
  <2>1. Booked' = Booked /\ hcmUsed' = hcmUsed
    BY <1>4 DEF ledgerVars, Booked
  <2> QED
    BY <1>2, <2>1 DEF BooksBalance
<1>5. CASE /\ hcmTx[r] = "NONE" /\ hcmTx' = [hcmTx EXCEPT ![r] = "APPLIED"]
           /\ hcmUsed' = hcmUsed + daysRequested[r]
  <2>1. Booked' = Booked \cup {r} /\ r \notin Booked
    BY <1>1, <1>5 DEF Booked, TypeOK, LedgerTypeOK
  <2>2. /\ DaysOf(Booked \cup {r}) = DaysOf(Booked) + daysRequested[r]
        /\ IsFiniteSet(Booked \cup {r})
    BY <1>1, <1>2, <2>1, DaysOfAdd, FS_AddElement
  <2> QED
    BY <1>2, <1>5, <2>1, <2>2 DEF BooksBalance
<1>6. CASE /\ hcmTx[r] = "APPLIED" /\ hcmTx' = [hcmTx EXCEPT ![r] = "REVERSED"]
           /\ hcmUsed' = Restored(r)
  <2>1. Booked' = Booked \ {r} /\ r \in Booked
    BY <1>1, <1>6 DEF Booked, TypeOK, LedgerTypeOK
  <2>2. /\ DaysOf(Booked) = daysRequested[r] + DaysOf(Booked \ {r})
        /\ IsFiniteSet(Booked \ {r})
    BY <1>2, <2>1, DaysOfRemove, FS_RemoveElement
  <2>3. DaysOf(Booked \ {r}) \in Nat
    BY <1>2, <2>2, DaysOfType
  <2>4. hcmUsed' = hcmUsed - daysRequested[r]
    BY <1>2, <1>6, <2>2, <2>3 DEF Restored
  <2> QED
    BY <1>2, <2>1, <2>2, <2>3, <2>4 DEF BooksBalance
<1> QED
  BY <1>3, <1>4, <1>5, <1>6 DEF Deduct, Reverse

LEMMA BooksStep ==
  ASSUME TypeOK, BooksBalance, [Next]_vars
  PROVE  BooksBalance' /\ hcmUsed' - hcmUsed = DaysOf(Booked)' - DaysOf(Booked)
<1>1. CASE UNCHANGED ledgerVars
  <2>1. Booked' = Booked /\ hcmUsed' = hcmUsed
    BY <1>1 DEF ledgerVars, Booked
  <2>2. DaysOf(Booked) \in Nat /\ hcmUsed \in Nat
    BY DaysOfType DEF BooksBalance, Booked, TypeOK, LedgerTypeOK
  <2> QED
    BY <2>1, <2>2 DEF BooksBalance
<1> QED
  BY <1>1, LedgerMoves, Handled

\* A call that is repeated, duplicated, late or answered twice books or restores
\* no day twice: the HCM's used_days moves by the days of exactly the
\* transactions whose status changes.
THEOREM BooksOnce == Spec => HcmBooksOnce
<1>1. Init => TypeOK /\ BooksBalance
  BY TypeInit, BooksInit
<1>2. TypeOK /\ BooksBalance /\ [Next]_vars => (TypeOK /\ BooksBalance)'
  BY TypeStep, BooksStep
<1>3. TypeOK /\ BooksBalance /\ [Next]_vars
        => [hcmUsed' - hcmUsed =
              DaysOf({r \in Requests : hcmTx'[r] = "APPLIED"})
                - DaysOf({r \in Requests : hcmTx[r] = "APPLIED"})]_ledgerVars
  <2> SUFFICES ASSUME TypeOK, BooksBalance, [Next]_vars
               PROVE  hcmUsed' - hcmUsed =
                        DaysOf({r \in Requests : hcmTx'[r] = "APPLIED"})
                          - DaysOf({r \in Requests : hcmTx[r] = "APPLIED"})
    OBVIOUS
  <2>1. DaysOf(Booked)' = DaysOf({r \in Requests : hcmTx'[r] = "APPLIED"})
    BY DaysBySum DEF Booked, DaysOf
  <2> QED
    BY <2>1, BooksStep DEF Booked
<1> QED
  BY <1>1, <1>2, <1>3, PTL DEF Spec, HcmBooksOnce

(***************************************************************************)
(* The reservation.                                                        *)
(***************************************************************************)
\* A lapsed row may be settled twice, a torn turn releases days without a verdict,
\* and a cancelled request gives its days back once for the user and once more for
\* the row it leaves behind; what follows is about behaviours that saw none of these.
Smooth == lapsed = {} /\ ~torn /\ cancels = 0

\* There is nothing to reverse, a row that was tried is past SUBMITTED unless it is
\* being tried now, and a verdict is one that the state machine allows.
NothingStuck ==
  /\ \A i \in Rows :
       /\ outbox[i].event = "HCM_DEDUCT"
       /\ ~Settled(i) /\ outbox[i].attempts > 0 =>
            \/ request[outbox[i].req] # "SUBMITTED"
            \/ \E p \in Polls : poll[p].pc = "load" /\ poll[p].row = i
  /\ \A p \in Polls :
       /\ poll[p].pc = "exhausted" => poll[p].attempts > 0
       /\ poll[p].pc = "settle" => /\ poll[p].seen = "PENDING_HCM"
                                   /\ poll[p].verdict \in {"APPROVED", "REJECTED", "FAILED"}

\* A row that is not settled is that of a request in flight, but for the moment
\* between the verdict on the request and the closing of the row.
WorkInFlight ==
  \A i \in Rows : ~Settled(i) =>
    \/ request[outbox[i].req] \in {"SUBMITTED", "PENDING_HCM"}
    \/ \E p \in Polls : poll[p].pc = "close" /\ poll[p].row = i

InFlight == InState({"SUBMITTED", "PENDING_HCM"})

\* The requests whose days are released and whose verdict is still to be written.
Released == {Req(p) : p \in {q \in Polls : poll[q].pc = "settle"}}

DaysReserved == IsFiniteSet(InFlight) /\ pending = DaysOf(InFlight \ Released)

Reserved == NothingStuck /\ WorkInFlight /\ DaysReserved

Reservations == Smooth => Reserved

\* Everything the steps below start from.
AllOK == lapsed = {} /\ TypeOK /\ Owned /\ TurnInv /\ InOrder /\ Reserved

LEMMA SmoothStep ==
  ASSUME TypeOK, [Next]_vars, Lapsing, Tearing, Smooth'
  PROVE  /\ Smooth /\ Orderly /\ Orderly' /\ lapsed = {}
         /\ Crash => \A p \in Polls : poll[p].pc \notin {"load", "settle", "close"}
         /\ \A r \in Requests : Client(r) => createRequest(r)
<1>1. Smooth /\ ~TurnTorn
  BY OrderlyStep DEF Smooth, Lapsing
<1>2. Crash => \A p \in Polls : poll[p].pc \notin {"load", "settle", "close"}
  BY <1>1 DEF Crash, TurnTorn, TypeOK
<1>3. ASSUME NEW r \in Requests, Client(r)
      PROVE  createRequest(r)
  BY <1>3 DEF Client, cancelRequest, cancelSubmitted, cancelApproved, Smooth, TypeOK, RequestsTypeOK
<1> QED
  BY <1>1, <1>2, <1>3 DEF Smooth, Orderly

\* The record a poll has in hand, before its verdict is written.
LEMMA InHand ==
  ASSUME AllOK, NEW p \in Polls, Active(p), poll[p].pc \notin {"close", "log"}
  PROVE  /\ poll[p].row \in Rows /\ Req(p) \in InFlight /\ Row(p).event = "HCM_DEDUCT"
         /\ poll[p].pc \in {"await", "settle"} => poll[p].seen = "PENDING_HCM"
         /\ poll[p].pc \in {"await", "settle", "exhausted"} => request[Req(p)] = "PENDING_HCM"
<1> USE DEF AllOK
<1>1. poll[p].row \in Rows /\ Req(p) \in Requests
  BY ActiveRow DEF Active
<1>2. ~Settled(poll[p].row) /\ outbox[poll[p].row].attempts = poll[p].attempts
  BY <1>1 DEF Owned, RowsHeld, Keeps, Settled
<1>3. ~\E q \in Polls : q # p /\ Active(q) /\ poll[q].row = poll[p].row
  BY <1>1 DEF Held, Owned, RowsHeld, SharedOnlyByLapse
<1>4. request[Req(p)] \in {"SUBMITTED", "PENDING_HCM"}
  BY <1>1, <1>2, <1>3 DEF Reserved, WorkInFlight, Req, Row, Active
<1>5. poll[p].pc \in {"await", "settle"} => poll[p].seen = request[Req(p)]
  BY DEF InOrder, SeenIsState
<1>6. poll[p].pc = "await" => poll[p].seen # "SUBMITTED"
  BY DEF InOrder, SeenIsState
<1>7. poll[p].pc = "settle" => poll[p].seen = "PENDING_HCM"
  BY DEF Reserved, NothingStuck
<1>8. poll[p].pc = "exhausted" => request[Req(p)] # "SUBMITTED"
  BY <1>1, <1>2, <1>3 DEF Reserved, NothingStuck, Req, Row, Active
<1> QED
  BY <1>1, <1>4, <1>5, <1>6, <1>7, <1>8 DEF Reserved, NothingStuck, Row, InFlight, InState

\* Two rows are not of one request.
LEMMA RowOfRequest ==
  ASSUME AllOK, NEW i \in Rows, NEW j \in Rows, outbox[i].req = outbox[j].req
  PROVE  i = j
BY DEF AllOK, Reserved, NothingStuck, InOrder, RowsInOrder

LEMMA ReservedInit == Init => Reserved
<1> SUFFICES ASSUME Init PROVE Reserved
  OBVIOUS
<1>1. Rows = {} /\ InFlight = {} /\ pending = 0 /\ \A p \in Polls : poll[p] = IdlePoll
  BY DEF Init, RequestsInit, Rows, InFlight, InState, NotCreated
<1>2. DaysReserved
  BY <1>1, DaysOfNone, FS_EmptySet DEF DaysReserved
<1> QED
  BY <1>1, <1>2, IdlePollOK DEF Reserved, NothingStuck, WorkInFlight

\* A settled row does not come back, so the others were at work before.
LEMMA StillOpen ==
  ASSUME AllOK, [Next]_vars, NEW i \in Rows, ~Settled(i)'
  PROVE  ~Settled(i)
BY SettledStep DEF AllOK, Settled

\* What the step does to a request in flight.
LEMMA InFlightMoves ==
  ASSUME AllOK, [Next]_vars, Lapsing, Tearing, Smooth', NEW r \in Requests, request'[r] # request[r]
  PROVE  \/ request[r] = NotCreated /\ createRequest(r) /\ Client(r)
         \/ request[r] = "SUBMITTED" /\ request'[r] = "PENDING_HCM"
         \/ \E p \in Polls : /\ SettleRequest(p) /\ Req(p) = r /\ request[r] = "PENDING_HCM"
                             /\ request'[r] = poll[p].verdict
                             /\ poll'[p] = [poll[p] EXCEPT !.pc = "close"]
<1> USE DEF AllOK
<1>1. ASSUME NEW p \in Polls, SettleRequest(p), Req(p) = r
      PROVE  request[r] = "PENDING_HCM"
  BY <1>1, InHand DEF SettleRequest, Active
<1>2. CASE \E q \in Requests : Client(q)
  <2>1. PICK q \in Requests : Client(q) /\ createRequest(q)
    BY <1>2, SmoothStep
  <2>2. q = r
    BY <2>1 DEF createRequest, TypeOK, RequestsTypeOK
  <2> QED
    BY <2>1, <2>2 DEF createRequest
<1>3. CASE ~\E q \in Requests : Client(q)
  <2>1. \/ \E p \in Polls : /\ MarkPendingHcm(p) /\ Req(p) = r
                            /\ request[r] = "SUBMITTED" /\ request'[r] = "PENDING_HCM"
        \/ \E p \in Polls : /\ SettleRequest(p) /\ Req(p) = r
                            /\ CanTransition(poll[p].seen, poll[p].verdict)
                            /\ request'[r] = poll[p].verdict
    BY <1>3, RequestWrites
  <2>2. ASSUME NEW p \in Polls, SettleRequest(p), CanTransition(poll[p].seen, poll[p].verdict)
        PROVE  poll'[p] = [poll[p] EXCEPT !.pc = "close"]
    BY <2>2 DEF SettleRequest, TypeOK
  <2> QED
    BY <1>1, <2>1, <2>2
<1> QED
  BY <1>2, <1>3

LEMMA WorkInFlightStep ==
  ASSUME AllOK, [Next]_vars, Lapsing, Tearing, Smooth'
  PROVE  WorkInFlight'
<1> USE DEF AllOK
<1> SUFFICES ASSUME NEW i \in Rows', ~Settled(i)'
             PROVE  \/ request'[outbox'[i].req] \in {"SUBMITTED", "PENDING_HCM"}
                    \/ \E p \in Polls : poll'[p].pc = "close" /\ poll'[p].row = i
  BY DEF WorkInFlight
<1>1. CASE i \notin Rows
  <2>1. PICK r \in Requests : Client(r) /\ createRequest(r)
    BY <1>1, NoNewRows, SmoothStep
  <2>2. Rows' = Rows \cup {Len(outbox) + 1} /\ outbox'[Len(outbox) + 1] = NewRow("HCM_DEDUCT", r)
    <3>1. ~cancelSubmitted(r) /\ ~cancelApproved(r)
      BY <2>1 DEF createRequest, cancelSubmitted, cancelApproved, NotCreated
    <3> QED
      BY <2>1, <3>1, ClientRows
  <2>3. outbox'[i].req = r
    BY <1>1, <2>2 DEF NewRow
  <2>4. request'[r] = "SUBMITTED"
    BY <2>1 DEF createRequest, TypeOK, RequestsTypeOK
  <2> QED
    BY <2>3, <2>4
<1>2. CASE i \in Rows
  <2> DEFINE r == outbox[i].req
  <2>1. ~Settled(i) /\ outbox'[i].req = r /\ r \in Requests
    BY <1>2, StillOpen, LivesOn
  <2>2. CASE request[r] \in {"SUBMITTED", "PENDING_HCM"}
    <3>1. ASSUME NEW p \in Polls, SettleRequest(p), Req(p) = r,
                 poll'[p] = [poll[p] EXCEPT !.pc = "close"]
          PROVE  poll'[p].pc = "close" /\ poll'[p].row = i
      <4>1. poll[p].row = i
        BY <1>2, <3>1, InHand, RowOfRequest DEF SettleRequest, Req, Row, Active
      <4> QED
        BY <3>1, <4>1, PollType DEF PollRecord
    <3> HIDE DEF r
    <3> QED
      BY <2>1, <2>2, <3>1, InFlightMoves DEF NotCreated
  <2>3. ASSUME NEW p \in Polls, poll[p].pc = "close", poll[p].row = i
        PROVE  poll'[p].pc = "close" /\ poll'[p].row = i
    <3>1. CASE poll'[p] = [poll[p] EXCEPT !.reply = poll'[p].reply]
      BY <2>3, <3>1, PollType DEF PollRecord
    <3>2. ~Statement(p)
      <4> SUFFICES ASSUME Statement(p) PROVE FALSE
        OBVIOUS
      <4>1. CloseRow(p)
        BY <2>3 DEF Statement, StartRecord, MarkPendingHcm, AuditPendingHcm, CallHcm,
           Approve, Reject, ConfirmReversal, MarkFailed, ScheduleRetry, SettleRequest, AuditVerdict,
           Resumes
      <4>2. Active(p)
        BY <2>3 DEF Active
      <4>3. outbox'[i].status \in {"DONE", "FAILED"}
        BY <2>3, <4>1, <4>2, CloseEffect, ActiveRow DEF Writes, OutboxRow
      <4> QED
        BY <4>3 DEF Settled
    <3>3. ~StartPoll(p)
      BY <2>3 DEF StartPoll
    <3> QED
      BY <2>3, <3>1, <3>2, <3>3, RecordFrame, SmoothStep
  <2> HIDE DEF r
  <2> QED
    BY <1>2, <2>1, <2>2, <2>3 DEF Reserved, WorkInFlight, r
<1> QED
  BY <1>1, <1>2

\* What the answer of a call leads to: the verdict is legal from PENDING_HCM, and
\* there was no reversal to confirm.
LEMMA AnswersSettle ==
  ASSUME AllOK, NEW p \in Polls, Approve(p) \/ Reject(p) \/ ConfirmReversal(p) \/ MarkFailed(p)
  PROVE  /\ poll[p].pc \in {"await", "exhausted"} /\ Req(p) \in InFlight
         /\ \A q \in Polls : q # p => ~InTurn(q) /\ poll'[q] = poll[q]
         /\ pending' = Minus(pending, Days(p))
         /\ poll'[p].pc = "settle" /\ poll'[p].row = poll[p].row /\ poll'[p].seen = "PENDING_HCM"
         /\ poll'[p].verdict \in {"APPROVED", "REJECTED", "FAILED"}
         /\ UNCHANGED request
         /\ poll'[p].verdict = "APPROVED" => Approve(p)
<1> USE DEF AllOK
<1>1. /\ poll[p].pc \in {"await", "exhausted"} /\ Active(p)
      /\ \A q \in Polls : q # p => ~InTurn(q) /\ poll'[q] = poll[q]
  BY SettleEffect, OthersWait DEF TurnInv, Statement
<1>2. /\ Req(p) \in InFlight /\ Row(p).event = "HCM_DEDUCT"
      /\ request[Req(p)] = "PENDING_HCM"
      /\ poll[p].pc = "await" => poll[p].seen = "PENDING_HCM"
  BY <1>1, InHand
<1>3. ~ConfirmReversal(p)
  BY <1>2 DEF ConfirmReversal, Resumes
<1>4. PICK verdict \in {"APPROVED", "REJECTED", "FAILED"} :
        /\ Settle(p, "PENDING_HCM", verdict)
        /\ pending' = Minus(pending, Days(p))
        /\ verdict = "APPROVED" => Approve(p)
  <2>1. Approve(p) \/ Reject(p) => poll[p].seen = "PENDING_HCM"
    BY <1>2 DEF Approve, Reject, Resumes
  <2> QED
    BY <1>2, <1>3, <2>1 DEF Approve, Reject, MarkFailed
<1>5. /\ poll'[p] = [poll[p] EXCEPT !.pc = "settle", !.seen = "PENDING_HCM",
                                    !.verdict = verdict, !.reply = NoReply]
      /\ UNCHANGED request
  BY <1>4 DEF Settle, TypeOK
<1>6. /\ poll'[p].pc = "settle" /\ poll'[p].seen = "PENDING_HCM" /\ poll'[p].verdict = verdict
      /\ poll'[p].row = poll[p].row
  BY <1>5, PollType DEF PollRecord
<1> QED
  BY <1>1, <1>2, <1>4, <1>5, <1>6

\* And it is written.
LEMMA VerdictIsWritten ==
  ASSUME AllOK, NEW p \in Polls, SettleRequest(p)
  PROVE  /\ poll[p].pc = "settle" /\ Req(p) \in InFlight
         /\ UNCHANGED <<outbox, pending>>
         /\ request' = [request EXCEPT ![Req(p)] = poll[p].verdict]
         /\ poll[p].verdict \in {"APPROVED", "REJECTED", "FAILED"}
         /\ poll'[p] = [poll[p] EXCEPT !.pc = "close"]
<1>1. poll[p].pc = "settle"
  BY DEF SettleRequest
<1>2. /\ Req(p) \in InFlight /\ poll[p].seen = "PENDING_HCM"
      /\ poll[p].verdict \in {"APPROVED", "REJECTED", "FAILED"}
  BY <1>1, InHand DEF AllOK, Reserved, NothingStuck, Active
<1>3. CanTransition(poll[p].seen, poll[p].verdict)
  BY <1>2 DEF CanTransition, getValidTransitions
<1> QED
  BY <1>1, <1>2, <1>3 DEF SettleRequest, AllOK, TypeOK

\* A row's attempts are written when its record is started, and else kept.
LEMMA AttemptsMove ==
  ASSUME AllOK, [Next]_vars, NEW i \in Rows, outbox'[i].attempts # outbox[i].attempts
  PROVE  \E p \in Polls : StartRecord(p) /\ \E c \in poll[p].claimed : c.row = i
<1> USE DEF AllOK
<1>1. ASSUME NEW p \in Polls, Active(p)
      PROVE  /\ Row(p) \in OutboxRow
             /\ poll[p].pc = "await" => outbox[poll[p].row].attempts = poll[p].attempts
  BY <1>1, ActiveRow DEF Owned, RowsHeld, Keeps
<1>2. CASE Quiet
  BY <1>2, QuietRows, RowType DEF OutboxRow
<1>3. CASE \E r \in Requests : Client(r)
  BY <1>3, ClientRows
<1>4. CASE Crash
  BY <1>4 DEF Crash
<1>5. ASSUME NEW p \in Polls, StartPoll(p)
      PROVE  FALSE
  <2>1. /\ [outbox[i] EXCEPT !.status = "PROCESSING", !.ripe = FALSE].attempts = outbox[i].attempts
        /\ [outbox[i] EXCEPT !.status = "PENDING"].attempts = outbox[i].attempts
    BY RowType DEF OutboxRow
  <2> QED
    BY <1>5, <2>1, StartPollEffect
<1>6. ASSUME NEW p \in Polls, Statement(p), ~StartRecord(p)
      PROVE  FALSE
  <2>1. CASE AuditPendingHcm(p) \/ CallHcm(p)
    <3>1. PICK n : Active(p) /\ Writes(poll[p].row, [Row(p) EXCEPT !.calls = n])
      BY <2>1, SendCallEffect
    <3>2. [Row(p) EXCEPT !.calls = n].attempts = Row(p).attempts
      BY <1>1, <3>1 DEF OutboxRow
    <3> QED
      BY <3>1, <3>2 DEF Writes, Row
  <2>2. CASE ScheduleRetry(p)
    <3>1. /\ Active(p) /\ poll[p].pc = "await"
          /\ Writes(poll[p].row, [Row(p) EXCEPT !.status = "PENDING", !.ripe = FALSE,
                                                 !.attempts = poll[p].attempts])
      BY <2>2, RetryEffect
    <3>2. [Row(p) EXCEPT !.status = "PENDING", !.ripe = FALSE,
                         !.attempts = poll[p].attempts].attempts = poll[p].attempts
      BY <1>1, <3>1 DEF OutboxRow
    <3> QED
      BY <1>1, <3>1, <3>2 DEF Writes, Row
  <2>3. CASE CloseRow(p)
    <3>1. PICK status : Active(p) /\ Writes(poll[p].row, [Row(p) EXCEPT !.status = status])
      BY <2>3, CloseEffect
    <3>2. [Row(p) EXCEPT !.status = status].attempts = Row(p).attempts
      BY <1>1, <3>1 DEF OutboxRow
    <3> QED
      BY <3>1, <3>2 DEF Writes, Row
  <2>4. CASE \/ MarkPendingHcm(p) \/ SettleRequest(p) \/ AuditVerdict(p)
             \/ Approve(p) \/ Reject(p) \/ ConfirmReversal(p) \/ MarkFailed(p)
    <3>1. UNCHANGED outbox
      BY <2>4, SettleEffect DEF MarkPendingHcm, SettleRequest, AuditVerdict
    <3> QED
      BY <3>1
  <2> QED
    BY <1>6, <2>1, <2>2, <2>3, <2>4 DEF Statement
<1>7. ASSUME NEW p \in Polls, StartRecord(p)
      PROVE  \E c \in poll[p].claimed : c.row = i
  <2>1. PICK c \in poll[p].claimed :
          Writes(c.row, [outbox[c.row] EXCEPT !.status = "PROCESSING",
                           !.attempts = Bump(c.attempts), !.ripe = FALSE])
    BY <1>7, StartRecordEffect
  <2> QED
    BY <2>1 DEF Writes
<1> QED
  BY <1>2, <1>3, <1>4, <1>5, <1>6, <1>7, Kinds

\* A record is started with its call, or is out of attempts after the calls before.
LEMMA StuckStartRecord ==
  ASSUME AllOK, [Next]_vars, NEW p \in Polls, StartRecord(p),
         NEW c \in poll[p].claimed,
         poll'[p] = [poll[p] EXCEPT
           !.pc = IF Bump(c.attempts) > MAX_OUTBOX_ATTEMPTS THEN "exhausted" ELSE "load",
           !.claimed = poll[p].claimed \ {c}, !.row = c.row, !.attempts = Bump(c.attempts)]
  PROVE  /\ poll'[p].attempts > 0
         /\ \/ request[outbox[c.row].req] # "SUBMITTED"
            \/ poll'[p].pc = "load" /\ poll'[p].row = c.row
<1> USE DEF AllOK
<1>1. c.row \in Rows /\ c.attempts \in Nat
  BY PollType
<1>2. /\ poll'[p].attempts = Bump(c.attempts) /\ poll'[p].row = c.row
      /\ poll'[p].pc = IF Bump(c.attempts) > MAX_OUTBOX_ATTEMPTS THEN "exhausted" ELSE "load"
  BY PollType DEF PollRecord
<1>3. Bump(c.attempts) \in Nat /\ Bump(c.attempts) > 0
  BY <1>1, PollAssumption DEF Bump
<1>4. CASE poll'[p].pc # "load"
  <2>1. c.attempts > 0
    BY <1>1, <1>2, <1>4, PollAssumption DEF Bump
  <2>2. /\ outbox[c.row].attempts = c.attempts /\ ~Settled(c.row) /\ poll[p].pc = "next"
    BY StartRecordEffect DEF Owned, RowsHeld, Keeps, Settled
  <2>3. ASSUME NEW q \in Polls, poll[q].pc = "load", poll[q].row = c.row
        PROVE  FALSE
    <3>1. q # p /\ c.row \in Held(q) /\ c.row \in Held(p)
      BY <2>2, <2>3 DEF Held, Active
    <3> QED
      BY <3>1 DEF Owned, RowsHeld, SharedOnlyByLapse
  <2> QED
    BY <1>1, <1>2, <1>3, <2>1, <2>2, <2>3 DEF Reserved, NothingStuck
<1> QED
  BY <1>2, <1>3, <1>4

\* A row that was tried is past SUBMITTED, or stays with the poll that tries it.
LEMMA TriedStep ==
  ASSUME AllOK, [Next]_vars, Lapsing, Tearing, Smooth',
         NEW i \in Rows', ~Settled(i)', outbox'[i].attempts > 0
  PROVE  \/ request'[outbox'[i].req] # "SUBMITTED"
         \/ \E p \in Polls : poll'[p].pc = "load" /\ poll'[p].row = i
<1> USE DEF AllOK
<1>1. CASE i \notin Rows
  <2>1. PICK r \in Requests : Client(r) /\ createRequest(r)
    BY <1>1, NoNewRows, SmoothStep
  <2>2. outbox'[i] = NewRow("HCM_DEDUCT", r)
    <3>1. ~cancelSubmitted(r) /\ ~cancelApproved(r)
      BY <2>1 DEF createRequest, cancelSubmitted, cancelApproved, NotCreated
    <3>2. /\ Rows' = Rows \cup {Len(outbox) + 1}
          /\ outbox'[Len(outbox) + 1] = NewRow("HCM_DEDUCT", r)
      BY <2>1, <3>1, ClientRows
    <3> QED
      BY <1>1, <3>2
  <2> QED
    BY <2>2 DEF NewRow
<1>2. CASE i \in Rows
  <2>1. ~Settled(i) /\ outbox'[i].req = outbox[i].req /\ outbox[i].req \in Requests
    BY <1>2, StillOpen, LivesOn
  <2>2. request[outbox[i].req] # NotCreated /\ request[outbox[i].req] # "SUBMITTED"
          => request'[outbox[i].req] # "SUBMITTED"
    <3>1. ASSUME NEW p \in Polls, SettleRequest(p)
          PROVE  poll[p].verdict # "SUBMITTED"
      BY <3>1, VerdictIsWritten
    <3> DEFINE r == outbox[i].req
    <3>2. r \in Requests
      BY <2>1
    <3> HIDE DEF r
    <3>3. request[r] # NotCreated /\ request[r] # "SUBMITTED" => request'[r] # "SUBMITTED"
      BY <3>1, <3>2, InFlightMoves
    <3> QED
      BY <3>3 DEF r
  <2>3. request[outbox[i].req] # NotCreated
    BY <1>2 DEF InOrder, RowsInOrder
  <2>4. CASE outbox'[i].attempts # outbox[i].attempts
    <3>1. PICK p \in Polls : StartRecord(p) /\ \E c \in poll[p].claimed : c.row = i
      BY <1>2, <2>4, AttemptsMove
    <3>2. PICK c \in poll[p].claimed :
            /\ poll'[p] = [poll[p] EXCEPT
                 !.pc = IF Bump(c.attempts) > MAX_OUTBOX_ATTEMPTS THEN "exhausted" ELSE "load",
                 !.claimed = poll[p].claimed \ {c}, !.row = c.row, !.attempts = Bump(c.attempts)]
            /\ Writes(c.row, [outbox[c.row] EXCEPT !.status = "PROCESSING",
                                !.attempts = Bump(c.attempts), !.ripe = FALSE])
      BY <3>1, StartRecordEffect
    <3>3. c.row = i
      BY <1>2, <2>4, <3>2 DEF Writes
    <3> QED
      BY <2>1, <2>2, <2>3, <3>1, <3>2, <3>3, StuckStartRecord
  <2>5. CASE outbox'[i].attempts = outbox[i].attempts
    <3>1. CASE request[outbox[i].req] # "SUBMITTED"
      BY <2>1, <2>2, <2>3, <3>1
    <3>2. ASSUME NEW p \in Polls, poll[p].pc = "load", poll[p].row = i
          PROVE  \/ request'[outbox'[i].req] # "SUBMITTED"
                 \/ poll'[p].pc = "load" /\ poll'[p].row = i
      <4>1. CASE poll'[p] = [poll[p] EXCEPT !.reply = poll'[p].reply]
        BY <3>2, <4>1, PollType DEF PollRecord
      <4>2. CASE MarkPendingHcm(p)
        <5>1. request'[Req(p)] = "PENDING_HCM"
          BY <1>2, <2>1, <3>2, <4>2 DEF MarkPendingHcm, TypeOK, RequestsTypeOK, Req, Row
        <5> QED
          BY <2>1, <3>2, <5>1 DEF Req, Row
      <4>3. CASE CallHcm(p)
        <5>1. request[Req(p)] # "SUBMITTED" /\ UNCHANGED request
          BY <1>2, <3>2, <4>3 DEF CallHcm, Reserved, NothingStuck, Row, requestVars
        <5> QED
          BY <2>1, <3>2, <5>1 DEF Req, Row
      <4>4. Statement(p) => MarkPendingHcm(p) \/ CallHcm(p)
        BY <3>2 DEF Statement, StartRecord, AuditPendingHcm, Approve, Reject, ConfirmReversal,
           MarkFailed, ScheduleRetry, SettleRequest, CloseRow, AuditVerdict, Resumes
      <4>5. ~StartPoll(p)
        BY <3>2 DEF StartPoll
      <4> QED
        BY <3>2, <4>1, <4>2, <4>3, <4>4, <4>5, RecordFrame, SmoothStep
    <3> QED
      BY <1>2, <2>1, <2>5, <3>1, <3>2 DEF Reserved, NothingStuck
  <2> QED
    BY <2>4, <2>5
<1> QED
  BY <1>1, <1>2

\* A poll comes to "exhausted" by starting a record.
LEMMA ExhaustedFrame ==
  ASSUME AllOK, [Next]_vars, NEW p \in Polls, poll'[p].pc = "exhausted"
  PROVE  poll'[p].attempts > 0
<1> USE DEF AllOK
<1>1. CASE poll'[p] = [poll[p] EXCEPT !.reply = poll'[p].reply]
  <2>1. poll[p].pc = "exhausted" /\ poll'[p].attempts = poll[p].attempts
    BY <1>1, PollType DEF PollRecord
  <2> QED
    BY <2>1 DEF Reserved, NothingStuck
<1>2. CASE StartPoll(p)
  <2>1. poll'[p].pc = "next"
    BY <1>2, StartPollEffect, IdlePollOK DEF PollRecord
  <2> QED
    BY <2>1
<1>3. CASE Crash
  BY <1>3, IdlePollOK DEF Crash
<1>4. CASE StartRecord(p)
  BY <1>4, StartRecordEffect, StuckStartRecord
<1>5. ASSUME Statement(p), ~StartRecord(p)
      PROVE  FALSE
  <2>1. CASE AuditPendingHcm(p) \/ CallHcm(p)
    BY <2>1, SendCallEffect, PollType DEF PollRecord
  <2>2. CASE Approve(p) \/ Reject(p) \/ ConfirmReversal(p) \/ MarkFailed(p)
    BY <2>2, AnswersSettle
  <2>3. CASE ScheduleRetry(p) \/ AuditVerdict(p)
    <3>1. poll'[p] = Finished(p)
      BY <2>3, RetryEffect DEF AuditVerdict, TypeOK
    <3> QED
      BY <3>1, FinishedFields
  <2>4. CASE CloseRow(p)
    BY <2>4, CloseEffect, PollType DEF PollRecord
  <2>5. CASE MarkPendingHcm(p)
    BY <2>5, PollType DEF MarkPendingHcm, PollRecord, TypeOK
  <2>6. CASE SettleRequest(p)
    BY <2>6, VerdictIsWritten, PollType DEF PollRecord
  <2> QED
    BY <1>5, <2>1, <2>2, <2>3, <2>4, <2>5, <2>6 DEF Statement
<1> QED
  BY <1>1, <1>2, <1>3, <1>4, <1>5, RecordFrame

LEMMA NothingStuckStep ==
  ASSUME AllOK, [Next]_vars, Lapsing, Tearing, Smooth'
  PROVE  NothingStuck'
<1>1. \A i \in Rows' : outbox'[i].event = "HCM_DEDUCT"
  <2> SUFFICES ASSUME NEW i \in Rows' PROVE outbox'[i].event = "HCM_DEDUCT"
    OBVIOUS
  <2>1. CASE i \in Rows
    BY <2>1, OutboxStep DEF AllOK, RowsKept, Reserved, NothingStuck
  <2>2. CASE i \notin Rows
    <3>1. PICK r \in Requests : Client(r) /\ createRequest(r)
      BY <2>2, NoNewRows, SmoothStep DEF AllOK
    <3>2. ~cancelSubmitted(r) /\ ~cancelApproved(r)
      BY <3>1 DEF createRequest, cancelSubmitted, cancelApproved, NotCreated
    <3>3. /\ Rows' = Rows \cup {Len(outbox) + 1}
          /\ outbox'[Len(outbox) + 1] = NewRow("HCM_DEDUCT", r)
      BY <3>1, <3>2, ClientRows DEF AllOK
    <3> QED
      BY <2>2, <3>3 DEF NewRow
  <2> QED
    BY <2>1, <2>2
<1>2. ASSUME NEW p \in Polls, poll'[p].pc = "settle"
      PROVE  poll'[p].seen = "PENDING_HCM" /\ poll'[p].verdict \in {"APPROVED", "REJECTED", "FAILED"}
  <2>1. CASE poll'[p] = [poll[p] EXCEPT !.reply = poll'[p].reply]
    <3>1. /\ poll[p].pc = "settle" /\ poll'[p].seen = poll[p].seen
          /\ poll'[p].verdict = poll[p].verdict
      BY <1>2, <2>1, PollType DEF PollRecord, AllOK
    <3> QED
      BY <3>1 DEF AllOK, Reserved, NothingStuck
  <2> QED
    BY <1>2, <2>1, SettleFrame, AnswersSettle DEF AllOK
<1> QED
  BY <1>1, <1>2, TriedStep, ExhaustedFrame DEF NothingStuck

(***************************************************************************)
(* The sum of the days in flight.                                          *)
(***************************************************************************)
\* A step that begins and ends no settlement.
LEMMA ReleasedKept ==
  ASSUME TypeOK, [Next]_vars,
         \A p \in Polls : poll[p].pc = "settle" \/ poll'[p].pc = "settle" =>
           poll'[p].pc = poll[p].pc /\ poll'[p].row = poll[p].row
  PROVE  Released' = Released
<1>1. \A p \in Polls : poll[p].pc = "settle" => Req(p)' = Req(p)
  BY OutboxStep, SameRequest DEF Active
<1> QED
  BY <1>1 DEF Released

LEMMA DaysKept ==
  ASSUME AllOK, InFlight' = InFlight, Released' = Released, UNCHANGED pending
  PROVE  DaysReserved'
<1>1. DaysOf(InFlight \ Released)' = DaysOf(InFlight \ Released)
  BY DEF DaysOf
<1> QED
  BY <1>1 DEF AllOK, Reserved, DaysReserved

\* Between turns nothing is released whose verdict is still to be written.
LEMMA NoneReleased ==
  ASSUME \A p \in Polls : poll[p].pc # "settle"
  PROVE  Released = {}
BY DEF Released

LEMMA DaysCreate ==
  ASSUME AllOK, NEW r \in Requests, Client(r), createRequest(r)
  PROVE  DaysReserved'
<1> USE DEF AllOK
<1>1. Released = {} /\ Released' = {}
  BY DEF Released, Client, EventLoopFree, InTurn
<1>2. InFlight' = InFlight \cup {r} /\ r \notin InFlight
  BY DEF InFlight, InState, createRequest, NotCreated, TypeOK, RequestsTypeOK
<1>3. InFlight \in SUBSET Requests /\ IsFiniteSet(InFlight) /\ pending = DaysOf(InFlight)
  BY <1>1 DEF InFlight, InState, Reserved, DaysReserved
<1>4. /\ DaysOf(InFlight \cup {r}) = DaysOf(InFlight) + daysRequested[r]
      /\ IsFiniteSet(InFlight \cup {r})
  BY <1>2, <1>3, DaysOfAdd, FS_AddElement
<1>5. pending' = pending + daysRequested[r]
  BY DEF createRequest
<1>6. DaysOf(InFlight \ Released)' = DaysOf(InFlight \cup {r})
  BY <1>1, <1>2 DEF DaysOf
<1> QED
  BY <1>2, <1>3, <1>4, <1>5, <1>6 DEF DaysReserved

\* The days of a request in flight are all there to be released.
LEMMA DaysRelease ==
  ASSUME AllOK, [Next]_vars, NEW p \in Polls,
         Approve(p) \/ Reject(p) \/ ConfirmReversal(p) \/ MarkFailed(p)
  PROVE  DaysReserved' /\ pending' = pending - Days(p)
<1> USE DEF AllOK
<1>1. /\ poll[p].pc \in {"await", "exhausted"} /\ Req(p) \in InFlight
      /\ pending' = Minus(pending, Days(p)) /\ poll'[p].pc = "settle"
      /\ poll'[p].row = poll[p].row /\ UNCHANGED request
  BY AnswersSettle
<1>2. Released = {}
  BY <1>1, AnswersSettle DEF Released, InTurn
<1>3. \A q \in Polls : q # p => poll'[q].pc # "settle"
  BY AnswersSettle DEF InTurn
<1>4. Req(p)' = Req(p)
  BY <1>1, OutboxStep, SameRequest DEF Active
<1>5. Released' = {Req(p)}
  BY <1>1, <1>3, <1>4 DEF Released
<1>6. InFlight' = InFlight
  BY <1>1 DEF InFlight, InState
<1>7. InFlight \in SUBSET Requests /\ IsFiniteSet(InFlight) /\ pending = DaysOf(InFlight)
  BY <1>2 DEF InFlight, InState, Reserved, DaysReserved
<1>8. DaysOf(InFlight) = Days(p) + DaysOf(InFlight \ {Req(p)})
  BY <1>1, <1>7, DaysOfRemove DEF Days
<1>9. DaysOf(InFlight \ {Req(p)}) \in Nat /\ Days(p) \in Nat
  <2>1. IsFiniteSet(InFlight \ {Req(p)}) /\ InFlight \ {Req(p)} \in SUBSET Requests
    BY <1>7, FS_Subset
  <2> QED
    BY <1>1, <1>7, <2>1, DaysOfType, LedgerAssumption DEF Days
<1>10. pending' = DaysOf(InFlight \ {Req(p)}) /\ pending' = pending - Days(p)
  BY <1>1, <1>7, <1>8, <1>9 DEF Minus
<1>11. DaysOf(InFlight \ Released)' = DaysOf(InFlight \ {Req(p)})
  BY <1>5, <1>6 DEF DaysOf
<1> QED
  BY <1>6, <1>7, <1>10, <1>11 DEF DaysReserved

\* The verdict takes the request out of flight.
LEMMA DaysVerdict ==
  ASSUME AllOK, [Next]_vars, NEW p \in Polls, SettleRequest(p)
  PROVE  DaysReserved'
<1> USE DEF AllOK
<1>1. /\ poll[p].pc = "settle" /\ Req(p) \in InFlight /\ UNCHANGED pending
      /\ request' = [request EXCEPT ![Req(p)] = poll[p].verdict]
      /\ poll[p].verdict \in {"APPROVED", "REJECTED", "FAILED"}
      /\ poll'[p] = [poll[p] EXCEPT !.pc = "close"]
  BY VerdictIsWritten
<1>2. poll'[p].pc = "close"
  BY <1>1, PollType DEF PollRecord
<1>3. \A q \in Polls : q # p => ~InTurn(q) /\ poll'[q] = poll[q]
  BY OthersWait DEF TurnInv, Statement
<1>4. Released = {Req(p)} /\ Released' = {}
  <2>1. {q \in Polls : poll[q].pc = "settle"} = {p}
    BY <1>1, <1>3 DEF InTurn
  <2>2. \A q \in Polls : poll'[q].pc # "settle"
    BY <1>2, <1>3 DEF InTurn
  <2> QED
    BY <2>1, <2>2 DEF Released
<1>5. InFlight' = InFlight \ {Req(p)}
  BY <1>1 DEF InFlight, InState, TypeOK, RequestsTypeOK
<1>6. DaysOf(InFlight \ Released)' = DaysOf(InFlight \ Released)
  BY <1>4, <1>5 DEF DaysOf
<1>7. IsFiniteSet(InFlight) /\ pending = DaysOf(InFlight \ Released)
  BY DEF Reserved, DaysReserved
<1>8. IsFiniteSet(InFlight \ {Req(p)})
  BY <1>7, FS_Subset
<1> QED
  BY <1>1, <1>5, <1>6, <1>7, <1>8 DEF DaysReserved

\* The other statements of a poll.
LEMMA DaysElsewhere ==
  ASSUME AllOK, [Next]_vars, NEW p \in Polls,
         StartPoll(p) \/ StartRecord(p) \/ MarkPendingHcm(p) \/ AuditPendingHcm(p) \/ CallHcm(p)
           \/ ScheduleRetry(p) \/ CloseRow(p) \/ AuditVerdict(p)
  PROVE  DaysReserved'
<1> USE DEF AllOK
<1>1. Others(p)
  BY OthersKept DEF Statement
<1>2. poll[p].pc # "settle"
  BY DEF StartPoll, StartRecord, MarkPendingHcm, AuditPendingHcm, CallHcm, ScheduleRetry, Resumes,
     CloseRow, AuditVerdict
<1>3. poll'[p].pc # "settle"
  <2> SUFFICES ASSUME poll'[p].pc = "settle" PROVE FALSE
    OBVIOUS
  <2>1. \/ poll'[p] = [poll[p] EXCEPT !.reply = poll'[p].reply]
        \/ Approve(p) \/ Reject(p) \/ ConfirmReversal(p) \/ MarkFailed(p)
    BY SettleFrame
  <2>2. poll'[p] # [poll[p] EXCEPT !.reply = poll'[p].reply]
    BY <1>2, PollType DEF PollRecord
  <2>3. Approve(p) \/ Reject(p) \/ ConfirmReversal(p) \/ MarkFailed(p)
    BY <2>1, <2>2
  <2>4. poll[p].pc \in {"await", "exhausted"}
    BY <2>3, AnswersSettle
  <2>5. ScheduleRetry(p)
    BY <2>4 DEF StartPoll, StartRecord, MarkPendingHcm, AuditPendingHcm, CallHcm, CloseRow,
       AuditVerdict
  <2> QED
    BY <1>3, <2>5, RetryEffect, FinishedFields
<1>4. Released' = Released
  BY <1>1, <1>2, <1>3, ReleasedKept DEF Others
<1>5. InFlight' = InFlight /\ UNCHANGED pending
  <2>1. CASE MarkPendingHcm(p)
    <3>1. poll[p].pc = "load"
      BY <2>1 DEF MarkPendingHcm
    <3>2. Req(p) \in InFlight /\ request' = [request EXCEPT ![Req(p)] = "PENDING_HCM"]
      BY <2>1, <3>1, InHand DEF MarkPendingHcm, Active
    <3>3. UNCHANGED pending
      BY <2>1 DEF MarkPendingHcm
    <3> QED
      BY <3>2, <3>3 DEF InFlight, InState, TypeOK, RequestsTypeOK
  <2>2. CASE ~MarkPendingHcm(p)
    <3>1. UNCHANGED <<request, pending>>
      BY <2>2 DEF StartPoll, StartRecord, AuditPendingHcm, CallHcm, ScheduleRetry, CloseRow,
         AuditVerdict, requestVars
    <3> QED
      BY <3>1 DEF InFlight, InState
  <2> QED
    BY <2>1, <2>2
<1> QED
  BY <1>4, <1>5, DaysKept

LEMMA DaysReservedStep ==
  ASSUME AllOK, [Next]_vars, Lapsing, Tearing, Smooth'
  PROVE  DaysReserved'
<1> USE DEF AllOK
<1>1. CASE Quiet
  <2>1. Released' = Released
    BY <1>1, QuietKeepsTurns, ReleasedKept
  <2>2. InFlight' = InFlight /\ UNCHANGED pending
    BY <1>1, QuietKeepsTurns DEF requestVars, InFlight, InState
  <2> QED
    BY <2>1, <2>2, DaysKept
<1>2. CASE \E r \in Requests : Client(r)
  BY <1>2, SmoothStep, DaysCreate
<1>3. ASSUME NEW p \in Polls, StartPoll(p) \/ Statement(p)
      PROVE  DaysReserved'
  BY <1>3, DaysElsewhere, DaysRelease, DaysVerdict DEF Statement
<1>4. CASE Crash
  <2>1. Released' = Released
    BY <1>4, SmoothStep, IdlePollOK, ReleasedKept DEF Crash
  <2>2. InFlight' = InFlight /\ UNCHANGED pending
    BY <1>4 DEF Crash, requestVars, InFlight, InState
  <2> QED
    BY <2>1, <2>2, DaysKept
<1> QED
  BY <1>1, <1>2, <1>3, <1>4, Kinds

LEMMA ReservationsStep == All /\ Reservations /\ HistoryStep => Reservations'
<1> SUFFICES ASSUME All, Reservations, HistoryStep, Smooth' PROVE Reserved'
  BY DEF Reservations
<1>1. TypeOK /\ [Next]_vars /\ Lapsing /\ Tearing
  BY HistoryMoves DEF All
<1>2. AllOK
  BY <1>1, SmoothStep DEF All, AllOK, Lifelines, Reservations
<1> QED
  BY <1>1, <1>2, NothingStuckStep, WorkInFlightStep, DaysReservedStep DEF Reserved

\* Outside a turn pending_days is the sum over the requests in flight, through
\* any number of overlapping polls, lost and repeated calls, refusals, exhausted rows
\* and crashes, unless a row lapsed, a crash tore a settlement or something was
\* cancelled.
THEOREM ReservationKept == HistorySpec => []ReservedInOrder
<1>1. HistoryInit => Reservations
  BY ReservedInit DEF HistoryInit, Reservations
<1>2. Reservations => ReservedInOrder
  <2> SUFFICES ASSUME Reserved, EventLoopFree
               PROVE  pending = DaysOf(InState({"SUBMITTED", "PENDING_HCM"}))
    BY DEF Reservations, Smooth, ReservedInOrder
  <2>1. Released = {}
    BY DEF EventLoopFree, InTurn, Released
  <2>2. InFlight \ Released = InState({"SUBMITTED", "PENDING_HCM"})
    BY <2>1 DEF InFlight
  <2> QED
    BY <2>2 DEF Reserved, DaysReserved
<1> QED
  BY <1>1, <1>2, AllInit, AllStep, ReservationsStep, PTL DEF HistorySpec, HistoryStep

(***************************************************************************)
(* No day is promised twice.                                               *)
(***************************************************************************)
\* What the history says of figures and approvals.
Counting ==
  /\ \A p \in Polls :
       HasFigure(p)' => counted'[p] = IF HasFigure(p) THEN counted[p] ELSE Booked'
  /\ ~overtaken' => ~overtaken /\ \A p, q \in Polls : ~Overtakes(p, q)

LEMMA HistoryCounts == TypeOK /\ HistoryStep => Counting
<1> SUFFICES ASSUME TypeOK, HistoryStep PROVE Counting
  OBVIOUS
<1>1. CASE HistoryNext
  BY <1>1 DEF HistoryNext, Counting
<1>2. CASE UNCHANGED <<vars, historyVars>>
  <2>1. UNCHANGED <<poll, counted, overtaken>>
    BY <1>2 DEF vars, historyVars
  <2>2. \A p \in Polls : HasFigure(p)' => HasFigure(p)
    BY <2>1 DEF HasFigure
  <2>3. \A p \in Polls : ~Approve(p)
    <3> SUFFICES ASSUME NEW p \in Polls, Approve(p) PROVE FALSE
      OBVIOUS
    <3>1. poll'[p].pc = "settle" /\ poll[p].pc = "await"
      BY SettlePoll DEF Approve, Resumes
    <3> QED
      BY <2>1, <3>1
  <2> QED
    BY <2>1, <2>2, <2>3 DEF Counting, Overtakes
<1> QED
  BY <1>1, <1>2 DEF HistoryStep

Approved == InState({"APPROVED", "CANCELLING"})

NoneReversed == \A r \in Requests : hcmTx[r] # "REVERSED"

\* The requests that are being approved.
Granting ==
  {Req(p) : p \in {q \in Polls : poll[q].pc = "settle" /\ poll[q].verdict = "APPROVED"}}

\* NoOverbooking is not inductive: used_days is overwritten by what the HCM
\* answers.  But the local figure covers all that is approved, and so does a figure
\* that is still to be written, if no approval overtakes it.
UsedCovers ==
  /\ used >= DaysOf(Approved)
  /\ \A p \in Polls : poll[p].pc = "settle" /\ poll[p].verdict = "APPROVED" =>
       used >= DaysOf(Approved) + Days(p)

FiguresCover ==
  \A p \in Polls :
    /\ Holds(p, {"DUPLICATE"}) => poll[p].reply.used = Absent
    /\ HasFigure(p) => /\ counted[p] \in SUBSET Requests /\ IsFiniteSet(counted[p])
                       /\ poll[p].reply.used >= DaysOf(counted[p])
                       /\ Approved \cup Granting \cup {Req(p)} \subseteq counted[p]

Promised == DaysOf(InFlight) + DaysOf(Approved) <= totalDays

Covering == NoneReversed /\ UsedCovers /\ FiguresCover /\ Promised

Covered == Smooth /\ ~overtaken => Covering

LEMMA CoveringInit == Init => Covering
<1> SUFFICES ASSUME Init PROVE Covering
  OBVIOUS
<1>1. InFlight = {} /\ Approved = {} /\ used = 0 /\ \A p \in Polls : poll[p] = IdlePoll
  BY DEF Init, RequestsInit, InFlight, Approved, InState, NotCreated
<1>2. UsedCovers /\ FiguresCover /\ Promised
  BY <1>1, DaysOfNone, IdlePollOK, LedgerAssumption
     DEF UsedCovers, FiguresCover, HasFigure, Promised, Holds
<1> QED
  BY <1>2 DEF Covering, NoneReversed, Init, LedgerInit

\* Sums of two sets without common elements.
LEMMA DaysOfUnion ==
  ASSUME NEW S \in SUBSET Requests, IsFiniteSet(S), NEW T \in SUBSET Requests, IsFiniteSet(T),
         S \cap T = {}
  PROVE  DaysOf(S \cup T) = DaysOf(S) + DaysOf(T)
<1> DEFINE Bad == {U \in SUBSET T : DaysOf(S \cup U) # DaysOf(S) + DaysOf(U)}
<1>1. ASSUME Bad # {}
      PROVE  FALSE
  <2>1. PICK U \in Bad : \A V \in Bad : V \subseteq U => V = U
    <3> Bad \in SUBSET (SUBSET T)
      OBVIOUS
    <3> HIDE DEF Bad
    <3> QED
      BY <1>1, SmallestSet
  <2>2. U \in SUBSET T /\ DaysOf(S \cup U) # DaysOf(S) + DaysOf(U)
    OBVIOUS
  <2>3. DaysOf(S) \in Nat
    BY DaysOfType
  <2>4. U # {}
    <3>1. S \cup {} = S
      OBVIOUS
    <3> QED
      BY <2>2, <2>3, <3>1, DaysOfNone
  <2>5. PICK r \in U : TRUE
    BY <2>4
  <2> DEFINE V == U \ {r}
  <2>6. DaysOf(S \cup V) = DaysOf(S) + DaysOf(V)
    BY <2>1, <2>2, <2>5
  <2>7. /\ V \in SUBSET Requests /\ IsFiniteSet(V) /\ r \in Requests /\ r \notin V
        /\ S \cup V \in SUBSET Requests /\ IsFiniteSet(S \cup V) /\ r \notin S \cup V
    BY <2>2, <2>5, FS_Subset, FS_Union
  <2>8. U = V \cup {r} /\ S \cup U = (S \cup V) \cup {r}
    BY <2>5
  <2> HIDE DEF V
  <2>9. /\ DaysOf(V \cup {r}) = DaysOf(V) + daysRequested[r]
        /\ DaysOf((S \cup V) \cup {r}) = DaysOf(S \cup V) + daysRequested[r]
        /\ DaysOf(V) \in Nat
    BY <2>7, DaysOfAdd, DaysOfType
  <2>10. daysRequested[r] \in Nat
    BY <2>7, LedgerAssumption
  <2>11. /\ DaysOf(S \cup U) = DaysOf((S \cup V) \cup {r})
         /\ DaysOf(U) = DaysOf(V \cup {r})
    BY <2>8
  <2>12. \A a, b, d \in Nat : (a + b) + d = a + (b + d)
    OBVIOUS
  <2>13. DaysOf(S \cup U) = (DaysOf(S) + DaysOf(V)) + daysRequested[r]
    BY <2>6, <2>9, <2>11
  <2>14. DaysOf(U) = DaysOf(V) + daysRequested[r]
    BY <2>9, <2>11
  <2> QED
    BY <2>2, <2>3, <2>9, <2>10, <2>12, <2>13, <2>14
<1> QED
  BY <1>1

LEMMA ApprovedBooked ==
  ASSUME AllOK, Backed, BooksBalance, NoneReversed
  PROVE  /\ Approved \in SUBSET Requests /\ Approved \subseteq Booked /\ IsFiniteSet(Approved)
         /\ InFlight \in SUBSET Requests /\ IsFiniteSet(InFlight) /\ InFlight \cap Approved = {}
         /\ Booked \in SUBSET Requests /\ IsFiniteSet(Booked)
         /\ DaysOf(Approved) \in Nat /\ DaysOf(InFlight) \in Nat
<1>1. Approved \in SUBSET Requests /\ InFlight \in SUBSET Requests /\ InFlight \cap Approved = {}
  BY DEF Approved, InFlight, InState
<1>2. Approved \subseteq Booked
  BY DEF Approved, Booked, Backed, ApprovedIsConfirmed, NoneReversed, AllOK, TypeOK, LedgerTypeOK,
         InState
<1>3. IsFiniteSet(Booked) /\ IsFiniteSet(InFlight) /\ Booked \in SUBSET Requests
  BY DEF BooksBalance, AllOK, Reserved, DaysReserved, Booked
<1>4. IsFiniteSet(Approved)
  BY <1>2, <1>3, FS_Subset
<1> QED
  BY <1>1, <1>2, <1>3, <1>4, DaysOfType

LEMMA NoneReversedStep ==
  ASSUME AllOK, NoneReversed, [Next]_vars
  PROVE  NoneReversed'
<1> USE DEF AllOK
<1>1. CASE UNCHANGED ledgerVars
  BY <1>1 DEF ledgerVars, NoneReversed
<1>2. ASSUME NEW i \in Rows, NEW reply, HcmHandles(i, reply)
      PROVE  NoneReversed'
  <2>1. Deduct(outbox[i].req, reply) /\ outbox[i].req \in Requests
    BY <1>2, RowType DEF HcmHandles, Reserved, NothingStuck
  <2> QED
    BY <2>1 DEF Deduct, NoneReversed, ledgerVars, TypeOK, LedgerTypeOK
<1> QED
  BY <1>1, <1>2, LedgerMoves

\* What the step does to the two sets.
LEMMA SetsMove ==
  ASSUME AllOK, [Next]_vars, Lapsing, Tearing, Smooth'
  PROVE  \/ \E r \in Requests : /\ Client(r) /\ createRequest(r) /\ r \notin InFlight
                                /\ r \notin Approved
                                /\ InFlight' = InFlight \cup {r} /\ Approved' = Approved
         \/ \E p \in Polls : /\ SettleRequest(p) /\ InFlight' = InFlight \ {Req(p)}
                             /\ Approved' = IF poll[p].verdict = "APPROVED"
                                            THEN Approved \cup {Req(p)} ELSE Approved
         \/ /\ ~\E p \in Polls : SettleRequest(p)
            /\ InFlight' = InFlight /\ Approved' = Approved
<1> USE DEF AllOK, InFlight, Approved, InState, TypeOK, RequestsTypeOK
<1>1. CASE \E r \in Requests : Client(r)
  <2>1. PICK r \in Requests : Client(r) /\ createRequest(r)
    BY <1>1, SmoothStep
  <2> QED
    BY <2>1 DEF createRequest, NotCreated
<1>2. CASE \E p \in Polls : SettleRequest(p)
  <2>1. PICK p \in Polls : SettleRequest(p)
    BY <1>2
  <2>2. /\ Req(p) \in InFlight /\ request' = [request EXCEPT ![Req(p)] = poll[p].verdict]
        /\ poll[p].verdict \in {"APPROVED", "REJECTED", "FAILED"}
    BY <2>1, VerdictIsWritten
  <2> QED
    BY <2>1, <2>2
<1>3. CASE ~(\E r \in Requests : Client(r)) /\ ~(\E p \in Polls : SettleRequest(p))
  <2>1. \A r \in Requests : \/ request'[r] = request[r]
                            \/ request[r] = "SUBMITTED" /\ request'[r] = "PENDING_HCM"
    BY <1>3, InFlightMoves
  <2> QED
    BY <1>3, <2>1
<1> QED
  BY <1>1, <1>2, <1>3

LEMMA PromisedStep ==
  ASSUME AllOK, Backed, BooksBalance, Covering, [Next]_vars, Lapsing, Tearing, Smooth'
  PROVE  Promised'
<1> USE ApprovedBooked DEF Covering
<1> DEFINE flying == DaysOf(InFlight)
           granted == DaysOf(Approved)
<1>1. flying \in Nat /\ granted \in Nat /\ flying + granted <= totalDays
  BY DEF Promised
<1>2. CASE InFlight' = InFlight /\ Approved' = Approved
  BY <1>2 DEF Promised, DaysOf
<1>3. ASSUME NEW r \in Requests, Client(r), createRequest(r), r \notin InFlight,
             InFlight' = InFlight \cup {r}, Approved' = Approved
      PROVE  Promised'
  <2>1. Released = {}
    BY <1>3 DEF Released, Client, EventLoopFree, InTurn
  <2>2. InFlight \ Released = InFlight
    BY <2>1
  <2>3. pending = flying /\ used >= granted
    BY <2>2 DEF AllOK, Reserved, DaysReserved, UsedCovers
  <2>4. daysRequested[r] <= totalDays - used - pending
    BY <1>3 DEF createRequest, availableDays
  <2>5. DaysOf(InFlight)' = flying + daysRequested[r] /\ DaysOf(Approved)' = granted
    <3>1. DaysOf(InFlight \cup {r}) = flying + daysRequested[r]
      BY <1>3, DaysOfAdd
    <3> QED
      BY <1>3, <3>1 DEF DaysOf
  <2>6. used \in Nat /\ pending \in Nat /\ totalDays \in Nat /\ daysRequested[r] \in Nat
    BY LedgerAssumption DEF AllOK, TypeOK, RequestsTypeOK
  <2> HIDE DEF flying, granted
  <2> QED
    BY <1>1, <2>3, <2>4, <2>5, <2>6 DEF Promised
<1>4. ASSUME NEW p \in Polls, SettleRequest(p), InFlight' = InFlight \ {Req(p)},
             Approved' = IF poll[p].verdict = "APPROVED" THEN Approved \cup {Req(p)} ELSE Approved
      PROVE  Promised'
  <2>1. Req(p) \in InFlight /\ Req(p) \in Requests /\ Req(p) \notin Approved
    BY <1>4, VerdictIsWritten
  <2>2. flying = daysRequested[Req(p)] + DaysOf(InFlight \ {Req(p)})
    BY <2>1, DaysOfRemove
  <2>3. DaysOf(Approved \cup {Req(p)}) = granted + daysRequested[Req(p)]
    BY <2>1, DaysOfAdd
  <2>4. DaysOf(InFlight \ {Req(p)}) \in Nat
    <3>1. InFlight \ {Req(p)} \in SUBSET Requests /\ IsFiniteSet(InFlight \ {Req(p)})
      BY FS_Subset
    <3> QED
      BY <3>1, DaysOfType
  <2>5. /\ DaysOf(InFlight)' = DaysOf(InFlight \ {Req(p)})
        /\ DaysOf(Approved)' \in {granted, granted + daysRequested[Req(p)]}
    BY <1>4, <2>3 DEF DaysOf
  <2>6. daysRequested[Req(p)] \in Nat /\ totalDays \in Nat
    BY <2>1, LedgerAssumption
  <2> HIDE DEF flying, granted
  <2> QED
    BY <1>1, <2>2, <2>4, <2>5, <2>6 DEF Promised
<1> QED
  BY <1>2, <1>3, <1>4, SetsMove

\* An approval writes a figure that covers it and what was approved before.
LEMMA ApprovalCovered ==
  ASSUME AllOK, Backed, BooksBalance, Covering, NEW p \in Polls, Approve(p)
  PROVE  /\ used' >= DaysOf(Approved) + Days(p) /\ Days(p) \in Nat
         /\ Active(p) /\ EventLoopFree
<1> USE ApprovedBooked DEF AllOK, Covering
<1>1. /\ Active(p) /\ EventLoopFree /\ poll[p].pc = "await" /\ Row(p).event = "HCM_DEDUCT"
      /\ poll[p].reply.kind \in {"OK", "DUPLICATE"}
      /\ used' = AnsweredUsed(p, used + Days(p))
  BY DEF Approve, Resumes, Active
<1>2. Req(p) \in InFlight /\ Req(p) \in Requests /\ Req(p) \notin Approved
  BY <1>1, InHand
<1>3. Days(p) \in Nat
  BY <1>2, LedgerAssumption DEF Days
<1>4. CASE poll[p].reply.used = Absent
  <2>1. used' = used + Days(p)
    BY <1>1, <1>4 DEF AnsweredUsed
  <2>2. used \in Nat /\ used >= DaysOf(Approved)
    BY DEF UsedCovers, TypeOK, RequestsTypeOK
  <2>3. DaysOf(Approved) \in Nat
    OBVIOUS
  <2> QED
    BY <1>1, <1>3, <2>1, <2>2, <2>3
<1>5. CASE poll[p].reply.used # Absent
  <2>1. used' = poll[p].reply.used
    BY <1>1, <1>5 DEF AnsweredUsed
  <2>2. HasFigure(p)
    BY <1>1, <1>5 DEF HasFigure, FiguresCover, Holds
  <2>3. /\ counted[p] \in SUBSET Requests /\ IsFiniteSet(counted[p])
        /\ poll[p].reply.used >= DaysOf(counted[p])
        /\ Approved \cup {Req(p)} \in SUBSET counted[p]
    BY <2>2 DEF FiguresCover
  <2>4. DaysOf(Approved \cup {Req(p)}) = DaysOf(Approved) + Days(p)
    BY <1>2, DaysOfAdd DEF Days
  <2>5. DaysOf(Approved \cup {Req(p)}) <= DaysOf(counted[p]) /\ DaysOf(counted[p]) \in Nat
    BY <2>3, DaysOfMonotone, DaysOfType
  <2>6. poll[p].reply.used \in Nat
    <3>1. poll[p].reply.used \in Nat \cup {Absent}
      BY PollType DEF PollRecord
    <3> QED
      BY <1>5, <3>1
  <2>7. DaysOf(Approved) \in Nat
    OBVIOUS
  <2> QED
    BY <1>1, <1>3, <2>1, <2>3, <2>4, <2>5, <2>6, <2>7
<1> QED
  BY <1>4, <1>5

\* Nothing else writes used_days.
LEMMA UsedMoves ==
  ASSUME AllOK, [Next]_vars, Lapsing, Tearing, Smooth', used' # used
  PROVE  \E p \in Polls : Approve(p)
<1> USE DEF AllOK
<1>1. CASE Quiet
  BY <1>1, QuietKeepsTurns DEF requestVars
<1>2. CASE \E r \in Requests : Client(r)
  BY <1>2, SmoothStep DEF createRequest
<1>3. CASE Crash
  BY <1>3 DEF Crash, requestVars
<1>4. ASSUME NEW p \in Polls, StartPoll(p) \/ Statement(p)
      PROVE  Approve(p)
  <2>1. ~ConfirmReversal(p)
    <3> SUFFICES ASSUME ConfirmReversal(p) PROVE FALSE
      OBVIOUS
    <3>1. poll[p].pc = "await" /\ Row(p).event = "HCM_REVERSE"
      BY DEF ConfirmReversal, Resumes
    <3> QED
      BY <3>1, InHand DEF Active
  <2> QED
    BY <1>4, <2>1 DEF Statement, StartPoll, StartRecord, MarkPendingHcm, AuditPendingHcm, CallHcm,
       Reject, MarkFailed, ScheduleRetry, SettleRequest, CloseRow, AuditVerdict, requestVars
<1> QED
  BY <1>1, <1>2, <1>3, <1>4, Kinds

\* What is approved or being approved was so before, or an approval begins.
LEMMA GrantsMove ==
  ASSUME AllOK, [Next]_vars, Lapsing, Tearing, Smooth'
  PROVE  /\ \A r \in Approved' : r \in Approved \cup Granting
         /\ \A r \in Granting' : r \in Granting \/ \E q \in Polls : Approve(q) /\ Req(q) = r
<1> USE DEF AllOK
<1>1. ASSUME NEW r \in Approved'
      PROVE  r \in Approved \cup Granting
  <2>1. ASSUME NEW p \in Polls, SettleRequest(p), poll[p].verdict = "APPROVED"
        PROVE  Req(p) \in Granting
    BY <2>1 DEF SettleRequest, Granting
  <2> QED
    BY <1>1, <2>1, SetsMove
<1>2. ASSUME NEW p \in Polls, poll'[p].pc = "settle", poll'[p].verdict = "APPROVED"
      PROVE  \/ Req(p)' \in Granting
             \/ Approve(p) /\ Req(p)' = Req(p)
  <2>1. CASE Approve(p) /\ poll'[p].row = poll[p].row
    BY <2>1, OutboxStep, SameRequest DEF Approve, Resumes, Active
  <2>2. CASE poll'[p] = poll[p]
    <3>1. Req(p)' = Req(p)
      BY <1>2, <2>2, OutboxStep, SameRequest DEF Active
    <3> QED
      BY <1>2, <2>2, <3>1 DEF Granting
  <2> QED
    BY <1>2, <2>1, <2>2, VerdictFrame
<1>3. ASSUME NEW r \in Granting'
      PROVE  r \in Granting \/ \E q \in Polls : Approve(q) /\ Req(q) = r
  <2>1. PICK p \in Polls : poll'[p].pc = "settle" /\ poll'[p].verdict = "APPROVED" /\ r = Req(p)'
    BY <1>3 DEF Granting
  <2> QED
    BY <1>2, <2>1
<1> QED
  BY <1>1, <1>3

LEMMA UsedCoversStep ==
  ASSUME AllOK, Backed, BooksBalance, Covering, [Next]_vars, Lapsing, Tearing, Smooth'
  PROVE  UsedCovers'
<1> USE ApprovedBooked DEF AllOK, Covering
<1> DEFINE granted == DaysOf(Approved)
<1>1. granted \in Nat /\ used \in Nat /\ used >= granted /\ used' \in Nat
  BY TypeStep DEF UsedCovers, TypeOK, RequestsTypeOK
<1>2. ASSUME Approved' = Approved
      PROVE  DaysOf(Approved)' = granted
  BY <1>2 DEF DaysOf
<1>3. ASSUME \A p \in Polls : ~SettleRequest(p)
      PROVE  Approved' = Approved
  BY <1>3, SetsMove
<1>4. ASSUME NEW p \in Polls, Approve(p)
      PROVE  DaysOf(Approved)' = granted /\ used' >= granted + Days(p) /\ Days(p) \in Nat
  <2>1. \A q \in Polls : ~SettleRequest(q)
    BY <1>4, ApprovalCovered DEF EventLoopFree, InTurn, SettleRequest
  <2> QED
    BY <1>2, <1>3, <1>4, <2>1, ApprovalCovered
<1>5. used' >= DaysOf(Approved)'
  <2>1. CASE \E p \in Polls : Approve(p)
    <3> HIDE DEF granted
    <3> QED
      BY <1>1, <1>4, <2>1
  <2>2. CASE ~\E p \in Polls : Approve(p)
    <3>1. UNCHANGED used
      BY <2>2, UsedMoves
    <3>2. ASSUME NEW p \in Polls, SettleRequest(p), poll[p].verdict = "APPROVED",
                 Approved' = Approved \cup {Req(p)}
          PROVE  used' >= DaysOf(Approved)'
      <4>1. used >= granted + Days(p)
        BY <3>2 DEF UsedCovers, SettleRequest
      <4>2. Req(p) \in Requests /\ Req(p) \notin Approved
        BY <3>2, VerdictIsWritten
      <4>3. DaysOf(Approved \cup {Req(p)}) = granted + Days(p)
        BY <4>2, DaysOfAdd DEF Days
      <4>4. DaysOf(Approved)' = granted + Days(p)
        BY <3>2, <4>3 DEF DaysOf
      <4> QED
        BY <3>1, <4>1, <4>4
    <3> QED
      BY <1>1, <1>2, <3>1, <3>2, SetsMove
  <2> QED
    BY <2>1, <2>2
<1>6. ASSUME NEW p \in Polls, poll'[p].pc = "settle", poll'[p].verdict = "APPROVED"
      PROVE  used' >= DaysOf(Approved)' + Days(p)'
  <2>1. CASE Approve(p) /\ poll'[p].row = poll[p].row
    <3>1. Active(p)
      BY <2>1, ApprovalCovered
    <3>2. Days(p)' = Days(p)
      BY <2>1, <3>1, OutboxStep, SameRow DEF Days
    <3> QED
      BY <1>4, <2>1, <3>2
  <2>2. CASE poll'[p] = poll[p]
    <3>1. Active(p) /\ InTurn(p)
      BY <1>6, <2>2 DEF Active, InTurn
    <3>2. Days(p)' = Days(p)
      BY <2>2, <3>1, OutboxStep, SameRow DEF Days
    <3>3. \A q \in Polls : ~Approve(q)
      BY <3>1 DEF Approve, Resumes, EventLoopFree
    <3>4. \A q \in Polls : ~SettleRequest(q)
      <4> SUFFICES ASSUME NEW q \in Polls, SettleRequest(q) PROVE FALSE
        OBVIOUS
      <4>1. q = p
        BY <3>1, OthersWait DEF TurnInv, Statement
      <4>2. poll'[p].pc = "close"
        BY <4>1, VerdictIsWritten, PollType DEF PollRecord
      <4> QED
        BY <1>6, <4>2
    <3>5. UNCHANGED used /\ Approved' = Approved
      BY <1>3, <3>3, <3>4, UsedMoves
    <3>6. used >= granted + Days(p)
      BY <1>6, <2>2 DEF UsedCovers
    <3> QED
      BY <1>2, <3>2, <3>5, <3>6
  <2> QED
    BY <1>6, <2>1, <2>2, VerdictFrame
<1> QED
  BY <1>5, <1>6 DEF UsedCovers

\* A figure covers what the HCM had booked, and that covers what is approved.
LEMMA FiguresCoverStep ==
  ASSUME AllOK, Backed, BooksBalance, BooksBalance', Covering, [Next]_vars, Lapsing, Tearing,
         Counting, Smooth', ~overtaken'
  PROVE  FiguresCover'
<1> USE ApprovedBooked DEF AllOK, Covering
<1>1. ASSUME NEW p \in Polls, Holds(p, {"DUPLICATE"})'
      PROVE  poll'[p].reply.used = Absent
  <2>1. CASE \E reply \in Replies : Answer(p, reply)
    <3>1. PICK reply \in Replies : Answer(p, reply)
      BY <2>1
    <3>2. poll'[p].reply = reply
      BY <3>1, PollType DEF Answer, TypeOK, PollRecord
    <3> QED
      BY <1>1, <3>2 DEF Holds, Replies, Reply
  <2>2. CASE poll'[p] = poll[p]
    <3>1. Active(p)
      BY <1>1, <2>2 DEF Holds, Active
    <3>2. Row(p)'.event = Row(p).event
      BY <2>2, <3>1, OutboxStep, SameRow
    <3> QED
      BY <1>1, <2>2, <3>2 DEF Holds, FiguresCover
  <2> QED
    BY <1>1, <2>1, <2>2, AwaitFrame DEF Holds
<1>2. ASSUME NEW q \in Polls, Approve(q)
      PROVE  Req(q) \in Booked
  <2>1. Holds(q, {"OK", "DUPLICATE"}) /\ Active(q)
    BY <1>2 DEF Approve, Resumes, Holds, Active
  <2>2. hcmTx[Req(q)] # "NONE" /\ Req(q) \in Requests
    BY <2>1, ActiveRow DEF Backed, AnswerIsBacked
  <2> QED
    BY <2>2 DEF Booked, NoneReversed, TypeOK, LedgerTypeOK
<1>3. Granting \subseteq Booked
  <2> SUFFICES ASSUME NEW p \in Polls, poll[p].pc = "settle", poll[p].verdict = "APPROVED"
               PROVE  Req(p) \in Booked
    BY DEF Granting
  <2>1. hcmTx[Req(p)] # "NONE" /\ Req(p) \in Requests
    BY ActiveRow DEF Backed, VerdictIsBacked, Active
  <2> QED
    BY <2>1 DEF Booked, NoneReversed, TypeOK, LedgerTypeOK
<1>4. Approved' \cup Granting' \subseteq Booked
  BY <1>2, <1>3, GrantsMove
<1>5. ASSUME NEW p \in Polls, HasFigure(p)', NEW reply \in Replies, Answer(p, reply)
      PROVE  /\ counted'[p] \in SUBSET Requests /\ IsFiniteSet(counted'[p])
             /\ poll'[p].reply.used >= DaysOf(counted'[p])
             /\ Approved' \cup Granting' \cup {Req(p)'} \subseteq counted'[p]
  <2>1. /\ Active(p) /\ poll'[p].reply = reply /\ poll'[p].row = poll[p].row
        /\ poll[p].pc = "await" /\ poll[p].reply = Sent
    BY <1>5, PollType DEF Answer, Unanswered, Active, TypeOK, PollRecord
  <2>2. ~HasFigure(p)
    BY <2>1 DEF HasFigure, Sent, Reply
  <2>3. counted'[p] = Booked'
    BY <1>5, <2>2 DEF Counting
  <2>4. Deduct(Req(p), reply) /\ reply.kind = "OK" /\ Req(p) \in Requests
    BY <1>5, <2>1, InHand DEF Answer, HcmHandles, Row, Req, HasFigure
  <2>5. /\ reply.used = hcmUsed' /\ Booked' = Booked \cup {Req(p)}
    BY <2>4 DEF Deduct, Reply, Booked, TypeOK, LedgerTypeOK
  <2>6. Booked' \in SUBSET Requests /\ IsFiniteSet(Booked') /\ hcmUsed' >= DaysOf(Booked')
    BY DEF BooksBalance, Booked, DaysOf
  <2>7. Req(p)' = Req(p)
    BY <2>1, OutboxStep, SameRow
  <2> QED
    BY <1>4, <2>1, <2>3, <2>5, <2>6, <2>7
<1>6. ASSUME NEW p \in Polls, HasFigure(p)', poll'[p] = poll[p]
      PROVE  /\ counted'[p] \in SUBSET Requests /\ IsFiniteSet(counted'[p])
             /\ poll'[p].reply.used >= DaysOf(counted'[p])
             /\ Approved' \cup Granting' \cup {Req(p)'} \subseteq counted'[p]
  <2>1. HasFigure(p) /\ Active(p) /\ poll[p].pc = "await"
    BY <1>6 DEF HasFigure, Active
  <2>2. counted'[p] = counted[p]
    BY <1>6, <2>1 DEF Counting
  <2>3. Req(p)' = Req(p)
    BY <1>6, <2>1, OutboxStep, SameRow
  <2>4. ASSUME NEW q \in Polls, Approve(q)
        PROVE  Req(q) \in counted[p]
    <3>1. q # p
      <4>1. poll'[q].pc = "settle"
        BY <2>4, SettlePoll DEF Approve
      <4> QED
        BY <1>6, <2>1, <4>1
    <3> QED
      BY <2>1, <2>4, <3>1 DEF Counting, Overtakes
  <2> QED
    BY <1>6, <2>1, <2>2, <2>3, <2>4, GrantsMove DEF FiguresCover
<1>7. ASSUME NEW p \in Polls, HasFigure(p)'
      PROVE  poll'[p] = poll[p] \/ \E reply \in Replies : Answer(p, reply)
  BY <1>7, AwaitFrame DEF HasFigure
<1>8. \A p \in Polls : HasFigure(p)' =>
        /\ counted'[p] \in SUBSET Requests /\ IsFiniteSet(counted'[p])
        /\ poll'[p].reply.used >= DaysOf(counted'[p])
        /\ Approved' \cup Granting' \cup {Req(p)'} \subseteq counted'[p]
  BY <1>5, <1>6, <1>7
<1> QED
  BY <1>1, <1>8 DEF FiguresCover, DaysOf

\* Everything the days rest on.
DaysInv == All /\ Backed /\ BooksBalance /\ Reservations /\ Covered

LEMMA DaysStep == DaysInv /\ HistoryStep => DaysInv'
<1> SUFFICES ASSUME DaysInv, HistoryStep PROVE DaysInv'
  OBVIOUS
<1>1. TypeOK /\ [Next]_vars /\ Lapsing /\ Tearing /\ Counting
  BY HistoryMoves, HistoryCounts DEF DaysInv, All
<1>2. All' /\ Backed' /\ BooksBalance' /\ Reservations'
  BY <1>1, AllStep, BackedStep, BooksStep, ReservationsStep DEF DaysInv
<1>3. ASSUME Smooth', ~overtaken'
      PROVE  Covering'
  <2>1. AllOK /\ Backed /\ BooksBalance /\ Covering
    BY <1>1, <1>3, SmoothStep DEF DaysInv, All, AllOK, Lifelines, Reservations, Covered, Counting
  <2> QED
    BY <1>1, <1>2, <1>3, <2>1, NoneReversedStep, UsedCoversStep, FiguresCoverStep, PromisedStep
       DEF Covering
<1> QED
  BY <1>2, <1>3 DEF DaysInv, Covered

\* Any number of overlapping polls promise no more days than the entitlement,
\* whatever HR books behind the service's back and whichever calls are lost, late,
\* repeated or refused, through exhausted rows and crashes, unless a row lapsed, an
\* approval overtook an answer, a crash tore a turn or something was cancelled.
THEOREM NoDayTwice == HistorySpec => []NoOverbookingInOrder
<1>1. HistoryInit => DaysInv
  BY AllInit, BackedInit, BooksInit, ReservedInit, CoveringInit
     DEF HistoryInit, DaysInv, Reservations, Covered
<1>2. DaysInv => NoOverbookingInOrder
  <2> SUFFICES ASSUME DaysInv, Smooth, ~overtaken PROVE NoOverbooking
    BY DEF Smooth, NoOverbookingInOrder
  <2>1. AllOK /\ Backed /\ BooksBalance /\ Covering
    BY DEF DaysInv, All, AllOK, Lifelines, Orderly, Smooth, Reservations, Covered
  <2>2. DaysOf(InFlight \cup Approved) = DaysOf(InFlight) + DaysOf(Approved)
    BY <2>1, ApprovedBooked, DaysOfUnion DEF Covering
  <2>3. InState({"SUBMITTED", "PENDING_HCM", "APPROVED", "CANCELLING"}) = InFlight \cup Approved
    BY DEF InState, InFlight, Approved
  <2> QED
    BY <2>1, <2>2, <2>3 DEF Covering, Promised, NoOverbooking
<1> QED
  BY <1>1, <1>2, DaysStep, PTL DEF HistorySpec, HistoryStep
=============================================================================
