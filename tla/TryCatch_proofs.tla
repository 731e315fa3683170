--------------------------- MODULE TryCatch_proofs ---------------------------
(***************************************************************************)
(* TryCatch for programs of any length, with any nesting and any handler   *)
(* limit, that leave a try block only at its end or by a throw: the        *)
(* runtime's handler stack is the active try blocks and a throw reaches    *)
(* the nearest one.                                                        *)
(***************************************************************************)
EXTENDS TryCatch, TLAPS

\* Entries are named in the order in which they were entered.
Ordered ==
    /\ \A i, k \in DOMAIN ehChain : i < k => ehChain[i].id < ehChain[k].id
    /\ \A i \in DOMAIN ehChain : ehChain[i].id < ehNext

TryInv ==
    /\ TryTypeOK
    /\ Ordered
    /\ HandlersAreActiveTries

\* The initial states satisfy the inductive invariant.
LEMMA TryInvInit == TryInit => TryInv
  BY TryAssumption
  DEF TryInit, TryInv, TryTypeOK, Ordered, HandlersAreActiveTries, Active, Running

\* A prefix of the chain is the chain, up to its length.
LEMMA Prefix ==
  ASSUME TryTypeOK, NEW n \in 0..Len(ehChain)
  PROVE  /\ Upto(n) \in Seq(Entry)
         /\ Len(Upto(n)) = n
         /\ DOMAIN Upto(n) = 1..n
         /\ \A i \in 1..n : Upto(n)[i] = ehChain[i]
  BY DEF TryTypeOK, Upto

\* Entering a statement adds one entry at the end, with a new name.
LEMMA EnterShape ==
  ASSUME TryTypeOK, NEW k \in Kinds, NEW f \in BOOLEAN, Enter(k, f)
  PROVE  /\ ehChain' \in Seq(Entry)
         /\ ehNext' = ehNext + 1
         /\ ehNext' \in Nat
         /\ Len(ehChain') = Len(ehChain) + 1
         /\ DOMAIN ehChain = 1..Len(ehChain)
         /\ DOMAIN ehChain' = 1..(Len(ehChain) + 1)
         /\ \A i \in 1..Len(ehChain) : ehChain'[i] = ehChain[i]
         /\ ehChain'[Len(ehChain) + 1].id = ehNext
         /\ ehChain'[Len(ehChain) + 1].kind = k
         /\ Len(ehChain) \in Nat
  <1>1. [id |-> ehNext, kind |-> k, fin |-> f] \in Entry
    BY DEF TryTypeOK, Entry
  <1>2. PICK e \in Entry : e = [id |-> ehNext, kind |-> k, fin |-> f]
    BY <1>1
  <1>3. /\ ehChain' = Append(ehChain, e)
        /\ ehNext' = ehNext + 1
        /\ e.id = ehNext /\ e.kind = k
    BY <1>2 DEF Enter
  <1>4. /\ ehChain' \in Seq(Entry)
        /\ Len(ehChain') = Len(ehChain) + 1
        /\ DOMAIN ehChain = 1..Len(ehChain)
        /\ DOMAIN ehChain' = 1..(Len(ehChain) + 1)
        /\ \A i \in 1..Len(ehChain) : ehChain'[i] = ehChain[i]
        /\ ehChain'[Len(ehChain) + 1] = e
        /\ Len(ehChain) \in Nat
    BY <1>3 DEF TryTypeOK
  <1>5. ehNext' \in Nat
    BY <1>3 DEF TryTypeOK
  <1>6. QED
    BY <1>3, <1>4, <1>5, Zenon

\* Adding an entry with the next name keeps the order.
LEMMA OrderedGrows ==
  ASSUME TryInv, ehNext' = ehNext + 1, NEW L \in Nat, L = Len(ehChain),
         DOMAIN ehChain = 1..L, DOMAIN ehChain' = 1..(L + 1),
         \A i \in 1..L : ehChain'[i] = ehChain[i],
         ehChain'[L + 1].id = ehNext
  PROVE  Ordered'
<1>1. ehNext \in Nat /\ \A i \in 1..L : ehChain[i].id \in Nat
  <2>1. \A i \in 1..L : ehChain[i] \in Entry
    BY DEF TryInv, TryTypeOK
  <2>2. QED
    BY <2>1 DEF TryInv, TryTypeOK, Entry
<1>2. \A i \in 1..L : ehChain'[i].id < ehNext
  BY DEF TryInv, Ordered
<1>3. \A i \in DOMAIN ehChain' : ehChain'[i].id < ehNext'
  BY <1>1, <1>2
<1>4. ASSUME NEW i \in DOMAIN ehChain', NEW k \in DOMAIN ehChain', i < k
      PROVE  ehChain'[i].id < ehChain'[k].id
  <2>1. i \in 1..L
    BY <1>4
  <2>2. CASE k = L + 1
    BY <1>2, <2>1, <2>2
  <2>3. CASE k \in 1..L
    BY <1>4, <2>1, <2>3 DEF TryInv, Ordered
  <2>4. QED
    BY <2>2, <2>3
<1>5. QED
  BY <1>3, <1>4 DEF Ordered

\* A step that keeps the active tries and the handlers keeps their relation.
LEMMA SameTries ==
  ASSUME TryInv, Running, ehHandlers' = ehHandlers, Active' = Active,
         \A n \in Active : ehChain'[n].id = ehChain[n].id
  PROVE  HandlersAreActiveTries'
  BY DEF TryInv, HandlersAreActiveTries

\* Leaving for the position n, over entries that are no tries, keeps the
\* invariant.
LEMMA CutPreserves ==
  ASSUME TryInv, Running, NEW n \in 0..Len(ehChain),
         \A i \in (n + 1)..Len(ehChain) : ehChain[i].kind # "try",
         ehChain' = Upto(n), UNCHANGED <<ehHandlers, ehNext, ehPc>>
  PROVE  TryInv'
<1>1. /\ ehChain' \in Seq(Entry)
      /\ DOMAIN ehChain' = 1..n
      /\ DOMAIN ehChain = 1..Len(ehChain)
      /\ Len(ehChain) \in Nat
      /\ \A i \in 1..n : ehChain'[i] = ehChain[i]
  BY Prefix DEF TryInv, TryTypeOK
<1>2. TryTypeOK'
  BY <1>1 DEF TryInv, TryTypeOK
<1>3. Ordered'
  BY <1>1 DEF TryInv, Ordered
<1>4. Active' = Active
  BY <1>1 DEF Active
<1>5. HandlersAreActiveTries'
  BY <1>1, <1>4, SameTries DEF Active
<1>6. QED
  BY <1>2, <1>3, <1>5 DEF TryInv

\* Falling through keeps all but the last entry, which goes or becomes a
\* finally block of the same name.
LEMMA FallThroughShape ==
  ASSUME TryTypeOK, ehChain # <<>>, FallThrough, NEW L, L = Len(ehChain)
  PROVE  /\ L \in DOMAIN ehChain /\ L \notin 1..(L - 1)
         /\ ehChain' \in Seq(Entry)
         /\ \A i \in DOMAIN ehChain : i \in 1..(L - 1) \/ i = L
         /\ \A i \in 1..(L - 1) : i \in DOMAIN ehChain'
         /\ \A i \in 1..(L - 1) : ehChain'[i] = ehChain[i] /\ i < L
         /\ \A i \in DOMAIN ehChain' :
               i \in 1..(L - 1) \/ (i = L /\ ehChain'[L].kind = "finally")
         /\ \A i \in DOMAIN ehChain' :
               i \in DOMAIN ehChain /\ ehChain'[i].id = ehChain[i].id
<1>1. /\ Len(ehChain) \in Nat \ {0}
      /\ DOMAIN ehChain = 1..Len(ehChain)
      /\ ehChain[Len(ehChain)] \in Entry
  BY DEF TryTypeOK
<1>2. PICK s : s = Upto(Len(ehChain) - 1)
  OBVIOUS
<1>3. /\ s \in Seq(Entry)
      /\ Len(s) = Len(ehChain) - 1
      /\ DOMAIN s = 1..(Len(ehChain) - 1)
      /\ \A i \in 1..(Len(ehChain) - 1) : s[i] = ehChain[i]
  BY <1>1, <1>2 DEF TryTypeOK, Upto
<1>4. PICK f \in Entry : f = [id |-> ehChain[Len(ehChain)].id, kind |-> "finally",
                             fin |-> FALSE]
  BY <1>1 DEF Entry, Kinds
<1>5. f.id = ehChain[Len(ehChain)].id /\ f.kind = "finally"
  BY <1>4
<1>6. ehChain' = Append(s, f) \/ ehChain' = s
  BY <1>2, <1>4 DEF FallThrough
<1>7. /\ L \in DOMAIN ehChain /\ L \notin 1..(L - 1)
      /\ \A i \in DOMAIN ehChain : i \in 1..(L - 1) \/ i = L
      /\ \A i \in 1..(L - 1) : i < L /\ i \in DOMAIN ehChain
  BY <1>1
<1>8. CASE ehChain' = s
  <2>1. ehChain' \in Seq(Entry) /\ DOMAIN ehChain' = 1..(L - 1)
    BY <1>3, <1>8
  <2>2. \A i \in 1..(L - 1) : ehChain'[i] = ehChain[i]
    BY <1>3, <1>8
  <2>3. QED
    BY <1>7, <2>1, <2>2, Zenon
<1>9. CASE ehChain' = Append(s, f)
  <2>1. L - 1 + 1 = L
    BY <1>1
  <2>2. /\ ehChain' \in Seq(Entry)
        /\ DOMAIN ehChain' = 1..(L - 1 + 1)
        /\ \A i \in 1..(L - 1) : ehChain'[i] = s[i]
        /\ ehChain'[L - 1 + 1] = f
    BY <1>3, <1>9
  <2>3. ehChain'[L] = f
    BY <2>1, <2>2, Zenon
  <2>4. \A i \in 1..(L - 1) : ehChain'[i] = ehChain[i]
    BY <1>3, <2>2, Zenon
  <2>5. DOMAIN ehChain' = DOMAIN ehChain
    BY <1>1, <2>1, <2>2, Zenon
  <2>6. QED
    BY <1>5, <1>7, <2>2, <2>3, <2>4, <2>5, Zenon
<1>10. QED
  BY <1>6, <1>8, <1>9, Zenon

\* With no early exit, no jump crosses a try block.
LEMMA NoTrySkipped == EarlyExit = FALSE => "try" \notin Skippable
  BY DEF Skippable

\* A call or a loop is entered: no try more, no handler more.
LEMMA PlainEnterPreserves ==
  ASSUME TryInv, Call \/ EnterLoop
  PROVE  TryInv'
<1>1. PICK k \in {"call", "loop"} : Enter(k, FALSE)
  BY DEF Call, EnterLoop
<1>2. k \in Kinds /\ Running /\ UNCHANGED <<ehHandlers, ehPc>>
  BY DEF Kinds, Call, EnterLoop
<1>3. /\ ehChain' \in Seq(Entry)
      /\ ehNext' = ehNext + 1
      /\ ehNext' \in Nat
      /\ DOMAIN ehChain = 1..Len(ehChain)
      /\ DOMAIN ehChain' = 1..(Len(ehChain) + 1)
      /\ \A i \in 1..Len(ehChain) : ehChain'[i] = ehChain[i]
      /\ ehChain'[Len(ehChain) + 1].id = ehNext
      /\ ehChain'[Len(ehChain) + 1].kind = k
      /\ Len(ehChain) \in Nat
  BY <1>1, <1>2, EnterShape DEF TryInv, TryTypeOK
<1>4. TryTypeOK'
  BY <1>2, <1>3 DEF TryInv, TryTypeOK
<1>5. Ordered'
  BY <1>3, OrderedGrows
<1>6. Active' = Active
  BY <1>3 DEF Active
<1>7. HandlersAreActiveTries'
  BY <1>2, <1>3, <1>6, SameTries DEF Active
<1>8. QED
  BY <1>4, <1>5, <1>7 DEF TryInv

\* A try is entered: its handler goes on top, or setjmp gets a null buffer.
LEMMA EnterTryPreserves ==
  ASSUME TryInv, EnterTry
  PROVE  TryInv'
<1> DEFINE L == Len(ehChain)
<1>1. PICK f \in BOOLEAN : Enter("try", f)
  BY DEF EnterTry
<1>2. /\ ehChain' \in Seq(Entry)
      /\ ehNext' = ehNext + 1
      /\ ehNext' \in Nat
      /\ DOMAIN ehChain = 1..L
      /\ DOMAIN ehChain' = 1..(L + 1)
      /\ \A i \in 1..L : ehChain'[i] = ehChain[i]
      /\ ehChain'[L + 1].id = ehNext
      /\ ehChain'[L + 1].kind = "try"
      /\ L \in Nat
  BY <1>1, EnterShape DEF TryInv, TryTypeOK, Kinds
<1>3. Ordered'
  BY <1>2, OrderedGrows
<1>4. CASE Len(ehHandlers) >= EhMax
  <2>1. ehPc' = "overflow" /\ ehHandlers' = ehHandlers
    BY <1>4 DEF EnterTry
  <2>2. TryTypeOK'
    BY <1>2, <2>1 DEF TryInv, TryTypeOK
  <2>3. HandlersAreActiveTries'
    BY <2>1 DEF HandlersAreActiveTries, Running
  <2>4. QED
    BY <1>3, <2>2, <2>3 DEF TryInv
<1>5. CASE ~(Len(ehHandlers) >= EhMax)
  <2>1. ehHandlers' = Append(ehHandlers, ehNext) /\ ehPc' = ehPc /\ Running
    BY <1>5 DEF EnterTry
  <2>2. /\ ehHandlers' \in Seq(Nat)
        /\ Len(ehHandlers') = Len(ehHandlers) + 1
        /\ DOMAIN ehHandlers = 1..Len(ehHandlers)
        /\ DOMAIN ehHandlers' = 1..(Len(ehHandlers) + 1)
        /\ \A i \in 1..Len(ehHandlers) : ehHandlers'[i] = ehHandlers[i]
        /\ ehHandlers'[Len(ehHandlers) + 1] = ehNext
        /\ Len(ehHandlers) \in Nat
    BY <2>1 DEF TryInv, TryTypeOK
  <2>3. TryTypeOK'
    BY <1>2, <1>5, <2>1, <2>2, TryAssumption DEF TryInv, TryTypeOK
  <2>4. Active' = Active \cup {L + 1} /\ L + 1 \notin Active
    BY <1>2 DEF Active
  <2>5. \A i \in DOMAIN ehHandlers : ehHandlers[i] < ehNext
    BY <2>1 DEF TryInv, Ordered, HandlersAreActiveTries, Active
  <2>6. \A i \in DOMAIN ehHandlers' : \E n \in Active' : ehChain'[n].id = ehHandlers'[i]
    <3> SUFFICES ASSUME NEW i \in DOMAIN ehHandlers'
                 PROVE  \E n \in Active' : ehChain'[n].id = ehHandlers'[i]
      OBVIOUS
    <3>1. CASE i = Len(ehHandlers) + 1
      <4>1. L + 1 \in Active' /\ ehChain'[L + 1].id = ehHandlers'[i]
        BY <1>2, <2>2, <2>4, <3>1
      <4>2. QED
        BY <4>1
    <3>2. CASE i \in DOMAIN ehHandlers
      <4>1. PICK n \in Active : ehChain[n].id = ehHandlers[i]
        BY <2>1, <3>2 DEF TryInv, HandlersAreActiveTries
      <4>2. n \in Active' /\ ehChain'[n].id = ehHandlers'[i]
        BY <1>2, <2>2, <2>4, <3>2, <4>1 DEF Active
      <4>3. QED
        BY <4>2
    <3>3. QED
      BY <2>2, <3>1, <3>2
  <2>7. \A n \in Active' : \E i \in DOMAIN ehHandlers' : ehChain'[n].id = ehHandlers'[i]
    <3> SUFFICES ASSUME NEW n \in Active'
                 PROVE  \E i \in DOMAIN ehHandlers' : ehChain'[n].id = ehHandlers'[i]
      OBVIOUS
    <3>1. CASE n = L + 1
      <4>1. /\ Len(ehHandlers) + 1 \in DOMAIN ehHandlers'
            /\ ehChain'[n].id = ehHandlers'[Len(ehHandlers) + 1]
        BY <1>2, <2>2, <3>1
      <4>2. QED
        BY <4>1
    <3>2. CASE n \in Active
      <4>1. PICK i \in DOMAIN ehHandlers : ehChain[n].id = ehHandlers[i]
        BY <2>1, <3>2 DEF TryInv, HandlersAreActiveTries
      <4>2. i \in DOMAIN ehHandlers' /\ ehChain'[n].id = ehHandlers'[i]
        BY <1>2, <2>2, <3>2, <4>1 DEF Active
      <4>3. QED
        BY <4>2
    <3>3. QED
      BY <2>4, <3>1, <3>2
  <2>8. \A i, k \in DOMAIN ehHandlers' : i < k => ehHandlers'[i] < ehHandlers'[k]
    BY <2>1, <2>2, <2>5 DEF TryInv, TryTypeOK, HandlersAreActiveTries
  <2>9. QED
    BY <1>3, <2>3, <2>6, <2>7, <2>8 DEF TryInv, HandlersAreActiveTries
<1>6. QED
  BY <1>4, <1>5

\* The handlers below the top one have smaller names.
LEMMA BelowTop ==
  ASSUME TryInv, Running, NEW i \in DOMAIN ehHandlers, i # Len(ehHandlers)
  PROVE  /\ ehHandlers[i] < ehHandlers[Len(ehHandlers)]
         /\ ehHandlers[i] \in Nat
         /\ ehHandlers[Len(ehHandlers)] \in Nat
<1>1. /\ ehHandlers \in Seq(Nat) /\ i \in 1..Len(ehHandlers)
      /\ i < Len(ehHandlers) /\ Len(ehHandlers) \in DOMAIN ehHandlers
  BY DEF TryInv, TryTypeOK
<1>2. \A k \in DOMAIN ehHandlers : i < k => ehHandlers[i] < ehHandlers[k]
  BY DEF TryInv, HandlersAreActiveTries
<1>3. QED
  BY <1>1, <1>2

\* The innermost active try owns the top handler.
LEMMA TopHandler ==
  ASSUME TryInv, Running, NEW n \in Active, \A k \in Active : k <= n
  PROVE  /\ ehHandlers # <<>>
         /\ ehChain[n].id = ehHandlers[Len(ehHandlers)]
<1>1. PICK i \in DOMAIN ehHandlers : ehChain[n].id = ehHandlers[i]
  BY DEF TryInv, HandlersAreActiveTries
<1>2. /\ ehHandlers \in Seq(Nat) /\ DOMAIN ehHandlers = 1..Len(ehHandlers)
      /\ Len(ehHandlers) \in Nat /\ i <= Len(ehHandlers) /\ Len(ehHandlers) \in DOMAIN ehHandlers
      /\ n \in Nat
  BY <1>1 DEF TryInv, TryTypeOK, Active
<1>3. PICK m \in Active : ehChain[m].id = ehHandlers[Len(ehHandlers)]
  BY <1>2 DEF TryInv, HandlersAreActiveTries
<1>4. m <= n /\ m \in Nat
  BY DEF Active, TryInv, TryTypeOK
<1>5. CASE i = Len(ehHandlers)
  BY <1>1, <1>2, <1>5
<1>6. CASE i < Len(ehHandlers)
  <2>1. ehHandlers[i] < ehHandlers[Len(ehHandlers)]
    BY <1>1, <1>2, <1>6, BelowTop
  <2>2. m # n
    BY <1>1, <1>2, <1>3, <2>1
  <2>3. ehChain[m].id < ehChain[n].id
    BY <1>2, <1>4, <2>2 DEF TryInv, Ordered, Active
  <2>4. ehHandlers[i] \in Nat /\ ehHandlers[Len(ehHandlers)] \in Nat
    BY <1>1, <1>2
  <2>5. QED
    BY <1>1, <1>3, <2>1, <2>3, <2>4
<1>7. QED
  BY <1>2, <1>5, <1>6

\* The try whose handler is on top is the innermost active one.
LEMMA TopIsInnermost ==
  ASSUME TryInv, Running, ehHandlers # <<>>,
         NEW n \in Active, ehChain[n].id = ehHandlers[Len(ehHandlers)]
  PROVE  \A k \in Active : k <= n
<1> SUFFICES ASSUME NEW k \in Active, ~(k <= n)
             PROVE  FALSE
  OBVIOUS
<1>1. k \in Nat /\ n \in Nat /\ n < k
  BY DEF Active, TryInv, TryTypeOK
<1>2. ehChain[n].id < ehChain[k].id
  BY <1>1 DEF TryInv, Ordered, Active
<1>3. PICK i \in DOMAIN ehHandlers : ehChain[k].id = ehHandlers[i]
  BY DEF TryInv, HandlersAreActiveTries
<1>4. /\ ehHandlers \in Seq(Nat) /\ DOMAIN ehHandlers = 1..Len(ehHandlers)
      /\ Len(ehHandlers) \in Nat /\ i <= Len(ehHandlers) /\ Len(ehHandlers) \in DOMAIN ehHandlers
      /\ i \in Nat
  BY <1>3 DEF TryInv, TryTypeOK
<1>5. ehHandlers[Len(ehHandlers)] < ehHandlers[i]
  BY <1>2, <1>3
<1>6. ehHandlers[i] \in Nat /\ ehHandlers[Len(ehHandlers)] \in Nat
  BY <1>3, <1>4
<1>7. i # Len(ehHandlers)
  BY <1>5, <1>6
<1>8. ehHandlers[i] < ehHandlers[Len(ehHandlers)]
  BY <1>7, BelowTop
<1>9. QED
  BY <1>5, <1>6, <1>8

\* When the innermost try goes and the top handler with it, the rest match.
LEMMA PopPreserves ==
  ASSUME TryInv, Running, ehHandlers # <<>>,
         NEW n \in Active, ehChain[n].id = ehHandlers[Len(ehHandlers)],
         Active' = Active \ {n},
         \A k \in Active : k < n => ehChain'[k].id = ehChain[k].id,
         ehHandlers' = SubSeq(ehHandlers, 1, Len(ehHandlers) - 1)
  PROVE  /\ HandlersAreActiveTries'
         /\ ehHandlers' \in Seq(Nat)
         /\ Len(ehHandlers') <= EhMax
<1> DEFINE top == Len(ehHandlers)
<1>1. /\ ehHandlers \in Seq(Nat) /\ top \in Nat \ {0}
      /\ DOMAIN ehHandlers = 1..top /\ top <= EhMax
  BY DEF TryInv, TryTypeOK
<1>2. /\ ehHandlers' \in Seq(Nat)
      /\ Len(ehHandlers') = top - 1
      /\ DOMAIN ehHandlers' = 1..(top - 1)
      /\ \A i \in 1..(top - 1) : ehHandlers'[i] = ehHandlers[i]
  BY <1>1
<1>3. Len(ehHandlers') <= EhMax
  BY <1>1, <1>2, TryAssumption
<1>4. \A k \in Active : k # n => k < n /\ ehChain'[k].id = ehChain[k].id
  BY TopIsInnermost DEF Active, TryInv, TryTypeOK
<1>5. \A i, k \in DOMAIN ehHandlers' : i < k => ehHandlers'[i] < ehHandlers'[k]
  BY <1>1, <1>2 DEF TryInv, HandlersAreActiveTries
<1>6. ASSUME NEW i \in DOMAIN ehHandlers'
      PROVE  \E k \in Active' : ehChain'[k].id = ehHandlers'[i]
  <2>1. i \in DOMAIN ehHandlers /\ i < top /\ ehHandlers'[i] = ehHandlers[i]
    BY <1>1, <1>2
  <2>2. PICK k \in Active : ehChain[k].id = ehHandlers[i]
    BY <2>1 DEF TryInv, HandlersAreActiveTries
  <2>3. ehHandlers[i] < ehHandlers[top] /\ ehHandlers[i] \in Nat /\ ehHandlers[top] \in Nat
    <3>1. i # Len(ehHandlers)
      BY <1>1, <2>1
    <3>2. QED
      BY <2>1, <3>1, BelowTop
  <2>4. k # n
    BY <2>2, <2>3
  <2>5. k \in Active' /\ ehChain'[k].id = ehHandlers'[i]
    BY <1>4, <2>1, <2>2, <2>4
  <2>6. QED
    BY <2>5
<1>7. ASSUME NEW k \in Active'
      PROVE  \E i \in DOMAIN ehHandlers' : ehChain'[k].id = ehHandlers'[i]
  <2>1. k \in Active /\ k < n /\ ehChain'[k].id = ehChain[k].id
    BY <1>4
  <2>2. PICK i \in DOMAIN ehHandlers : ehChain[k].id = ehHandlers[i]
    BY <2>1 DEF TryInv, HandlersAreActiveTries
  <2>3. ehChain[k].id < ehChain[n].id
    BY <2>1 DEF TryInv, Ordered, Active
  <2>4. ehHandlers[i] \in Nat /\ ehHandlers[top] \in Nat
    BY <1>1, <2>2
  <2>5. i # top
    BY <2>2, <2>3, <2>4
  <2>6. i \in DOMAIN ehHandlers' /\ ehHandlers'[i] = ehHandlers[i]
    BY <1>1, <1>2, <2>2, <2>5
  <2>7. QED
    BY <2>1, <2>2, <2>6
<1>8. QED
  BY <1>2, <1>3, <1>5, <1>6, <1>7 DEF HandlersAreActiveTries

\* A try block ends: its handler is popped.
LEMMA EndTryPreserves ==
  ASSUME TryInv, EndTry
  PROVE  TryInv'
<1>0. PICK L : L = Len(ehChain)
  OBVIOUS
<1>1. /\ Running /\ ehChain # <<>> /\ ehChain[L].kind = "try" /\ FallThrough
      /\ ehNext' = ehNext /\ ehPc' = ehPc
  BY <1>0 DEF EndTry, Inside
<1>2. /\ L \in DOMAIN ehChain /\ L \notin 1..(L - 1)
      /\ ehChain' \in Seq(Entry)
      /\ \A i \in DOMAIN ehChain : i \in 1..(L - 1) \/ i = L
      /\ \A i \in 1..(L - 1) : i \in DOMAIN ehChain'
      /\ \A i \in 1..(L - 1) : ehChain'[i] = ehChain[i] /\ i < L
      /\ \A i \in DOMAIN ehChain' :
            i \in 1..(L - 1) \/ (i = L /\ ehChain'[L].kind = "finally")
      /\ \A i \in DOMAIN ehChain' :
            i \in DOMAIN ehChain /\ ehChain'[i].id = ehChain[i].id
  BY <1>0, <1>1, FallThroughShape DEF TryInv
<1>3. L \in Active /\ \A k \in Active : k = L \/ k \in 1..(L - 1)
  BY <1>1, <1>2 DEF Active
<1>4. \A k \in Active : k <= L
  <2>1. L \in Nat
    BY <1>0 DEF TryInv, TryTypeOK
  <2>2. QED
    BY <1>3, <2>1
<1>5. ehHandlers # <<>> /\ ehChain[L].id = ehHandlers[Len(ehHandlers)]
  BY <1>1, <1>3, <1>4, TopHandler
<1>6. ehHandlers' = SubSeq(ehHandlers, 1, Len(ehHandlers) - 1)
  BY <1>5 DEF EndTry
<1>7. Active' = Active \ {L}
  <2>1. \A i : i \in Active' <=> i \in DOMAIN ehChain' /\ ehChain'[i].kind = "try"
    BY DEF Active
  <2>2. \A i : i \in Active <=> i \in DOMAIN ehChain /\ ehChain[i].kind = "try"
    BY DEF Active
  <2>3. ASSUME NEW i \in Active' PROVE i \in Active \ {L}
    <3>1. i \in 1..(L - 1)
      BY <1>2, <2>1
    <3>2. QED
      BY <1>2, <2>1, <2>2, <3>1
  <2>4. ASSUME NEW i \in Active \ {L} PROVE i \in Active'
    <3>1. i \in 1..(L - 1)
      BY <1>3
    <3>2. QED
      BY <1>2, <2>1, <2>2, <3>1
  <2>5. QED
    BY <2>3, <2>4
<1>8. ASSUME NEW k \in Active, k < L
      PROVE  ehChain'[k].id = ehChain[k].id
  <2>1. L \in Nat
    BY <1>0 DEF TryInv, TryTypeOK
  <2>2. k # L
    BY <1>8, <2>1
  <2>3. ehChain'[k] = ehChain[k]
    BY <1>2, <1>3, <2>2
  <2>4. QED
    BY <2>3
<1>9. HandlersAreActiveTries' /\ ehHandlers' \in Seq(Nat) /\ Len(ehHandlers') <= EhMax
  BY <1>1, <1>3, <1>5, <1>6, <1>7, <1>8, PopPreserves
<1>10. TryTypeOK'
  BY <1>1, <1>2, <1>9 DEF TryInv, TryTypeOK
<1>11. Ordered'
  BY <1>1, <1>2 DEF TryInv, Ordered
<1>12. QED
  BY <1>9, <1>10, <1>11 DEF TryInv

\* A catch or a finally block ends: no try ends with it.
LEMMA EndCatchPreserves ==
  ASSUME TryInv, EndCatch
  PROVE  TryInv'
<1>0. PICK L : L = Len(ehChain)
  OBVIOUS
<1>1. /\ Running /\ ehChain # <<>> /\ ehChain[L].kind # "try" /\ FallThrough
      /\ ehNext' = ehNext /\ ehPc' = ehPc /\ ehHandlers' = ehHandlers
  BY <1>0 DEF EndCatch, Inside
<1>2. /\ L \in DOMAIN ehChain /\ L \notin 1..(L - 1)
      /\ ehChain' \in Seq(Entry)
      /\ \A i \in DOMAIN ehChain : i \in 1..(L - 1) \/ i = L
      /\ \A i \in 1..(L - 1) : i \in DOMAIN ehChain'
      /\ \A i \in 1..(L - 1) : ehChain'[i] = ehChain[i] /\ i < L
      /\ \A i \in DOMAIN ehChain' :
            i \in 1..(L - 1) \/ (i = L /\ ehChain'[L].kind = "finally")
      /\ \A i \in DOMAIN ehChain' :
            i \in DOMAIN ehChain /\ ehChain'[i].id = ehChain[i].id
  BY <1>0, <1>1, FallThroughShape DEF TryInv
<1>3. Ordered'
  BY <1>1, <1>2 DEF TryInv, Ordered
<1>4. Active' = Active
  <2>1. \A i : i \in Active' <=> i \in DOMAIN ehChain' /\ ehChain'[i].kind = "try"
    BY DEF Active
  <2>2. \A i : i \in Active <=> i \in DOMAIN ehChain /\ ehChain[i].kind = "try"
    BY DEF Active
  <2>3. ASSUME NEW i \in Active' PROVE i \in Active
    <3>1. i \in 1..(L - 1)
      BY <1>2, <2>1
    <3>2. QED
      BY <1>2, <2>1, <2>2, <3>1
  <2>4. ASSUME NEW i \in Active PROVE i \in Active'
    <3>1. i \in 1..(L - 1)
      BY <1>1, <1>2, <2>2
    <3>2. QED
      BY <1>2, <2>1, <2>2, <3>1
  <2>5. QED
    BY <2>3, <2>4
<1>5. \A n \in Active : ehChain'[n].id = ehChain[n].id
  BY <1>2, <1>4 DEF Active
<1>6. HandlersAreActiveTries'
  BY <1>1, <1>4, <1>5, SameTries
<1>7. TryTypeOK'
  BY <1>1, <1>2 DEF TryInv, TryTypeOK
<1>8. QED
  BY <1>3, <1>6, <1>7 DEF TryInv

\* A loop ends: no try ends with it.
LEMMA EndLoopPreserves ==
  ASSUME TryInv, EndLoop
  PROVE  TryInv'
<1>1. /\ Running /\ ehChain # <<>> /\ ehChain[Len(ehChain)].kind # "try"
      /\ ehChain' = Upto(Len(ehChain) - 1)
      /\ UNCHANGED <<ehHandlers, ehNext, ehPc>>
  BY DEF EndLoop, Inside
<1>2. Len(ehChain) \in Nat \ {0}
  BY <1>1 DEF TryInv, TryTypeOK
<1>3. PICK n \in 0..Len(ehChain) : n = Len(ehChain) - 1
  <2>1. Len(ehChain) - 1 \in 0..Len(ehChain)
    BY <1>2, SMT
  <2> QED
    BY <2>1, Zenon
<1>4. \A i \in (n + 1)..Len(ehChain) : ehChain[i].kind # "try"
  BY <1>1, <1>2, <1>3
<1>5. QED
  BY <1>1, <1>3, <1>4, CutPreserves

\* A return, break or continue that may not leave a try block leaves none.
LEMMA JumpPreserves ==
  ASSUME TryInv, EarlyExit = FALSE, TryReturn \/ LoopJump
  PROVE  TryInv'
<1>1. PICK n \in DOMAIN ehChain, stay \in {0, 1} :
         /\ Running
         /\ ehChain[n].kind \in {"call", "loop"}
         /\ \A i \in (n + 1)..Len(ehChain) : ehChain[i].kind \in Skippable
         /\ ehChain' = Upto(n - 1 + stay)
         /\ UNCHANGED <<ehHandlers, ehNext, ehPc>>
  <2>1. CASE TryReturn
    <3>1. PICK n \in DOMAIN ehChain :
             /\ ehChain[n].kind = "call"
             /\ \A i \in (n + 1)..Len(ehChain) : ehChain[i].kind \in Skippable
             /\ ehChain' = Upto(n - 1)
      BY <2>1 DEF TryReturn, Only
    <3>2. n - 1 + 0 = n - 1
      BY DEF TryInv, TryTypeOK
    <3>3. ehChain' = Upto(n - 1 + 0)
      BY <3>1, <3>2
    <3>4. Running /\ UNCHANGED <<ehHandlers, ehNext, ehPc>>
      BY <2>1 DEF TryReturn
    <3>5. QED
      BY <3>1, <3>3, <3>4
  <2>2. CASE LoopJump
    <3>1. PICK n \in DOMAIN ehChain, stay \in {0, 1} :
             /\ ehChain[n].kind = "loop"
             /\ \A i \in (n + 1)..Len(ehChain) : ehChain[i].kind \in Skippable \ {"loop"}
             /\ ehChain' = Upto(n - 1 + stay)
      BY <2>2 DEF LoopJump, Only
    <3>2. Running /\ UNCHANGED <<ehHandlers, ehNext, ehPc>>
      BY <2>2 DEF LoopJump
    <3>3. QED
      BY <3>1, <3>2
  <2>3. QED
    BY <2>1, <2>2
<1>2. n \in 1..Len(ehChain) /\ Len(ehChain) \in Nat
  BY DEF TryInv, TryTypeOK
<1>3. PICK m \in 0..Len(ehChain) : m = n - 1 + stay
  BY <1>2
<1>4. \A i \in n..Len(ehChain) : ehChain[i].kind # "try"
  <2>1. \A i \in n..Len(ehChain) : i = n \/ i \in (n + 1)..Len(ehChain)
    BY <1>2
  <2>2. QED
    BY <1>1, <2>1, NoTrySkipped
<1>5. \A i \in (m + 1)..Len(ehChain) : ehChain[i].kind # "try"
  BY <1>2, <1>3, <1>4
<1>6. QED
  BY <1>1, <1>3, <1>5, CutPreserves

\* A throw: the top handler goes, and with it the innermost try, whose catch
\* block starts.
LEMMA ThrowPreserves ==
  ASSUME TryInv, Throw
  PROVE  TryInv'
<1>1. Running /\ ehNext' = ehNext
  BY DEF Throw
<1>2. CASE ehHandlers = <<>>
  <2>1. ehPc' = "uncaught" /\ ehChain' = ehChain /\ ehHandlers' = ehHandlers
    BY <1>2 DEF Throw
  <2>2. QED
    BY <1>1, <2>1
    DEF TryInv, TryTypeOK, Ordered, HandlersAreActiveTries, Running, Active
<1>3. CASE ehHandlers # <<>>
  <2>1. Len(ehHandlers) \in DOMAIN ehHandlers
    BY <1>3 DEF TryInv, TryTypeOK
  <2>2. \E n \in Active : ehChain[n].id = ehHandlers[Len(ehHandlers)]
    BY <1>1, <2>1 DEF TryInv, HandlersAreActiveTries
  <2>3. PICK n \in Active :
           /\ ehChain[n].id = ehHandlers[Len(ehHandlers)]
           /\ ehChain' = Append(Upto(n - 1), Caught(n))
           /\ ehHandlers' = SubSeq(ehHandlers, 1, Len(ehHandlers) - 1)
           /\ ehPc' = ehPc
    BY <1>3, <2>2 DEF Throw
  <2>4. n \in 1..Len(ehChain) /\ Len(ehChain) \in Nat /\ n - 1 + 1 = n
        /\ DOMAIN ehChain = 1..Len(ehChain) /\ ehChain[n] \in Entry
    BY DEF Active, TryInv, TryTypeOK
  <2>5. PICK m \in 0..Len(ehChain) : m = n - 1
    BY <2>4
  <2>6. PICK s : s = Upto(m)
    OBVIOUS
  <2>7. /\ s \in Seq(Entry)
        /\ Len(s) = m
        /\ \A i \in 1..m : s[i] = ehChain[i]
    BY <2>6, Prefix DEF TryInv
  <2>8. PICK c \in Entry : c = Caught(n)
    BY <2>4 DEF Caught, Entry, Kinds
  <2>9. c.id = ehChain[n].id /\ c.kind = "catch"
    BY <2>8 DEF Caught
  <2>10. ehChain' = Append(s, c)
    BY <2>3, <2>5, <2>6, <2>8
  <2>11. /\ ehChain' \in Seq(Entry)
         /\ Len(ehChain') = m + 1
         /\ DOMAIN ehChain' = 1..(m + 1)
         /\ \A i \in 1..m : ehChain'[i] = s[i]
         /\ ehChain'[m + 1] = c
    BY <2>7, <2>10
  <2>12. m + 1 = n /\ m \in Nat
    BY <2>4, <2>5
  <2>13. /\ DOMAIN ehChain' = 1..n
         /\ \A i \in 1..m : ehChain'[i] = ehChain[i]
         /\ ehChain'[n].id = ehChain[n].id /\ ehChain'[n].kind = "catch"
    BY <2>7, <2>9, <2>11, <2>12, Zenon
  <2>14. \A i \in DOMAIN ehChain' : i \in DOMAIN ehChain /\ (i \in 1..m \/ i = n)
    BY <2>4, <2>12, <2>13
  <2>15. \A k \in Active : k <= n
    BY <1>1, <1>3, <2>3, TopIsInnermost
  <2>16. \A k \in Active : k = n \/ (k \in 1..m /\ k \in DOMAIN ehChain')
    BY <2>4, <2>12, <2>13, <2>15 DEF Active
  <2>17. n \notin 1..m
    BY <2>12
  <2>18. Active' = Active \ {n}
    BY <2>13, <2>14, <2>16, <2>17 DEF Active
  <2>19. \A k \in Active : k < n => ehChain'[k].id = ehChain[k].id
    BY <2>13, <2>16
  <2>20. HandlersAreActiveTries' /\ ehHandlers' \in Seq(Nat) /\ Len(ehHandlers') <= EhMax
    BY <1>1, <1>3, <2>3, <2>18, <2>19, PopPreserves
  <2>21. TryTypeOK'
    BY <1>1, <2>3, <2>11, <2>20 DEF TryInv, TryTypeOK
  <2>22. Ordered'
    <3>1. \A i \in DOMAIN ehChain' : i \in DOMAIN ehChain /\ ehChain'[i].id = ehChain[i].id
      BY <2>13, <2>14
    <3>2. QED
      BY <1>1, <3>1 DEF TryInv, Ordered
  <2>23. QED
    BY <2>20, <2>21, <2>22 DEF TryInv
<1>4. QED
  BY <1>2, <1>3

\* Every step keeps the inductive invariant.
LEMMA TryInvStep ==
  ASSUME EarlyExit = FALSE, TryInv, [TryNext]_ehVars
  PROVE  TryInv'
<1>1. CASE Call \/ EnterLoop
  BY <1>1, PlainEnterPreserves
<1>2. CASE EnterTry
  BY <1>2, EnterTryPreserves
<1>3. CASE EndTry
  BY <1>3, EndTryPreserves
<1>4. CASE EndCatch
  BY <1>4, EndCatchPreserves
<1>5. CASE EndLoop
  BY <1>5, EndLoopPreserves
<1>6. CASE TryReturn \/ LoopJump
  BY <1>6, JumpPreserves
<1>7. CASE Throw
  BY <1>7, ThrowPreserves
<1>8. CASE Over \/ UNCHANGED ehVars
  <2>1. UNCHANGED ehVars
    BY <1>8 DEF Over
  <2>2. QED
    BY <2>1
    DEF ehVars, TryInv, TryTypeOK, Ordered, HandlersAreActiveTries, Active, Running
<1>9. QED
  BY <1>1, <1>2, <1>3, <1>4, <1>5, <1>6, <1>7, <1>8 DEF TryNext

\* For programs that leave try blocks only at their end or by a throw, the
\* handler stack of aot_try_push / aot_try_pop is the active try blocks.
THEOREM HandlersMatch ==
  ASSUME EarlyExit = FALSE
  PROVE  TrySpec => [](TryTypeOK /\ HandlersAreActiveTries)
<1>1. TryInv /\ [TryNext]_ehVars => TryInv'
  BY TryInvStep
<1>2. TryInv => TryTypeOK /\ HandlersAreActiveTries
  BY DEF TryInv
<1>3. QED
  BY <1>1, <1>2, TryInvInit, PTL DEF TrySpec

\* What a throw does to the innermost active try.
LEMMA ThrowStep ==
  ASSUME TryInv, Throw
  PROVE  /\ ehPc' # "stray"
         /\ ehPc' = "uncaught" => Active = {}
         /\ \A n \in Active :
               n \in DOMAIN ehChain' /\ ehChain'[n].id = ehChain[n].id
               /\ ehChain'[n].kind = "catch" => \A k \in Active : k <= n
<1>1. Running
  BY DEF Throw
<1>2. CASE ehHandlers = <<>>
  <2>1. ehPc' = "uncaught" /\ ehChain' = ehChain
    BY <1>2 DEF Throw
  <2>2. Active = {}
    BY <1>1, <1>2 DEF TryInv, HandlersAreActiveTries
  <2>3. QED
    BY <2>1, <2>2
<1>3. CASE ehHandlers # <<>>
  <2>1. Len(ehHandlers) \in DOMAIN ehHandlers
    BY <1>3 DEF TryInv, TryTypeOK
  <2>2. \E n \in Active : ehChain[n].id = ehHandlers[Len(ehHandlers)]
    BY <1>1, <2>1 DEF TryInv, HandlersAreActiveTries
  <2>3. PICK n \in Active :
           /\ ehChain[n].id = ehHandlers[Len(ehHandlers)]
           /\ ehChain' = Append(Upto(n - 1), Caught(n))
           /\ ehPc' = ehPc
    BY <1>3, <2>2 DEF Throw
  <2>4. \A k \in Active : k <= n
    BY <1>1, <1>3, <2>3, TopIsInnermost
  <2>5. \A k \in Active : k # n /\
           k \in DOMAIN ehChain' => ehChain'[k].kind # "catch"
    <3> SUFFICES ASSUME NEW k \in Active, k # n, k \in DOMAIN ehChain'
                 PROVE  ehChain'[k].kind # "catch"
      OBVIOUS
    <3>1. n \in 1..Len(ehChain) /\ k \in 1..(n - 1) /\ Len(ehChain) \in Nat
      BY <2>4 DEF Active, TryInv, TryTypeOK
    <3>2. PICK m \in 0..Len(ehChain) : m = n - 1
      BY <3>1
    <3>3. PICK s : s = Upto(m)
      OBVIOUS
    <3>4. s \in Seq(Entry) /\ Len(s) = m /\ \A i \in 1..m : s[i] = ehChain[i]
      BY <3>3, Prefix DEF TryInv
    <3>5. k \in 1..m
      BY <3>1, <3>2
    <3>6. PICK c : c = Caught(n)
      OBVIOUS
    <3>7. ehChain' = Append(s, c)
      BY <2>3, <3>2, <3>3, <3>6
    <3>8. ehChain'[k] = s[k]
      BY <3>4, <3>5, <3>7
    <3>9. QED
      BY <3>4, <3>5, <3>8 DEF Active
  <2>6. QED
    BY <1>1, <2>3, <2>4, <2>5 DEF Running
<1>4. QED
  BY <1>2, <1>3

\* No other step starts a catch block or ends the program by an exception.
LEMMA OtherStep ==
  ASSUME TryInv, TryNext, ~Throw, ~Over
  PROVE  /\ ehPc' \in {"run", "overflow"}
         /\ \A n \in Active :
               n \in DOMAIN ehChain' => ehChain'[n].kind # "catch"
<1>1. CASE Call \/ EnterLoop \/ EnterTry
  <2>1. PICK k \in Kinds, f \in BOOLEAN : Enter(k, f)
    BY <1>1 DEF Call, EnterLoop, EnterTry, Kinds
  <2>2. \A i \in DOMAIN ehChain : ehChain'[i] = ehChain[i]
    BY <2>1, EnterShape DEF TryInv
  <2>3. ehPc' \in {"run", "overflow"}
    BY <1>1 DEF Call, EnterLoop, EnterTry, Running
  <2>4. QED
    BY <2>2, <2>3 DEF Active
<1>2. CASE EndTry \/ EndCatch
  <2>1. FallThrough /\ ehChain # <<>> /\ ehPc' = "run"
    BY <1>2 DEF EndTry, EndCatch, Inside, Running
  <2>2. PICK L : L = Len(ehChain)
    OBVIOUS
  <2>3. /\ \A i \in 1..(L - 1) : ehChain'[i] = ehChain[i]
        /\ \A i \in DOMAIN ehChain' :
              i \in 1..(L - 1) \/ (i = L /\ ehChain'[L].kind = "finally")
    BY <2>1, <2>2, FallThroughShape DEF TryInv
  <2>4. QED
    BY <2>1, <2>3 DEF Active
<1>3. CASE EndLoop \/ TryReturn \/ LoopJump
  <2>1. PICK n \in 0..Len(ehChain) : ehChain' = Upto(n)
    <3>1. Len(ehChain) \in Nat /\ \A n \in DOMAIN ehChain : n \in 1..Len(ehChain)
      BY DEF TryInv, TryTypeOK
    <3>2. CASE EndLoop
      <4>1. ehChain # <<>> /\ ehChain' = Upto(Len(ehChain) - 1)
        BY <3>2 DEF EndLoop, Inside
      <4>2. Len(ehChain) - 1 \in 0..Len(ehChain)
        BY <4>1 DEF TryInv, TryTypeOK
      <4>3. QED
        BY <4>1, <4>2
    <3>3. CASE TryReturn
      <4>1. PICK n \in DOMAIN ehChain : ehChain' = Upto(n - 1)
        BY <3>3 DEF TryReturn
      <4>2. n - 1 \in 0..Len(ehChain)
        BY <3>1
      <4>3. QED
        BY <4>1, <4>2
    <3>4. CASE LoopJump
      <4>1. PICK n \in DOMAIN ehChain, stay \in {0, 1} : ehChain' = Upto(n - 1 + stay)
        BY <3>4 DEF LoopJump
      <4>2. n - 1 + stay \in 0..Len(ehChain)
        BY <3>1
      <4>3. QED
        BY <4>1, <4>2
    <3>5. QED
      BY <1>3, <3>2, <3>3, <3>4
  <2>2. \A i \in DOMAIN ehChain' : ehChain'[i] = ehChain[i]
    BY <2>1, Prefix DEF TryInv
  <2>3. ehPc' = "run"
    BY <1>3 DEF EndLoop, TryReturn, LoopJump, Running
  <2>4. QED
    BY <2>2, <2>3 DEF Active
<1>4. QED
  BY <1>1, <1>2, <1>3 DEF TryNext

\* For such programs a throw is caught by the innermost active try, and ends
\* the program only when there is none (STATUS.md: "the nearest catch").
THEOREM ThrowReachesNearest ==
  ASSUME EarlyExit = FALSE
  PROVE  TrySpec => ThrowToNearest
<1> DEFINE Nearest ==
      /\ ehPc' # "stray"
      /\ ehPc = "run" /\ ehPc' = "uncaught" => Active = {}
      /\ \A n \in Active :
            n \in DOMAIN ehChain' /\ ehChain'[n].id = ehChain[n].id
            /\ ehChain'[n].kind = "catch" => \A k \in Active : k <= n
<1>1. TryInv /\ [TryNext]_ehVars => TryInv'
  BY TryInvStep
<1>2. TryInv /\ [TryNext]_ehVars => [Nearest]_ehVars
  <2> SUFFICES ASSUME TryInv, TryNext, ~UNCHANGED ehVars
               PROVE  Nearest
    OBVIOUS
  <2>1. CASE Throw
    BY <2>1, ThrowStep
  <2>2. CASE ~Throw
    <3>1. ~Over
      BY DEF Over
    <3>2. QED
      BY <2>2, <3>1, OtherStep
  <2>3. QED
    BY <2>1, <2>2
<1>3. [][Nearest]_ehVars => ThrowToNearest
  BY DEF ThrowToNearest
<1>4. QED
  BY <1>1, <1>2, <1>3, TryInvInit, PTL DEF TrySpec

-----------------------------------------------------------------------------
(* Types, for programs with early exits too *)

\* Statements end, are jumped out of or are caught: the chain stays one.
LEMMA ChainTyped ==
  ASSUME TryTypeOK, EndTry \/ EndCatch \/ EndLoop \/ TryReturn \/ LoopJump \/ Throw
  PROVE  ehChain' \in Seq(Entry)
<1>1. ASSUME NEW n \in 0..Len(ehChain), ehChain' = Upto(n)
      PROVE  ehChain' \in Seq(Entry)
  BY <1>1, Prefix
<1>2. ASSUME NEW n \in DOMAIN ehChain,
             NEW k \in Kinds, NEW f \in BOOLEAN,
             ehChain' = Append(Upto(n - 1), [id |-> ehChain[n].id, kind |-> k, fin |-> f])
      PROVE  ehChain' \in Seq(Entry)
  <2>1. n \in 1..Len(ehChain) /\ ehChain[n] \in Entry
    BY DEF TryTypeOK
  <2>2. Upto(n - 1) \in Seq(Entry)
    BY <2>1, Prefix
  <2>3. [id |-> ehChain[n].id, kind |-> k, fin |-> f] \in Entry
    BY <2>1 DEF Entry
  <2>4. QED
    BY <1>2, <2>2, <2>3
<1>3. DOMAIN ehChain = 1..Len(ehChain) /\ Len(ehChain) \in Nat
  BY DEF TryTypeOK
<1>4. CASE ehChain # <<>> /\ FallThrough
  <2>1. Len(ehChain) \in DOMAIN ehChain /\ Len(ehChain) - 1 \in 0..Len(ehChain)
    BY <1>3, <1>4 DEF TryTypeOK
  <2>2. "finally" \in Kinds /\ FALSE \in BOOLEAN
    BY DEF Kinds
  <2>3. \/ ehChain' = Upto(Len(ehChain) - 1)
        \/ ehChain' = Append(Upto(Len(ehChain) - 1),
               [id |-> ehChain[Len(ehChain)].id, kind |-> "finally", fin |-> FALSE])
    BY <1>4 DEF FallThrough
  <2>4. QED
    BY <1>1, <1>2, <2>1, <2>2, <2>3
<1>5. CASE EndLoop
  <2>1. Len(ehChain) - 1 \in 0..Len(ehChain)
    BY <1>3, <1>5 DEF EndLoop, Inside, TryTypeOK
  <2>2. QED
    BY <1>1, <1>5, <2>1 DEF EndLoop
<1>6. CASE TryReturn \/ LoopJump
  <2>1. PICK n \in DOMAIN ehChain, stay \in {0, 1} : ehChain' = Upto(n - 1 + stay)
    <3>1. CASE TryReturn
      <4>1. PICK n \in DOMAIN ehChain : ehChain' = Upto(n - 1)
        BY <3>1 DEF TryReturn
      <4>2. n - 1 + 0 = n - 1
        BY <1>3
      <4>3. QED
        BY <4>1, <4>2
    <3>2. CASE LoopJump
      BY <3>2 DEF LoopJump
    <3>3. QED
      BY <1>6, <3>1, <3>2
  <2>2. n - 1 + stay \in 0..Len(ehChain)
    BY <1>3
  <2>3. QED
    BY <1>1, <2>1, <2>2
<1>7. CASE Throw
  <2>1. CASE ehChain' = ehChain
    BY <2>1 DEF TryTypeOK
  <2>2. CASE \E n \in Active : ehChain' = Append(Upto(n - 1), Caught(n))
    <3>1. PICK n \in DOMAIN ehChain : ehChain' = Append(Upto(n - 1), Caught(n))
      BY <2>2 DEF Active
    <3>2. ehChain[n] \in Entry
      BY <1>3 DEF TryTypeOK
    <3>3. ehChain[n].fin \in BOOLEAN
      BY <3>2 DEF Entry
    <3>4. "catch" \in Kinds
      BY DEF Kinds
    <3>5. QED
      BY <1>2, <3>1, <3>3, <3>4 DEF Caught
  <2>3. QED
    BY <1>7, <2>1, <2>2 DEF Throw
<1>8. QED
  BY <1>4, <1>5, <1>6, <1>7 DEF EndTry, EndCatch, Inside

\* A prefix of the handlers is handlers, as many as it is long.
LEMMA Shorter ==
  ASSUME NEW h \in Seq(Nat), NEW n \in 0..Len(h)
  PROVE  SubSeq(h, 1, n) \in Seq(Nat) /\ Len(SubSeq(h, 1, n)) = n
  OBVIOUS

\* Every step keeps the types.
LEMMA TryTypedNext == TryTypeOK /\ [TryNext]_ehVars => TryTypeOK'
<1> SUFFICES ASSUME TryTypeOK, [TryNext]_ehVars PROVE TryTypeOK'
  OBVIOUS
<1>1. /\ ehHandlers \in Seq(Nat) /\ Len(ehHandlers) \in Nat
      /\ Len(ehHandlers) <= EhMax /\ EhMax \in Nat /\ ehNext \in Nat
      /\ ehPc \in {"run", "uncaught", "overflow", "stray"}
  BY TryAssumption DEF TryTypeOK
<1>2. CASE Call \/ EnterLoop \/ EnterTry
  <2>1. PICK k \in Kinds, f \in BOOLEAN : Enter(k, f)
    BY <1>2 DEF Call, EnterLoop, EnterTry, Kinds
  <2>2. ehChain' \in Seq(Entry) /\ ehNext' \in Nat
    BY <2>1, EnterShape
  <2>3. \/ ehHandlers' = ehHandlers /\ ehPc' \in {ehPc, "overflow"}
        \/ Len(ehHandlers) < EhMax /\ ehHandlers' = Append(ehHandlers, ehNext) /\ ehPc' = ehPc
    <3>1. CASE Call \/ EnterLoop
      BY <3>1 DEF Call, EnterLoop
    <3>2. CASE EnterTry /\ Len(ehHandlers) >= EhMax
      BY <3>2 DEF EnterTry
    <3>3. CASE EnterTry /\ ~(Len(ehHandlers) >= EhMax)
      BY <1>1, <3>3 DEF EnterTry
    <3>4. QED
      BY <1>2, <3>1, <3>2, <3>3
  <2>4. ehHandlers' \in Seq(Nat) /\ Len(ehHandlers') <= EhMax
    BY <1>1, <2>3
  <2>5. QED
    BY <1>1, <2>2, <2>3, <2>4 DEF TryTypeOK
<1>3. CASE EndTry \/ EndCatch \/ EndLoop \/ TryReturn \/ LoopJump \/ Throw
  <2>1. ehChain' \in Seq(Entry)
    BY <1>3, ChainTyped
  <2>2. /\ ehNext' = ehNext
        /\ ehPc' \in {ehPc, "uncaught", "stray"}
        /\ \/ ehHandlers' = ehHandlers
           \/ ehHandlers' = <<>>
           \/ ehHandlers # <<>> /\ ehHandlers' = SubSeq(ehHandlers, 1, Len(ehHandlers) - 1)
    BY <1>3, Zenon DEF EndTry, EndCatch, EndLoop, TryReturn, LoopJump, Throw
  <2>3. ehHandlers' \in Seq(Nat) /\ Len(ehHandlers') <= EhMax
    <3>1. CASE ehHandlers' = ehHandlers
      BY <1>1, <3>1
    <3>2. CASE ehHandlers' = <<>>
      BY <1>1, <3>2
    <3>3. CASE ehHandlers # <<>> /\ ehHandlers' = SubSeq(ehHandlers, 1, Len(ehHandlers) - 1)
      <4>1. Len(ehHandlers) \in Nat \ {0}
        BY <1>1, <3>3
      <4>2. Len(ehHandlers) - 1 \in 0..Len(ehHandlers)
        BY <4>1
      <4>3. /\ SubSeq(ehHandlers, 1, Len(ehHandlers) - 1) \in Seq(Nat)
            /\ Len(SubSeq(ehHandlers, 1, Len(ehHandlers) - 1)) = Len(ehHandlers) - 1
        BY <1>1, <4>2, Shorter
      <4>4. Len(ehHandlers) - 1 <= EhMax
        BY <1>1, <4>1
      <4>5. QED
        BY <3>3, <4>3, <4>4
    <3>4. QED
      BY <2>2, <3>1, <3>2, <3>3
  <2>4. QED
    BY <1>1, <2>1, <2>2, <2>3 DEF TryTypeOK
<1>4. CASE Over \/ UNCHANGED ehVars
  BY <1>4 DEF Over, ehVars, TryTypeOK
<1>5. QED
  BY <1>2, <1>3, <1>4 DEF TryNext

\* The handler stack never outgrows EH_STACK_MAX and the nesting stays well
\* formed, whatever the program.
THEOREM TryTypes == TrySpec => []TryTypeOK
<1>1. TryInit => TryTypeOK
  BY TryInvInit DEF TryInv
<1>2. QED
  BY <1>1, TryTypedNext, PTL DEF TrySpec
=============================================================================
