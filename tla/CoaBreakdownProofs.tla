-------------------------- MODULE CoaBreakdownProofs --------------------------
(***************************************************************************)
(* The breakdown printed by lines 486-493 matches the document, for every *)
(* Program, None and MaxRuns the assumptions allow: each type that occurs  *)
(* is listed once, in sorted order, with the number of accounts of that    *)
(* type.  The proof rests on the inductive invariant IInv /\ TallyInv:     *)
(* the loop's dict counts the accounts it has passed, and the print reads *)
(* it once the loop has passed them all.                                    *)
(***************************************************************************)
EXTENDS CoaMainProofs, FiniteSetTheorems

(***************************************************************************)
(* sorted() over the keys of by_type.                                       *)
(***************************************************************************)

\* The elements of a sequence of keys.
Keys(s) == {s[k] : k \in 1..Len(s)}

\* A sequence of type names in strictly increasing sorted position.
Sorted(s) == \A j, k \in 1..Len(s) : j < k => Rank(s[j]) < Rank(s[k])

\* Every name of s comes before position i of the sorted order.
Below(s, i) == \A k \in 1..Len(s) : Rank(s[k]) < i

\* The type names of the first i - 1 positions of the sorted order.
TypesBefore(i) == {TypeOrder[j] : j \in 1..i - 1}

\* The five type names are distinct, so each has its own position.
LEMMA RankOfTypeOrder ==
    ASSUME NEW r \in 1..5
    PROVE  /\ Rank(TypeOrder[r]) = r
           /\ TypeOrder[r] \in AccountTypes
<1>1. \A q \in 1..5 : TypeOrder[q] = TypeOrder[r] <=> q = r
  BY DEF TypeOrder
<1>2. Len(TypeOrder) = 5
  BY DEF TypeOrder
<1>3. Rank(TypeOrder[r]) = r
  BY <1>1, <1>2 DEF Rank
<1>. QED
  BY <1>3 DEF TypeOrder, AccountTypes

\* Every type name has a position in the sorted order.
LEMMA RankType ==
    ASSUME NEW t \in AccountTypes
    PROVE  Rank(t) \in 1..5
<1>1. \E r \in 1..5 : t = TypeOrder[r]
  BY DEF AccountTypes, TypeOrder
<1>2. PICK r \in 1..5 : t = TypeOrder[r]
  BY <1>1
<1>. QED
  BY <1>2, RankOfTypeOrder

\* Appending the key of position i, when b holds it, to a sorted list of
\* b's keys from the positions before i keeps the list sorted and makes it
\* the list of b's keys from the positions up to i.
LEMMA KeyIfPresentStep ==
    ASSUME NEW b, NEW i \in 1..5, NEW s \in Seq(AccountTypes),
           Sorted(s), Below(s, i), Keys(s) = DOMAIN b \cap TypesBefore(i)
    PROVE  LET s2 == s \o KeyIfPresent(b, TypeOrder[i])
           IN  /\ s2 \in Seq(AccountTypes)
               /\ Sorted(s2)
               /\ Below(s2, i + 1)
               /\ Keys(s2) = DOMAIN b \cap TypesBefore(i + 1)
<1> DEFINE t == TypeOrder[i]
<1>1. Rank(t) = i /\ t \in AccountTypes
  BY RankOfTypeOrder
<1>2. TypesBefore(i + 1) = TypesBefore(i) \cup {t}
  BY DEF TypesBefore
<1>3. CASE t \in DOMAIN b
  <2>1. s \o KeyIfPresent(b, t) = Append(s, t)
    BY <1>3 DEF KeyIfPresent
  <2>2. Append(s, t) \in Seq(AccountTypes) /\ Len(Append(s, t)) = Len(s) + 1
    BY <1>1, AppendProperties
  <2>3. \A k \in 1..Len(s) : Append(s, t)[k] = s[k]
    BY AppendProperties
  <2>4. Append(s, t)[Len(s) + 1] = t
    BY AppendProperties
  <2>5. Sorted(Append(s, t))
    BY <1>1, <2>2, <2>3, <2>4 DEF Sorted, Below
  <2>6. Below(Append(s, t), i + 1)
    <3>1. \A k \in 1..Len(s) : Rank(s[k]) \in 1..5 /\ Rank(s[k]) < i
      BY RankType, ElementOfSeq DEF Below
    <3>. QED
      BY <1>1, <2>2, <2>3, <2>4, <3>1 DEF Below
  <2>7. Keys(Append(s, t)) = Keys(s) \cup {t}
    BY <2>2, <2>3, <2>4 DEF Keys
  <2>. QED
    BY <1>2, <1>3, <2>1, <2>2, <2>5, <2>6, <2>7
<1>4. CASE t \notin DOMAIN b
  <2>1. s \o KeyIfPresent(b, t) = s
    BY <1>4 DEF KeyIfPresent
  <2>2. \A k \in 1..Len(s) : Rank(s[k]) \in 1..5 /\ Rank(s[k]) < i
    BY RankType, ElementOfSeq DEF Below
  <2>. QED
    BY <1>2, <1>4, <2>1, <2>2 DEF Below
<1>. QED
  BY <1>3, <1>4

\* sorted() over a dict whose keys are type names lists each key once, in
\* sorted order.
LEMMA SortedKeysSpec ==
    ASSUME NEW b, DOMAIN b \subseteq AccountTypes
    PROVE  /\ SortedKeys(b) \in Seq(AccountTypes)
           /\ Sorted(SortedKeys(b))
           /\ Keys(SortedKeys(b)) = DOMAIN b
<1> DEFINE K(i) == KeyIfPresent(b, TypeOrder[i])
           s0 == << >>
           s1 == s0 \o K(1)
           s2 == s1 \o K(2)
           s3 == s2 \o K(3)
           s4 == s3 \o K(4)
           s5 == s4 \o K(5)
<1> HIDE DEF s0, s1, s2, s3, s4, s5
<1>0. /\ s0 \in Seq(AccountTypes) /\ Sorted(s0) /\ Below(s0, 1)
      /\ Keys(s0) = DOMAIN b \cap TypesBefore(1)
  BY DEF s0, Sorted, Below, Keys, TypesBefore
<1>1. /\ s1 \in Seq(AccountTypes) /\ Sorted(s1) /\ Below(s1, 2)
      /\ Keys(s1) = DOMAIN b \cap TypesBefore(2)
  BY <1>0, KeyIfPresentStep DEF s1
<1>2. /\ s2 \in Seq(AccountTypes) /\ Sorted(s2) /\ Below(s2, 3)
      /\ Keys(s2) = DOMAIN b \cap TypesBefore(3)
  BY <1>1, KeyIfPresentStep DEF s2
<1>3. /\ s3 \in Seq(AccountTypes) /\ Sorted(s3) /\ Below(s3, 4)
      /\ Keys(s3) = DOMAIN b \cap TypesBefore(4)
  BY <1>2, KeyIfPresentStep DEF s3
<1>4. /\ s4 \in Seq(AccountTypes) /\ Sorted(s4) /\ Below(s4, 5)
      /\ Keys(s4) = DOMAIN b \cap TypesBefore(5)
  BY <1>3, KeyIfPresentStep DEF s4
<1>5. /\ s5 \in Seq(AccountTypes) /\ Sorted(s5) /\ Below(s5, 6)
      /\ Keys(s5) = DOMAIN b \cap TypesBefore(6)
  BY <1>4, KeyIfPresentStep DEF s5
<1>6. TypesBefore(6) = AccountTypes
  BY DEF TypesBefore, TypeOrder, AccountTypes
<1>7. SortedKeys(b) = s5
  BY DEF SortedKeys, s0, s1, s2, s3, s4, s5
<1>. QED
  BY <1>5, <1>6, <1>7

\* sorted(by_type.items()) lists each key of the dict once, in sorted
\* order, paired with its value.
LEMMA SortedItemsSpec ==
    ASSUME NEW b, DOMAIN b \subseteq AccountTypes
    PROVE  LET rows == SortedItems(b)
           IN  /\ {rows[k][1] : k \in 1..Len(rows)} = DOMAIN b
               /\ \A k \in 1..Len(rows) : /\ rows[k][1] \in DOMAIN b
                                          /\ rows[k][2] = b[rows[k][1]]
               /\ \A k \in 1..(Len(rows) - 1) : Rank(rows[k][1]) < Rank(rows[k + 1][1])
<1> DEFINE keys == SortedKeys(b)
           rows == SortedItems(b)
<1>1. keys \in Seq(AccountTypes) /\ Sorted(keys) /\ Keys(keys) = DOMAIN b
  BY SortedKeysSpec
<1>2. /\ Len(rows) = Len(keys)
      /\ \A k \in 1..Len(keys) : rows[k][1] = keys[k] /\ rows[k][2] = b[keys[k]]
  BY <1>1 DEF SortedItems
<1> HIDE DEF keys, rows
<1>3. {rows[k][1] : k \in 1..Len(rows)} = DOMAIN b
  <2>1. {rows[k][1] : k \in 1..Len(rows)} = {keys[k] : k \in 1..Len(keys)}
    BY <1>2
  <2>. QED
    BY <1>1, <2>1 DEF Keys
<1>4. \A k \in 1..Len(rows) : rows[k][1] \in DOMAIN b /\ rows[k][2] = b[rows[k][1]]
  BY <1>1, <1>2 DEF Keys
<1>5. \A k \in 1..(Len(rows) - 1) : Rank(rows[k][1]) < Rank(rows[k + 1][1])
  <2> SUFFICES ASSUME NEW k \in 1..(Len(rows) - 1)
               PROVE  Rank(keys[k]) < Rank(keys[k + 1])
    BY <1>1, <1>2
  <2>1. k \in 1..Len(keys) /\ k + 1 \in 1..Len(keys) /\ k < k + 1
    BY <1>1, <1>2
  <2>. QED
    BY <1>1, <2>1 DEF Sorted
<1>. QED
  BY <1>3, <1>4, <1>5 DEF rows

(***************************************************************************)
(* Counting the accounts of a type.                                         *)
(***************************************************************************)

\* The indices among the first n accounts whose type is t.
OfType(accs, n, t) == {i \in 1..n : accs[i].type = t}

\* A set of indices is finite.
LEMMA OfTypeFinite ==
    ASSUME NEW accs, NEW n \in Nat, NEW t
    PROVE  IsFiniteSet(OfType(accs, n, t))
<1>1. IsFiniteSet(1..n)
  BY FS_Interval
<1>. QED
  BY <1>1, FS_Subset DEF OfType

\* Passing one more account adds one to the count of its type and leaves
\* the other counts alone.
LEMMA OfTypeCount ==
    ASSUME NEW accs, NEW n \in Nat, NEW t
    PROVE  Cardinality(OfType(accs, n + 1, t))
             = IF accs[n + 1].type = t THEN Cardinality(OfType(accs, n, t)) + 1
                                       ELSE Cardinality(OfType(accs, n, t))
<1>1. IsFiniteSet(OfType(accs, n, t))
  BY OfTypeFinite
<1>2. n + 1 \notin OfType(accs, n, t)
  BY DEF OfType
<1>3. CASE accs[n + 1].type = t
  <2>1. OfType(accs, n + 1, t) = OfType(accs, n, t) \cup {n + 1}
    BY <1>3 DEF OfType
  <2>. QED
    BY <1>1, <1>2, <1>3, <2>1, FS_AddElement
<1>4. CASE accs[n + 1].type # t
  <2>1. OfType(accs, n + 1, t) = OfType(accs, n, t)
    BY <1>4 DEF OfType
  <2>. QED
    BY <1>4, <2>1
<1>. QED
  BY <1>3, <1>4

\* A type that none of the first n accounts has has count 0.
LEMMA OfTypeAbsent ==
    ASSUME NEW accs, NEW n \in Nat, NEW t,
           t \notin {accs[i].type : i \in 1..n}
    PROVE  Cardinality(OfType(accs, n, t)) = 0
<1>1. OfType(accs, n, t) = {}
  BY DEF OfType
<1>. QED
  BY <1>1, FS_EmptySet

(***************************************************************************)
(* The inductive invariant.  BreakdownMatchesDocument alone is not         *)
(* inductive: it speaks only of the printed rows, while what makes them    *)
(* right is what by_type holds during the loop, a fact TallyInv records.   *)
(* TallyInv in turn needs IInv: the loop reads coa, which is a document    *)
(* once built, and nothing is printed before the report phase.             *)
(***************************************************************************)
BInv == IInv /\ TallyInv

LEMMA InitBInv == Init => BInv
<1> SUFFICES ASSUME Init PROVE BInv
  OBVIOUS
<1>. QED
  BY InitIInv DEF Init, FreshProcess, BuilderInit, BInv, TallyInv

\* The steps before the report phase and the rerun print nothing and do
\* not enter the loop.
LEMMA QuietStepsKeepTallyInv ==
    ASSUME IInv, TallyInv,
           Build \/ OpenFile \/ OpenFails \/ WriteChunk \/ WriteFails \/ CloseFile
    PROVE  TallyInv'
<1>1. /\ phase \notin {"tally", "done"}
      /\ phase' \notin {"tally", "done"}
      /\ console' = console
  <2>1. CASE Build
    BY <2>1 DEF Build, BuilderNext, AppendLiteral, LoopBody, LoopExit, Wrap, mainVars
  <2>2. CASE OpenFile
    BY <2>2 DEF OpenFile
  <2>3. CASE OpenFails
    BY <2>3 DEF OpenFails, mainVars
  <2>4. CASE WriteChunk
    BY <2>4 DEF WriteChunk, builderVars
  <2>5. CASE WriteFails
    BY <2>5 DEF WriteFails, mainVars
  <2>6. CASE CloseFile
    BY <2>6 DEF CloseFile, mainVars
  <2>. QED
    BY <2>1, <2>2, <2>3, <2>4, <2>5, <2>6
<1>2. console = << >>
  BY <1>1 DEF IInv, OutputInv
<1>. QED
  BY <1>1, <1>2 DEF TallyInv

\* One iteration of the loop of lines 487-489 counts the account at si.
LEMMA TallyStepKeepsTallyInv ==
    ASSUME IInv, TallyInv, TallyStep
    PROVE  TallyInv'
<1> DEFINE accs == coa.accounts
           t == accs[si].type
<1>1. coa \in Document /\ phase = "tally" /\ si \in 1..Len(accs)
  BY CoaIsDoc DEF TallyStep, IInv, TypeOK
<1>2. accs \in Seq(Account) /\ t \in AccountTypes
  <2>1. accs \in Seq(Account)
    BY <1>1 DEF Document
  <2>2. accs[si] \in Account
    BY <1>1, <2>1, ElementOfSeq
  <2>. QED
    BY <2>1, <2>2 DEF Account
<1>3. /\ DOMAIN byType = {accs[i].type : i \in 1..si - 1}
      /\ \A x \in DOMAIN byType : byType[x] = Cardinality(OfType(accs, si - 1, x))
  BY <1>1 DEF TallyInv, OfType
<1>4. /\ byType' = Tally(byType, t)
      /\ si' = si + 1
      /\ UNCHANGED <<phase, coa, console>>
  BY DEF TallyStep, builderVars
<1>5. DOMAIN byType' = {accs[i].type : i \in 1..si}
  <2>1. 1..si = (1..si - 1) \cup {si}
    BY <1>1
  <2>. QED
    BY <1>3, <1>4, <2>1 DEF Tally
<1>6. ASSUME NEW x \in DOMAIN byType'
      PROVE  byType'[x] = Cardinality(OfType(accs, si, x))
  <2>1. si - 1 \in Nat /\ (si - 1) + 1 = si
    BY <1>1
  <2>2. Cardinality(OfType(accs, si, x))
          = IF t = x THEN Cardinality(OfType(accs, si - 1, x)) + 1
                     ELSE Cardinality(OfType(accs, si - 1, x))
    BY <2>1, OfTypeCount
  <2>3. CASE x = t /\ t \in DOMAIN byType
    BY <1>3, <1>4, <2>2, <2>3 DEF Tally, Get
  <2>4. CASE x = t /\ t \notin DOMAIN byType
    <3>1. Cardinality(OfType(accs, si - 1, t)) = 0
      BY <1>3, <2>1, <2>4, OfTypeAbsent
    <3>. QED
      BY <1>4, <2>2, <2>4, <3>1 DEF Tally, Get
  <2>5. CASE x # t
    <3>1. x \in DOMAIN byType
      BY <1>4, <2>5 DEF Tally
    <3>. QED
      BY <1>3, <1>4, <2>2, <2>5, <3>1 DEF Tally
  <2>. QED
    BY <2>3, <2>4, <2>5
<1>7. \A m \in 1..Len(console) : console[m].msg # "breakdown"
  BY <1>1 DEF TallyInv
<1>8. si' \in 1..Len(accs) + 1 /\ si' - 1 = si
  BY <1>1, <1>4
<1>9. \A x \in DOMAIN byType' :
        byType'[x] = Cardinality({i \in 1..si' - 1 : accs[i].type = x})
  BY <1>6, <1>8 DEF OfType
<1>. QED
  BY <1>1, <1>4, <1>5, <1>7, <1>8, <1>9 DEF TallyInv

\* by_type = {} after the prints of lines 482-483 starts the loop at 0
\* accounts counted.
LEMMA PrintGeneratedKeepsTallyInv ==
    ASSUME IInv, PrintGenerated
    PROVE  TallyInv'
<1>1. coa \in Document /\ phase = "report"
  BY CoaIsDoc DEF PrintGenerated
<1>2. console = << >>
  BY <1>1 DEF IInv, OutputInv
<1>3. console' = << [msg |-> "generated", count |-> coa.account_count, rows |-> << >>] >>
  BY <1>2 DEF PrintGenerated
<1>4. /\ si' = 1 /\ phase' = "tally" /\ coa' = coa
      /\ byType' = [t \in {} |-> 0]
  BY DEF PrintGenerated
<1>5. Len(coa'.accounts) \in Nat
  BY <1>1, <1>4 DEF Document
<1>. QED
  BY <1>3, <1>4, <1>5 DEF TallyInv

\* The breakdown is printed only once the loop has counted every account.
LEMMA PrintBreakdownKeepsTallyInv ==
    ASSUME IInv, TallyInv, PrintBreakdown
    PROVE  TallyInv'
<1>1. coa \in Document /\ phase = "tally" /\ si > Len(coa.accounts)
  BY CoaIsDoc DEF PrintBreakdown
<1>2. si = Len(coa.accounts) + 1
  BY <1>1 DEF TallyInv, Document
<1>3. \A m \in 1..Len(console) : console[m].msg # "breakdown"
  BY <1>1 DEF TallyInv
<1>4. /\ console \in Seq(Message)
      /\ console' = Append(console, [msg |-> "breakdown", count |-> 0,
                                     rows |-> SortedItems(byType)])
      /\ phase' = "done"
      /\ UNCHANGED <<coa, byType, si>>
  BY DEF PrintBreakdown, IInv, TypeOK
<1>5. \A m \in 1..Len(console') :
        console'[m].msg = "breakdown" => console'[m].rows = SortedItems(byType')
  BY <1>3, <1>4, AppendProperties
<1>. QED
  BY <1>1, <1>2, <1>4, <1>5 DEF TallyInv

\* Every step of the script, and the rerun, keeps BInv.
LEMMA NextBInv == BInv /\ [Next]_vars => BInv'
<1> SUFFICES ASSUME IInv, TallyInv, [Next]_vars PROVE BInv'
  BY DEF BInv
<1>1. IInv'
  BY NextIInv
<1>2. TallyInv'
  <2>1. CASE Build \/ OpenFile \/ OpenFails \/ WriteChunk \/ WriteFails \/ CloseFile
    BY <2>1, QuietStepsKeepTallyInv
  <2>2. CASE PrintGenerated
    BY <2>2, PrintGeneratedKeepsTallyInv
  <2>3. CASE TallyStep
    BY <2>3, TallyStepKeepsTallyInv
  <2>4. CASE PrintBreakdown
    BY <2>4, PrintBreakdownKeepsTallyInv
  <2>5. CASE Rerun
    BY <2>5 DEF Rerun, TallyInv
  <2>6. CASE UNCHANGED vars
    BY <2>6 DEF vars, builderVars, mainVars, TallyInv
  <2>. QED
    BY <2>1, <2>2, <2>3, <2>4, <2>5, <2>6 DEF Next
<1>. QED
  BY <1>1, <1>2 DEF BInv

\* The invariant gives the property: a printed breakdown is sorted() of the
\* dict that counted every account of the document.
LEMMA BInvBreakdown == BInv => BreakdownMatchesDocument
<1> SUFFICES ASSUME BInv, NEW m \in 1..Len(console), console[m].msg = "breakdown"
             PROVE  LET rows == console[m].rows
                        accs == coa.accounts
                    IN  /\ {rows[k][1] : k \in 1..Len(rows)}
                             = {accs[i].type : i \in 1..Len(accs)}
                        /\ \A k \in 1..Len(rows) :
                             rows[k][2] = Cardinality({i \in 1..Len(accs) :
                                                          accs[i].type = rows[k][1]})
                        /\ \A k \in 1..(Len(rows) - 1) :
                             Rank(rows[k][1]) < Rank(rows[k + 1][1])
  BY DEF BreakdownMatchesDocument
<1> DEFINE accs == coa.accounts
<1>1. phase = "done" /\ console[m].rows = SortedItems(byType)
  BY DEF BInv, TallyInv
<1>2. coa \in Document
  BY <1>1, CoaIsDoc DEF BInv
<1>3. si - 1 = Len(accs)
  BY <1>1, <1>2 DEF BInv, TallyInv, Document
<1>4. /\ DOMAIN byType = {accs[i].type : i \in 1..Len(accs)}
      /\ \A t \in DOMAIN byType :
            byType[t] = Cardinality({i \in 1..Len(accs) : accs[i].type = t})
  BY <1>1, <1>3 DEF BInv, TallyInv
<1>5. DOMAIN byType \subseteq AccountTypes
  BY DEF BInv, IInv, TypeOK
<1>6a. LET r == SortedItems(byType)
       IN  /\ {r[k][1] : k \in 1..Len(r)} = DOMAIN byType
           /\ \A k \in 1..Len(r) : /\ r[k][1] \in DOMAIN byType
                                   /\ r[k][2] = byType[r[k][1]]
           /\ \A k \in 1..(Len(r) - 1) : Rank(r[k][1]) < Rank(r[k + 1][1])
  BY <1>5, SortedItemsSpec
<1> DEFINE rows == console[m].rows
<1>6. /\ {rows[k][1] : k \in 1..Len(rows)} = DOMAIN byType
      /\ \A k \in 1..Len(rows) : /\ rows[k][1] \in DOMAIN byType
                                 /\ rows[k][2] = byType[rows[k][1]]
      /\ \A k \in 1..(Len(rows) - 1) : Rank(rows[k][1]) < Rank(rows[k + 1][1])
  BY <1>1, <1>6a
<1>7. \A k \in 1..Len(rows) :
        rows[k][2] = Cardinality({i \in 1..Len(accs) : accs[i].type = rows[k][1]})
  BY <1>4, <1>6
<1>. QED
  BY <1>4, <1>6, <1>7

(***************************************************************************)
(* The theorems.                                                            *)
(***************************************************************************)

\* The loop of lines 487-489 counts correctly: whenever it runs or has run,
\* by_type maps exactly the types of the accounts passed so far to their
\* numbers, and a printed breakdown is sorted() of the finished dict.
THEOREM TallyCorrect == Spec => []TallyInv
<1>1. BInv => TallyInv
  BY DEF BInv
<1>. QED
  BY <1>1, InitBInv, NextBInv, PTL DEF Spec

\* The breakdown printed by lines 491-493, in every run, lists each type
\* that occurs in the document once, in sorted order, with the number of
\* accounts of that type.
THEOREM BreakdownCorrect == Spec => []BreakdownMatchesDocument
<1>. QED
  BY InitBInv, NextBInv, BInvBreakdown, PTL DEF Spec

=============================================================================
