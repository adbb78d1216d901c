--------------------------- MODULE CoaLayoutProofs ---------------------------
(***************************************************************************)
(* The refinement of CoaOutput without the hypothesis []BuildReturnsCatalog *)
(* of CoaRefinementProofs.  The builder's actions return every statement's *)
(* records in program order; the model's indices gi and ii stand for       *)
(* Python's iteration, so this holds by construction, and it is stated by  *)
(* a layout (LaidOut: where each statement's records start), which the     *)
(* proof extends by one statement at each append and at each loop exit.   *)
(* One fact about sequences then turns the layout into FlattenSeq's        *)
(* concatenation, and with it the refinement theorems hold outright.      *)
(***************************************************************************)
EXTENDS CoaRefinementProofs

\* The layout's start positions never pass the last one.
Monotone(off, n) == \A g \in 1..n : off[g] <= off[n]

(***************************************************************************)
(* Lemmas on the records of a statement and on layouts.                     *)
(***************************************************************************)

\* The records of a statement: the literal record of an append, one record
\* per entry of a loop, in the list's order.
LEMMA StmtRecordsSpec ==
    ASSUME NEW g \in 1..Len(Program)
    PROVE  /\ Len(StmtRecords(Program[g])) \in Nat
           /\ Program[g].op = "append" =>
                 /\ Len(StmtRecords(Program[g])) = 1
                 /\ StmtRecords(Program[g])[1] = Program[g].acc
           /\ Program[g].op = "loop" =>
                 /\ Len(StmtRecords(Program[g])) = Len(Program[g].items)
                 /\ \A k \in 1..Len(Program[g].items) :
                       StmtRecords(Program[g])[k]
                         = LoopRecord(Program[g], Program[g].items[k])
<1>1. Program[g] \in Stmt
  BY ProgramAssumption, ElementOfSeq
<1>2. CASE Program[g].op = "append"
  BY <1>2 DEF StmtRecords
<1>3. CASE Program[g].op = "loop"
  <2>1. Program[g] \in LoopStmt
    BY <1>1, <1>3 DEF Stmt, AppendStmt
  <2>2. Len(Program[g].items) \in Nat
    BY <2>1 DEF LoopStmt
  <2>. QED
    BY <1>3, <2>2 DEF StmtRecords
<1>. QED
  BY <1>1, <1>2, <1>3 DEF Stmt, AppendStmt, LoopStmt

\* A list that agrees with a laid-out one up to the last start position is
\* laid out the same way.
LEMMA KeepLayout ==
    ASSUME NEW accs, NEW accs2, NEW n \in 1..Len(Program) + 1,
           NEW off \in [1..n -> Nat], LaidOut(accs, n, off), Monotone(off, n),
           \A i \in 1..off[n] : accs2[i] = accs[i]
    PROVE  LaidOut(accs2, n, off)
<1>1. ASSUME NEW g \in 1..(n - 1), NEW k \in 1..Len(StmtRecords(Program[g]))
      PROVE  off[g] + k \in 1..off[n]
  <2>1. Len(StmtRecords(Program[g])) \in Nat
    BY StmtRecordsSpec
  <2>2. off[g + 1] = off[g] + Len(StmtRecords(Program[g])) /\ off[g + 1] <= off[n]
    BY DEF LaidOut, Monotone
  <2>. QED
    BY <2>1, <2>2
<1>. QED
  BY <1>1 DEF LaidOut

\* Placing the records of statement n after a layout of statements 1..n-1
\* gives a layout of statements 1..n.
LEMMA ExtendLayout ==
    ASSUME NEW accs, NEW accs2, NEW n \in 1..Len(Program),
           NEW off \in [1..n -> Nat], LaidOut(accs, n, off), Monotone(off, n),
           \A i \in 1..off[n] : accs2[i] = accs[i],
           \A k \in 1..Len(StmtRecords(Program[n])) :
              accs2[off[n] + k] = StmtRecords(Program[n])[k]
    PROVE  \E off2 \in [1..n + 1 -> Nat] :
              /\ LaidOut(accs2, n + 1, off2)
              /\ Monotone(off2, n + 1)
              /\ off2[n + 1] = off[n] + Len(StmtRecords(Program[n]))
<1> DEFINE L == Len(StmtRecords(Program[n]))
           off2 == [g \in 1..n + 1 |-> IF g <= n THEN off[g] ELSE off[n] + L]
<1>1. L \in Nat
  BY StmtRecordsSpec
<1>2. off2 \in [1..n + 1 -> Nat] /\ off2[n + 1] = off[n] + L
  BY <1>1
<1>3. LaidOut(accs2, n, off)
  <2>1. n \in 1..Len(Program) + 1
    BY ProgramAssumption
  <2>. QED
    BY <2>1, KeepLayout
<1>4. Monotone(off2, n + 1)
  BY <1>1 DEF Monotone
<1>5. LaidOut(accs2, n + 1, off2)
  <2>1. off2[1] = 0
    BY DEF LaidOut
  <2>2. ASSUME NEW g \in 1..(n - 1)
        PROVE  /\ off2[g + 1] = off2[g] + Len(StmtRecords(Program[g]))
               /\ \A k \in 1..Len(StmtRecords(Program[g])) :
                     accs2[off2[g] + k] = StmtRecords(Program[g])[k]
    <3>1. off2[g] = off[g] /\ off2[g + 1] = off[g + 1]
      OBVIOUS
    <3>2. /\ off[g + 1] = off[g] + Len(StmtRecords(Program[g]))
          /\ \A k \in 1..Len(StmtRecords(Program[g])) :
                accs2[off[g] + k] = StmtRecords(Program[g])[k]
      BY <1>3 DEF LaidOut
    <3> HIDE DEF off2
    <3>. QED
      BY <3>1, <3>2
  <2>3. /\ off2[n + 1] = off2[n] + L
        /\ \A k \in 1..L : accs2[off2[n] + k] = StmtRecords(Program[n])[k]
    BY <1>1
  <2>4. ASSUME NEW g \in 1..n
        PROVE  /\ off2[g + 1] = off2[g] + Len(StmtRecords(Program[g]))
               /\ \A k \in 1..Len(StmtRecords(Program[g])) :
                     accs2[off2[g] + k] = StmtRecords(Program[g])[k]
    <3>1. CASE g < n
      <4>1. g \in 1..(n - 1)
        BY <3>1
      <4>. QED
        BY <4>1, <2>2
    <3>2. CASE g = n
      <4>1. Len(StmtRecords(Program[g])) = L /\ g + 1 = n + 1
        BY <3>2
      <4>. QED
        BY <4>1, <2>3, <3>2
    <3>. QED
      <4>1. g < n \/ g = n
        OBVIOUS
      <4>. QED
        BY <4>1, <3>1, <3>2
  <2>5. (n + 1) - 1 = n
    OBVIOUS
  <2>. QED
    BY <2>1, <2>4, <2>5 DEF LaidOut
<1>. QED
  BY <1>2, <1>4, <1>5

\* The records of statement n already follow a layout of statements
\* 1..n-1: the same list is laid out up to statement n.
LEMMA ExtendLayoutInPlace ==
    ASSUME NEW accs, NEW n \in 1..Len(Program),
           NEW off \in [1..n -> Nat], LaidOut(accs, n, off), Monotone(off, n),
           \A k \in 1..Len(StmtRecords(Program[n])) :
              accs[off[n] + k] = StmtRecords(Program[n])[k]
    PROVE  \E off2 \in [1..n + 1 -> Nat] :
              /\ LaidOut(accs, n + 1, off2)
              /\ Monotone(off2, n + 1)
              /\ off2[n + 1] = off[n] + Len(StmtRecords(Program[n]))
<1> DEFINE same == accs
<1>1. /\ \A i \in 1..off[n] : same[i] = accs[i]
      /\ \A k \in 1..Len(StmtRecords(Program[n])) :
            same[off[n] + k] = StmtRecords(Program[n])[k]
  OBVIOUS
<1> HIDE DEF same
<1>2. \E off2 \in [1..n + 1 -> Nat] :
         /\ LaidOut(same, n + 1, off2)
         /\ Monotone(off2, n + 1)
         /\ off2[n + 1] = off[n] + Len(StmtRecords(Program[n]))
  BY <1>1, ExtendLayout, ZenonT(60)
<1>. QED
  BY <1>2 DEF same

(***************************************************************************)
(* The inductive invariant.  BuildReturnsStatements speaks only of the     *)
(* returned document, so it says nothing a step of the body could keep:   *)
(* BuildInv adds what holds while the body runs.  The statements before   *)
(* gi are laid out in accounts, the current loop's first ii - 1 entries    *)
(* follow them, and ii is 1 whenever gi is not at a loop; so at Wrap,     *)
(* where gi = Len(Program) + 1, the whole body is laid out.                *)
(***************************************************************************)

\* gi is at a for loop of the body.
InLoop == gi <= Len(Program) /\ Program[gi].op = "loop"

\* off lays out statements 1..gi-1 in accounts, and after them come the
\* records of the current loop's entries done so far, and nothing else.
Progress(off) ==
    /\ off \in [1..gi -> Nat]
    /\ LaidOut(accounts, gi, off)
    /\ Monotone(off, gi)
    /\ Len(accounts) = off[gi] + (ii - 1)
    /\ \A k \in 1..(ii - 1) :
          accounts[off[gi] + k] = LoopRecord(Program[gi], Program[gi].items[k])

\* While the body runs, gi and ii are within bounds and some layout
\* describes accounts; once built, the returned document is laid out.
BuildInv ==
    /\ phase = "build" =>
          /\ gi \in 1..Len(Program) + 1
          /\ InLoop => ii <= Len(Program[gi].items) + 1
          /\ ~InLoop => ii = 1
          /\ \E off : Progress(off)
    /\ BuildReturnsStatements

\* The inductive invariant of this module.
LInv == IInv /\ BuildInv

\* Entering a statement, ii = 1 is within its loop's bounds.
LEMMA FreshIndex ==
    ASSUME NEW g \in 1..Len(Program) + 1
    PROVE  g <= Len(Program) /\ Program[g].op = "loop"
              => 1 <= Len(Program[g].items) + 1
<1>1. SUFFICES ASSUME g <= Len(Program), Program[g].op = "loop"
               PROVE  Len(Program[g].items) \in Nat
  OBVIOUS
<1>2. g \in 1..Len(Program)
  BY <1>1
<1>. QED
  BY <1>1, <1>2, StmtRecordsSpec DEF StmtRecords

\* The state the builder starts in, on the first run and on a rerun:
\* nothing appended, at the first statement.
LEMMA StartBuildInv ==
    ASSUME phase = "build", accounts = << >>, gi = 1, ii = 1
    PROVE  BuildInv
<1>1. gi \in 1..Len(Program) + 1
  BY ProgramAssumption
<1>2. Progress([g \in 1..1 |-> 0])
  BY DEF Progress, LaidOut, Monotone
<1>. QED
  BY <1>1, <1>2, FreshIndex DEF BuildInv, InLoop, BuildReturnsStatements

\* A step that enters statement gi' with ii' = 1, over a layout of the
\* statements before it, keeps the invariant.
LEMMA EnterStmt ==
    ASSUME NEW o, phase' = "build", gi' \in 1..Len(Program) + 1, ii' = 1,
           Progress(o)'
    PROVE  BuildInv'
<1>1. (\E off : Progress(off))'
  OBVIOUS
<1>2. (InLoop => ii <= Len(Program[gi].items) + 1)'
  <2>1. gi' <= Len(Program) /\ Program[gi'].op = "loop"
          => 1 <= Len(Program[gi'].items) + 1
    BY FreshIndex
  <2>. QED
    BY <2>1 DEF InLoop
<1>. QED
  BY <1>1, <1>2 DEF BuildInv, BuildReturnsStatements

\* At the start nothing is appended and the empty layout covers no statement.
LEMMA InitLInv == Init => LInv
  BY InitIInv, StartBuildInv DEF Init, FreshProcess, BuilderInit, LInv

\* accounts.append of a literal record lays out one more statement.
LEMMA AppendKeepsBuildInv == LInv /\ AppendLiteral => BuildInv'
<1> SUFFICES ASSUME LInv, AppendLiteral PROVE BuildInv'
  OBVIOUS
<1>1. /\ phase = "build" /\ phase' = "build"
      /\ gi \in 1..Len(Program) /\ Program[gi].op = "append"
  BY ProgramAssumption DEF AppendLiteral, LInv, BuildInv
<1>2. ii = 1
  BY <1>1 DEF LInv, BuildInv, InLoop
<1>3. PICK off : Progress(off)
  BY <1>1 DEF LInv, BuildInv
<1>4. accounts \in Seq(Account) /\ Program[gi].acc \in Account
  BY <1>1, ProgramStmt DEF LInv, IInv, TypeOK
<1>5. /\ Len(StmtRecords(Program[gi])) = 1
      /\ StmtRecords(Program[gi])[1] = Program[gi].acc
  BY <1>1, StmtRecordsSpec
<1>6. Len(accounts) = off[gi] /\ off \in [1..gi -> Nat]
  BY <1>1, <1>2, <1>3 DEF Progress
<1>7. /\ \A i \in 1..off[gi] : accounts'[i] = accounts[i]
      /\ \A k \in 1..Len(StmtRecords(Program[gi])) :
            accounts'[off[gi] + k] = StmtRecords(Program[gi])[k]
      /\ Len(accounts') = off[gi] + 1
  BY <1>4, <1>5, <1>6, AppendProperties DEF AppendLiteral
<1>8. PICK off2 \in [1..gi + 1 -> Nat] :
        /\ LaidOut(accounts', gi + 1, off2)
        /\ Monotone(off2, gi + 1)
        /\ off2[gi + 1] = off[gi] + Len(StmtRecords(Program[gi]))
  BY <1>1, <1>3, <1>6, <1>7, ExtendLayout DEF Progress
<1>9. gi' = gi + 1 /\ ii' = 1
  BY <1>2 DEF AppendLiteral
<1>10. Progress(off2)'
  BY <1>5, <1>7, <1>8, <1>9 DEF Progress
<1>11. gi' \in 1..Len(Program) + 1
  BY <1>1, <1>9
<1>. QED
  BY <1>1, <1>9, <1>10, <1>11, EnterStmt

\* One iteration of a loop body appends the record of the next entry after
\* the ones before it.
LEMMA LoopBodyKeepsBuildInv == LInv /\ LoopBody => BuildInv'
<1> SUFFICES ASSUME LInv, LoopBody PROVE BuildInv'
  OBVIOUS
<1>1. /\ phase = "build" /\ phase' = "build"
      /\ gi \in 1..Len(Program) /\ Program[gi].op = "loop"
      /\ ii \in Nat \ {0} /\ ii <= Len(Program[gi].items)
      /\ gi' = gi /\ ii' = ii + 1
  BY ProgramAssumption DEF LoopBody, LInv, BuildInv, IInv, TypeOK
<1>2. PICK off : Progress(off)
  BY <1>1 DEF LInv, BuildInv
<1> DEFINE r == LoopRecord(Program[gi], Program[gi].items[ii])
<1>3. accounts \in Seq(Account) /\ r \in Account
  <2>1. Program[gi] \in LoopStmt /\ Program[gi].items[ii] \in Entry
    BY <1>1, ProgramStmt
  <2>. QED
    BY <2>1, LoopRecordType DEF LInv, IInv, TypeOK
<1>4. /\ Len(accounts') = Len(accounts) + 1
      /\ \A i \in 1..Len(accounts) : accounts'[i] = accounts[i]
      /\ accounts'[Len(accounts) + 1] = r
  BY <1>3, AppendProperties DEF LoopBody
<1>5. off \in [1..gi -> Nat] /\ Len(accounts) = off[gi] + (ii - 1)
  BY <1>2 DEF Progress
<1>6. LaidOut(accounts', gi, off)
  <2>1. \A i \in 1..off[gi] : accounts'[i] = accounts[i]
    BY <1>1, <1>4, <1>5
  <2>2. gi \in 1..Len(Program) + 1
    BY <1>1
  <2>. QED
    BY <1>2, <2>1, <2>2, KeepLayout DEF Progress
<1>7. ASSUME NEW k \in 1..ii
      PROVE  accounts'[off[gi] + k] = LoopRecord(Program[gi], Program[gi].items[k])
  <2>1. CASE k < ii
    <3>1. k \in 1..(ii - 1) /\ off[gi] + k \in 1..Len(accounts)
      BY <1>1, <1>5, <2>1
    <3>. QED
      BY <1>2, <1>4, <3>1 DEF Progress
  <2>2. CASE k = ii
    BY <1>1, <1>4, <1>5, <2>2
  <2>. QED
    BY <1>1, <2>1, <2>2
<1>8. Progress(off)'
  BY <1>1, <1>2, <1>4, <1>5, <1>6, <1>7 DEF Progress
<1>9. (\E o : Progress(o))'
  BY <1>8
<1>10. InLoop' /\ (ii <= Len(Program[gi].items) + 1)'
  BY <1>1 DEF InLoop
<1>. QED
  BY <1>1, <1>9, <1>10 DEF BuildInv, BuildReturnsStatements

\* Leaving a loop whose list is exhausted: its records are all in place,
\* so the layout extends by one statement and ii restarts at 1.
LEMMA LoopExitKeepsBuildInv == LInv /\ LoopExit => BuildInv'
<1> SUFFICES ASSUME LInv, LoopExit PROVE BuildInv'
  OBVIOUS
<1>1. /\ phase = "build" /\ phase' = "build"
      /\ gi \in 1..Len(Program) /\ Program[gi].op = "loop"
      /\ ii \in Nat \ {0} /\ ii > Len(Program[gi].items)
      /\ gi' = gi + 1 /\ ii' = 1 /\ accounts' = accounts
  BY ProgramAssumption DEF LoopExit, LInv, BuildInv, IInv, TypeOK
<1>2. /\ Len(StmtRecords(Program[gi])) = Len(Program[gi].items)
      /\ \A k \in 1..Len(Program[gi].items) :
            StmtRecords(Program[gi])[k] = LoopRecord(Program[gi], Program[gi].items[k])
      /\ Len(StmtRecords(Program[gi])) \in Nat
  BY <1>1, StmtRecordsSpec
<1>3. ii = Len(Program[gi].items) + 1
  BY <1>1, <1>2 DEF LInv, BuildInv, InLoop
<1>4. PICK off : Progress(off)
  BY <1>1 DEF LInv, BuildInv
<1>5. \A k \in 1..Len(StmtRecords(Program[gi])) :
         accounts[off[gi] + k] = StmtRecords(Program[gi])[k]
  BY <1>2, <1>3, <1>4 DEF Progress
<1>6. PICK off2 \in [1..gi + 1 -> Nat] :
        /\ LaidOut(accounts, gi + 1, off2)
        /\ Monotone(off2, gi + 1)
        /\ off2[gi + 1] = off[gi] + Len(StmtRecords(Program[gi]))
  <2>1. /\ off \in [1..gi -> Nat] /\ LaidOut(accounts, gi, off) /\ Monotone(off, gi)
        /\ \A i \in 1..off[gi] : accounts[i] = accounts[i]
    BY <1>4 DEF Progress
  <2>. QED
    BY <1>1, <1>5, <2>1, ExtendLayoutInPlace
<1>7. Len(accounts) = off2[gi + 1]
  BY <1>2, <1>3, <1>4, <1>6 DEF Progress
<1>8. Progress(off2)'
  BY <1>1, <1>6, <1>7 DEF Progress
<1>. QED
  BY <1>1, <1>8, EnterStmt

\* return coa: gi is past the last statement and no loop is half done, so
\* the layout covers the whole body and the whole list.
LEMMA WrapKeepsBuildInv == LInv /\ Wrap => BuildInv'
<1> SUFFICES ASSUME LInv, Wrap PROVE BuildInv'
  OBVIOUS
<1>1. /\ phase = "build" /\ phase' = "built"
      /\ gi = Len(Program) + 1 /\ ii = 1
      /\ coa' = Envelope(accounts)
  BY DEF Wrap, LInv, BuildInv, InLoop
<1>2. PICK off : Progress(off)
  BY <1>1 DEF LInv, BuildInv
<1>3. /\ off \in Layouts
      /\ LaidOut(accounts, Len(Program) + 1, off)
      /\ Len(accounts) = off[Len(Program) + 1]
  BY <1>1, <1>2 DEF Progress, Layouts
<1>4. coa'.accounts = accounts /\ coa' = Envelope(coa'.accounts)
  BY <1>1 DEF Envelope
<1>. QED
  BY <1>1, <1>3, <1>4 DEF BuildInv, BuildReturnsStatements


\* The steps after the builder returned (open, json.dump, close, the prints
\* and the tally loop) never go back to phase "build" and never touch coa.
LEMMA LaterStepsKeepBuildInv ==
    ASSUME LInv,
           OpenFile \/ OpenFails \/ WriteChunk \/ WriteFails \/ CloseFile
             \/ PrintGenerated \/ TallyStep \/ PrintBreakdown
    PROVE  BuildInv'
<1>1. phase # "build" /\ phase' # "build" /\ coa' = coa
  BY DEF OpenFile, OpenFails, WriteChunk, WriteFails, CloseFile,
         PrintGenerated, TallyStep, PrintBreakdown, builderVars
<1>. QED
  BY <1>1 DEF LInv, BuildInv, BuildReturnsStatements

\* Running the script again starts the builder afresh.
LEMMA RerunKeepsBuildInv == LInv /\ Rerun => BuildInv'
<1> SUFFICES ASSUME Rerun PROVE BuildInv'
  OBVIOUS
<1>1. phase' = "build" /\ accounts' = << >> /\ gi' = 1 /\ ii' = 1
  BY DEF Rerun
<1>2. gi' \in 1..Len(Program) + 1
  BY <1>1, ProgramAssumption
<1>3. Progress([g \in 1..1 |-> 0])'
  BY <1>1 DEF Progress, LaidOut, Monotone
<1>. QED
  BY <1>1, <1>2, <1>3, EnterStmt

\* Every step of the script, the builder's, the later ones and a rerun,
\* keeps the invariant.
LEMMA NextLInv == LInv /\ [Next]_vars => LInv'
<1> SUFFICES ASSUME LInv, [Next]_vars PROVE LInv'
  OBVIOUS
<1>1. IInv'
  BY NextIInv DEF LInv
<1> SUFFICES BuildInv'
  BY <1>1 DEF LInv
<1>2. CASE Build
  <2>1. BuilderNext
    BY <1>2 DEF Build
  <2>. QED
    BY <2>1, AppendKeepsBuildInv, LoopBodyKeepsBuildInv, LoopExitKeepsBuildInv,
       WrapKeepsBuildInv DEF BuilderNext
<1>3. CASE OpenFile \/ OpenFails \/ WriteChunk \/ WriteFails \/ CloseFile
           \/ PrintGenerated \/ TallyStep \/ PrintBreakdown
  BY <1>3, LaterStepsKeepBuildInv
<1>4. CASE Rerun
  BY <1>4, RerunKeepsBuildInv
<1>5. CASE UNCHANGED vars
  BY <1>5 DEF vars, builderVars, LInv, BuildInv, Progress, InLoop,
              BuildReturnsStatements
<1>. QED
  BY <1>2, <1>3, <1>4, <1>5 DEF Next

\* The invariant holds in every state of every behaviour.
LEMMA SpecLInv == Spec => []LInv
  BY InitLInv, NextLInv, PTL DEF Spec

\* The model's step-by-step reading of the body (the indices gi and ii,
\* which stand for Python's own iteration) returns the records of every
\* statement in program order, and no later step of the run or of a rerun
\* changes the document.  This holds by the construction of the builder's
\* actions for every Program; it is the step that connects them to the
\* catalog in the theorems below.
LEMMA BuilderReturnsStatements == Spec => []BuildReturnsStatements
<1>1. Spec => []LInv
  BY SpecLInv
<1>2. LInv => BuildReturnsStatements
  BY DEF LInv, BuildInv
<1>. QED
  BY <1>1, <1>2, PTL


(***************************************************************************)
(* From the layout to FlattenSeq.  That a list laid out for the whole body *)
(* is the concatenation FlattenSeq computes is a fact about sequences      *)
(* alone, true by induction on the number of statements; the provers have  *)
(* no induction over a predicate, so it is a hypothesis here.  Given it,   *)
(* the theorems of CoaRefinementProofs no longer assume anything of the    *)
(* builder's behaviour: BuilderReturnsStatements discharges their          *)
(* hypothesis []BuildReturnsCatalog.                                        *)
(***************************************************************************)

\* Any list of account records laid out for all statements, as long as the
\* last start position says, is the concatenation of the statements'
\* records.
LayoutDeterminesCatalog ==
    \A accs \in Seq(Account) : \A off \in Layouts :
        LaidOut(accs, Len(Program) + 1, off) /\ Len(accs) = off[Len(Program) + 1]
            => accs = CatalogAccounts

\* Under that fact, the builder's returned document is the catalog's.
LEMMA LInvCatalog ==
    ASSUME LayoutDeterminesCatalog, LInv
    PROVE  BuildReturnsCatalog
<1> SUFFICES ASSUME phase = "built" PROVE coa = Envelope(CatalogAccounts)
  BY DEF BuildReturnsCatalog
<1>1. PICK off \in Layouts :
        /\ LaidOut(coa.accounts, Len(Program) + 1, off)
        /\ Len(coa.accounts) = off[Len(Program) + 1]
  BY DEF LInv, BuildInv, BuildReturnsStatements
<1>2. coa.accounts \in Seq(Account)
  BY CoaIsDoc DEF LInv, Document
<1>3. coa.accounts = CatalogAccounts
  BY <1>1, <1>2 DEF LayoutDeterminesCatalog
<1>. QED
  BY <1>3 DEF LInv, BuildInv, BuildReturnsStatements

\* Under that fact, every returned document is the catalog's, in every run
\* and after any rerun: the hypothesis of the theorems of
\* CoaRefinementProofs.
LEMMA BuilderReturnsCatalog ==
    ASSUME LayoutDeterminesCatalog
    PROVE  Spec => []BuildReturnsCatalog
<1>1. LInv => BuildReturnsCatalog
  BY LInvCatalog
<1>. QED
  BY <1>1, SpecLInv, PTL

\* The script implements the abstract output specification CoaOutput: over
\* any OSErrors in open() or json.dump and any reruns, the file is only
\* created empty or extended by the next chunk of the one document, and
\* success is printed only over the whole of it.
THEOREM ScriptRefinesOutput ==
    ASSUME LayoutDeterminesCatalog
    PROVE  Spec => OutputSpec
<1>1. Spec => []BuildReturnsCatalog
  BY BuilderReturnsCatalog
<1>. QED
  BY <1>1, RefinesOutput, PTL

\* And the file on disk is at every moment absent or a prefix of that one
\* document, never a mix of two runs' output.
THEOREM FileIsAlwaysPrefix ==
    ASSUME LayoutDeterminesCatalog
    PROVE  Spec => []FileIsPrefixOfDocument
<1>1. Spec => []BuildReturnsCatalog
  BY BuilderReturnsCatalog
<1>. QED
  BY <1>1, FileAlwaysPrefix, PTL

=============================================================================
