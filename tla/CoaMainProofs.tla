---------------------------- MODULE CoaMainProofs ----------------------------
(***************************************************************************)
(* Proofs about CoaMain for every Program, None and MaxRuns the           *)
(* assumptions allow: the type invariant, and that the script reports      *)
(* success only once the whole document is on disk.  Both rest on the      *)
(* inductive invariant IInv == TypeOK /\ OutputInv.                         *)
(***************************************************************************)
EXTENDS CoaMain, SequenceTheorems, TLAPS

(***************************************************************************)
(* Lemmas on the operators of the model.                                    *)
(***************************************************************************)

\* Every statement of the body is an append or a loop statement, and a loop
\* statement's entries are entries.
LEMMA ProgramStmt ==
    ASSUME NEW g \in 1..Len(Program)
    PROVE  /\ Program[g].op = "append" => Program[g].acc \in Account
           /\ Program[g].op = "loop" =>
                 /\ Program[g] \in LoopStmt
                 /\ \A k \in 1..Len(Program[g].items) : Program[g].items[k] \in Entry
<1>1. Program[g] \in Stmt
  BY ProgramAssumption, ElementOfSeq
<1>2. Program[g].op = "append" => Program[g] \in AppendStmt
  BY <1>1 DEF Stmt, LoopStmt
<1>3. Program[g].op = "loop" => Program[g] \in LoopStmt
  BY <1>1 DEF Stmt, AppendStmt
<1>4. ASSUME Program[g] \in LoopStmt, NEW k \in 1..Len(Program[g].items)
      PROVE  Program[g].items[k] \in Entry
  BY <1>4, ElementOfSeq DEF LoopStmt
<1>. QED
  BY <1>2, <1>3, <1>4 DEF AppendStmt

\* The record a loop appends is an account record: a derived parent is a
\* code, and the currency of the starred loop is the entry's first option.
LEMMA LoopRecordType ==
    ASSUME NEW s \in LoopStmt, NEW e \in Entry
    PROVE  LoopRecord(s, e) \in Account
<1>1. LoopParent(s, e.code) \in Nat
  BY DEF LoopParent, DerivedParent, LoopStmt, Entry
<1>2. LoopCurrency(s, e) \in Currencies
  <2>1. CASE s.star /\ e.opts # <<>>
    <3>1. e.opts \in Seq(Currencies) /\ Len(e.opts) # 0
      BY <2>1, EmptySeq DEF Entry
    <3>2. 1 \in 1..Len(e.opts)
      BY <3>1, LenProperties
    <3>. QED
      BY <2>1, <3>1, <3>2, ElementOfSeq DEF LoopCurrency
  <2>2. CASE ~(s.star /\ e.opts # <<>>)
    BY <2>2 DEF LoopCurrency, Currencies
  <2>. QED
    BY <2>1, <2>2
<1>. QED
  BY <1>1, <1>2 DEF LoopRecord, Account, LoopStmt, Entry

\* json.dump writes a head chunk, one chunk per account and a tail chunk.
LEMMA DocType ==
    ASSUME NEW c \in Document
    PROVE  /\ Doc(c) \in Seq(Chunk)
           /\ Len(Doc(c)) = Len(c.accounts) + 2
<1>1. <<[k |-> "head", count |-> c.account_count, acc |-> None]>> \in Seq(Chunk)
  BY DEF Document, Chunk
<1>2. [i \in 1..Len(c.accounts) |-> [k |-> "account", count |-> 0, acc |-> c.accounts[i]]]
        \in Seq(Chunk)
  BY ElementOfSeq DEF Document, Chunk
<1>3. <<[k |-> "tail", count |-> 0, acc |-> None]>> \in Seq(Chunk)
  BY DEF Chunk
<1>. QED
  BY <1>1, <1>2, <1>3, ConcatProperties DEF Doc, Document

\* by_type[t] = by_type.get(t, 0) + 1 keeps by_type a dict from types to
\* counts.
LEMMA TallyType ==
    ASSUME NEW b, DOMAIN b \subseteq AccountTypes, b \in [DOMAIN b -> Nat],
           NEW t \in AccountTypes
    PROVE  /\ DOMAIN Tally(b, t) \subseteq AccountTypes
           /\ Tally(b, t) \in [DOMAIN Tally(b, t) -> Nat]
  BY DEF Tally, Get

\* sorted(by_type.items()) of such a dict is a list of (type, count) pairs.
LEMMA SortedItemsType ==
    ASSUME NEW b, DOMAIN b \subseteq AccountTypes, b \in [DOMAIN b -> Nat]
    PROVE  SortedItems(b) \in Seq(AccountTypes \X Nat)
<1>1. ASSUME NEW t PROVE KeyIfPresent(b, t) \in Seq(DOMAIN b)
  <2>1. CASE t \in DOMAIN b
    BY <2>1 DEF KeyIfPresent
  <2>2. CASE t \notin DOMAIN b
    BY <2>2, EmptySeq DEF KeyIfPresent
  <2>. QED
    BY <2>1, <2>2
<1>2. SortedKeys(b) \in Seq(DOMAIN b)
  BY <1>1, ConcatProperties DEF SortedKeys
<1>. QED
  BY <1>2, ElementOfSeq DEF SortedItems

(***************************************************************************)
(* The inductive invariant.  TypeOK alone is not inductive: WriteChunk and *)
(* TallyStep read coa, which is a document only once the builder has       *)
(* returned, a fact OutputInv records.  SuccessImpliesCompleteFile alone is *)
(* not inductive either: it says nothing of the file while json.dump runs, *)
(* which OutputInv does.                                                    *)
(***************************************************************************)
IInv == TypeOK /\ OutputInv

\* The initial state: nothing built, nothing written, nothing printed.
LEMMA InitIInv == Init => IInv
  BY MaxRunsAssumption
     DEF Init, FreshProcess, BuilderInit, IInv, TypeOK, OutputInv

\* The builder steps keep the invariant: they append account records to
\* accounts, and only Wrap, at the end, makes coa a document.
LEMMA BuildIInv == IInv /\ Build => IInv'
<1> SUFFICES ASSUME IInv, BuilderNext, UNCHANGED mainVars PROVE IInv'
  BY DEF Build
<1>1. phase = "build"
  BY DEF BuilderNext, AppendLiteral, LoopBody, LoopExit, Wrap
<1>2. console = <<>>
  BY <1>1 DEF IInv, OutputInv
<1>3. CASE AppendLiteral
  BY <1>2, <1>3, ProgramStmt, AppendProperties
     DEF AppendLiteral, IInv, TypeOK, OutputInv, mainVars
<1>4. CASE LoopBody
  <2>1. Program[gi] \in LoopStmt /\ Program[gi].items[ii] \in Entry
    BY <1>4, ProgramStmt DEF LoopBody, IInv, TypeOK
  <2>2. LoopRecord(Program[gi], Program[gi].items[ii]) \in Account
    BY <2>1, LoopRecordType
  <2>. QED
    BY <1>2, <1>4, <2>2, AppendProperties
       DEF LoopBody, IInv, TypeOK, OutputInv, mainVars
<1>5. CASE LoopExit
  BY <1>2, <1>5 DEF LoopExit, IInv, TypeOK, OutputInv, mainVars
<1>6. CASE Wrap
  <2>1. Envelope(accounts) \in Document
    BY DEF IInv, TypeOK, Envelope, Document
  <2>. QED
    BY <1>2, <1>6, <2>1 DEF Wrap, IInv, TypeOK, OutputInv, mainVars, Document
<1>. QED
  BY <1>3, <1>4, <1>5, <1>6 DEF BuilderNext

\* Once built, coa is a document.
LEMMA CoaIsDoc == IInv /\ phase # "build" => coa \in Document
  BY DEF IInv, OutputInv

\* Every step of the script, and the rerun, keeps the invariant.
LEMMA NextIInv == IInv /\ [Next]_vars => IInv'
<1> SUFFICES ASSUME IInv, [Next]_vars PROVE IInv'
  OBVIOUS
<1>1. CASE Build
  BY <1>1, BuildIInv
<1>2. CASE OpenFile
  <2>1. coa \in Document
    BY <1>2, CoaIsDoc DEF OpenFile
  <2>2. SubSeq(Doc(coa), 1, 0) = <<>>
    BY <2>1, DocType
  <2>. QED
    BY <1>2, <2>1, <2>2, DocType, EmptySeq DEF OpenFile, IInv, TypeOK, OutputInv
<1>3. CASE OpenFails
  BY <1>3 DEF OpenFails, IInv, TypeOK, OutputInv, mainVars
<1>4. CASE WriteChunk
  <2>1. coa \in Document
    BY <1>4, CoaIsDoc DEF WriteChunk
  <2>2. Doc(coa) \in Seq(Chunk) /\ w \in Nat /\ w < Len(Doc(coa))
    BY <1>4, <2>1, DocType DEF WriteChunk, IInv, TypeOK
  <2>3. Append(SubSeq(Doc(coa), 1, w), Doc(coa)[w + 1]) = SubSeq(Doc(coa), 1, w + 1)
    BY <2>2
  <2>4. Doc(coa)[w + 1] \in Chunk
    BY <2>2, ElementOfSeq
  <2>5. file' = SubSeq(Doc(coa), 1, w + 1)
    BY <1>4, <2>3 DEF WriteChunk, IInv, OutputInv
  <2>6. file' \in Seq(Chunk)
    BY <2>2, <2>5, SubSeqProperties
  <2>7. OutputInv'
    BY <1>4, <2>2, <2>5 DEF WriteChunk, builderVars, IInv, OutputInv
  <2>8. TypeOK'
    BY <1>4, <2>6 DEF WriteChunk, builderVars, IInv, TypeOK
  <2>. QED
    BY <2>7, <2>8 DEF IInv
<1>5. CASE WriteFails
  BY <1>5 DEF WriteFails, IInv, TypeOK, OutputInv, mainVars
<1>6. CASE CloseFile
  <2>1. coa \in Document
    BY <1>6, CoaIsDoc DEF CloseFile
  <2>2. SubSeq(Doc(coa), 1, Len(Doc(coa))) = Doc(coa)
    BY <2>1, DocType, SubSeqFull
  <2>. QED
    BY <1>6, <2>2 DEF CloseFile, IInv, TypeOK, OutputInv, mainVars
<1>7. CASE PrintGenerated
  <2>1. coa \in Document
    BY <1>7, CoaIsDoc DEF PrintGenerated
  <2>2. [msg |-> "generated", count |-> coa.account_count, rows |-> <<>>] \in Message
    BY <2>1, EmptySeq DEF Document, Message
  <2>. QED
    BY <1>7, <2>2, AppendProperties DEF PrintGenerated, IInv, TypeOK, OutputInv
<1>8. CASE TallyStep
  <2>1. coa \in Document
    BY <1>8, CoaIsDoc DEF TallyStep
  <2>2. coa.accounts \in Seq(Account) /\ si \in 1..Len(coa.accounts)
    BY <1>8, <2>1 DEF TallyStep, Document, IInv, TypeOK
  <2>3. coa.accounts[si] \in Account
    BY <2>2, ElementOfSeq
  <2>4. coa.accounts[si].type \in AccountTypes
    BY <2>3 DEF Account
  <2>5. byType' \in [DOMAIN byType' -> Nat] /\ DOMAIN byType' \subseteq AccountTypes
    BY <1>8, <2>4, TallyType DEF TallyStep, IInv, TypeOK
  <2>. QED
    BY <1>8, <2>5 DEF TallyStep, builderVars, IInv, TypeOK, OutputInv
<1>9. CASE PrintBreakdown
  <2>1. SortedItems(byType) \in Seq(AccountTypes \X Nat)
    BY SortedItemsType DEF IInv, TypeOK
  <2>2. [msg |-> "breakdown", count |-> 0, rows |-> SortedItems(byType)] \in Message
    BY <2>1 DEF Message
  <2>. QED
    BY <1>9, <2>2, AppendProperties DEF PrintBreakdown, IInv, TypeOK, OutputInv
<1>10. CASE Rerun
  <2>1. runs' \in 1..MaxRuns
    BY <1>10, MaxRunsAssumption DEF Rerun, IInv, TypeOK
  <2>2. DOMAIN byType' \subseteq AccountTypes /\ byType' \in [DOMAIN byType' -> Nat]
    BY <1>10 DEF Rerun
  <2>3. accounts' \in Seq(Account) /\ console' \in Seq(Message)
    BY <1>10, EmptySeq DEF Rerun
  <2>4. TypeOK'
    BY <1>10, <2>1, <2>2, <2>3 DEF Rerun, IInv, TypeOK
  <2>5. OutputInv'
    BY <1>10 DEF Rerun, OutputInv
  <2>. QED
    BY <2>4, <2>5 DEF IInv
<1>11. CASE UNCHANGED vars
  BY <1>11 DEF vars, builderVars, mainVars, IInv, TypeOK, OutputInv
<1>. QED
  BY <1>1, <1>2, <1>3, <1>4, <1>5, <1>6, <1>7, <1>8, <1>9, <1>10, <1>11 DEF Next

(***************************************************************************)
(* The theorems.                                                            *)
(***************************************************************************)

\* Type correctness of every variable the script and the model keep.
THEOREM TypeCorrect == Spec => []TypeOK
<1>1. IInv => TypeOK
  BY DEF IInv
<1>. QED
  BY <1>1, InitIInv, NextIInv, PTL DEF Spec

\* The success message of line 482 is printed only once json.dump has
\* written the whole document and the with block has closed the file: no
\* OSError in open() or in a write, in any run, leads to a success report
\* over a truncated file.
THEOREM SuccessOnlyAfterCompleteDump == Spec => []SuccessImpliesCompleteFile
<1>1. IInv => SuccessImpliesCompleteFile
  BY DEF IInv, OutputInv, SuccessImpliesCompleteFile
<1>. QED
  BY <1>1, InitIInv, NextIInv, PTL DEF Spec

\* The progress of a run as the code's statement order fixes it: the
\* document exists once the builder returns, the file holds the first w
\* chunks of it during json.dump and all of it after the with block, and
\* nothing is printed before.
THEOREM OutputProgress == Spec => []OutputInv
<1>1. IInv => OutputInv
  BY DEF IInv
<1>. QED
  BY <1>1, InitIInv, NextIInv, PTL DEF Spec

\* Under the invariant, a step changes the file only by open()'s truncation
\* or by json.dump appending the chunk that follows what is on disk.
LEMMA FileStep ==
    ASSUME IInv, [Next]_vars, file' # file
    PROVE  \/ phase = "built" /\ file' = << >>
           \/ phase = "dump" /\ file # None
                            /\ file' = Append(file, Doc(coa)[Len(file) + 1])
<1>1. CASE OpenFile
  BY <1>1 DEF OpenFile
<1>2. CASE WriteChunk
  <2>1. coa \in Document /\ phase = "dump"
    BY <1>2, CoaIsDoc DEF WriteChunk
  <2>2. Doc(coa) \in Seq(Chunk) /\ w \in Nat /\ w < Len(Doc(coa))
    BY <1>2, <2>1, DocType DEF WriteChunk, IInv, TypeOK
  <2>3. file = SubSeq(Doc(coa), 1, w)
    BY <2>1 DEF IInv, OutputInv
  <2>4. file \in Seq(Chunk) /\ Len(file) = w
    BY <2>2, <2>3, SubSeqProperties
  <2>5. file # None
    BY <2>4, NoneNotFile
  <2>. QED
    BY <1>2, <2>1, <2>4, <2>5 DEF WriteChunk
<1>3. CASE Build \/ OpenFails \/ WriteFails \/ CloseFile \/ PrintGenerated
           \/ TallyStep \/ PrintBreakdown \/ Rerun \/ UNCHANGED vars
  BY <1>3 DEF Build, OpenFails, WriteFails, CloseFile, PrintGenerated, TallyStep,
              PrintBreakdown, Rerun, vars, mainVars
<1>. QED
  BY <1>1, <1>2, <1>3 DEF Next

\* Only open() and json.dump touch the file, in every run and whatever the
\* builder returned: open() truncates it and each write appends the chunk
\* of this run's document that follows what is on disk, so no failure,
\* print or rerun changes it and no run appends to an earlier run's file.
THEOREM FileOnlyTruncatedOrExtended == Spec => FileChangesOnlyByDump
<1>1. Spec => []IInv
  BY InitIInv, NextIInv, PTL DEF Spec
<1>2. IInv /\ [Next]_vars =>
        [file' # file =>
           \/ phase = "built" /\ file' = << >>
           \/ phase = "dump" /\ file # None
                            /\ file' = Append(file, Doc(coa)[Len(file) + 1])]_vars
  BY FileStep
<1>. QED
  BY <1>1, <1>2, PTL DEF Spec, FileChangesOnlyByDump

=============================================================================
