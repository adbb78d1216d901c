------------------------- MODULE CoaRefinementProofs -------------------------
(***************************************************************************)
(* The script implements CoaOutput, and the file on disk is always a      *)
(* prefix of the one document, for every Program, None and MaxRuns the    *)
(* assumptions allow, in every behaviour where each build returns the     *)
(* document of the catalog (BuildReturnsCatalog, which TLC checks on the  *)
(* file's own Program in the runs builder and main).  That hypothesis is  *)
(* what makes every run write the same document: it is a fact about the   *)
(* data of the statement list, which the provers cannot reach by          *)
(* induction over Program.                                                 *)
(***************************************************************************)
EXTENDS CoaMainProofs

\* The facts about the output that hold across runs, given that every
\* build returns the catalog: the current run's document is the expected
\* one, a run that has printed is in its last two phases, and a file on
\* disk is a prefix of the expected document.
CatalogInv ==
    /\ phase # "build" => coa = Envelope(CatalogAccounts)
    /\ phase \in {"tally", "done"} => console # <<>>
    /\ file # None => /\ ExpectedDoc \in Seq(Chunk)
                      /\ \E n \in 0..Len(ExpectedDoc) : file = SubSeq(ExpectedDoc, 1, n)

RInv == IInv /\ CatalogInv

\* Once built, the document json.dump writes is the expected one.
LEMMA DocIsExpected ==
    ASSUME IInv, CatalogInv, phase # "build"
    PROVE  /\ Doc(coa) = ExpectedDoc
           /\ ExpectedDoc \in Seq(Chunk)
           /\ Len(ExpectedDoc) \in Nat
<1>1. coa \in Document /\ coa = Envelope(CatalogAccounts)
  BY DEF IInv, OutputInv, CatalogInv
<1>. QED
  BY <1>1, DocType DEF ExpectedDoc

LEMMA InitRInv == Init => RInv
<1> SUFFICES ASSUME Init PROVE RInv
  OBVIOUS
<1>. QED
  BY InitIInv DEF Init, FreshProcess, BuilderInit, RInv, CatalogInv

\* Every step keeps RInv; Wrap needs the hypothesis in the state it enters.
LEMMA NextRInv == RInv /\ [Next]_vars /\ BuildReturnsCatalog' => RInv'
<1> SUFFICES ASSUME RInv, [Next]_vars, BuildReturnsCatalog' PROVE RInv'
  OBVIOUS
<1>0. IInv'
  BY NextIInv DEF RInv
<1>1. console \in Seq(Message)
  BY DEF RInv, IInv, TypeOK
<1>2. CatalogInv'
  <2> USE DEF RInv
  <2>1. CASE Build
    <3>1. phase = "build" /\ UNCHANGED <<file, console>>
      BY <2>1 DEF Build, BuilderNext, AppendLiteral, LoopBody, LoopExit, Wrap, mainVars
    <3>2. phase' = "built" => coa' = Envelope(CatalogAccounts)
      BY DEF BuildReturnsCatalog
    <3>3. phase' \in {"build", "built"}
      BY <2>1 DEF Build, BuilderNext, AppendLiteral, LoopBody, LoopExit, Wrap
    <3>. QED
      BY <3>1, <3>2, <3>3 DEF CatalogInv
  <2>2. CASE OpenFile
    <3>1. Doc(coa) = ExpectedDoc /\ ExpectedDoc \in Seq(Chunk) /\ Len(ExpectedDoc) \in Nat
      BY <2>2, DocIsExpected DEF OpenFile
    <3>2. <<>> = SubSeq(ExpectedDoc, 1, 0)
      BY <3>1
    <3>. QED
      BY <2>2, <3>1, <3>2 DEF OpenFile, CatalogInv
  <2>3. CASE WriteChunk
    <3>1. Doc(coa) = ExpectedDoc /\ ExpectedDoc \in Seq(Chunk) /\ Len(ExpectedDoc) \in Nat
      BY <2>3, DocIsExpected DEF WriteChunk
    <3>2. w \in Nat /\ w < Len(ExpectedDoc) /\ file = SubSeq(ExpectedDoc, 1, w)
      BY <2>3, <3>1 DEF WriteChunk, IInv, TypeOK, OutputInv
    <3>3. file' = SubSeq(ExpectedDoc, 1, w + 1)
      BY <2>3, <3>1, <3>2 DEF WriteChunk
    <3>4. w + 1 \in 0..Len(ExpectedDoc)
      BY <3>2
    <3>. QED
      BY <2>3, <3>1, <3>3, <3>4 DEF WriteChunk, builderVars, CatalogInv
  <2>4. CASE PrintGenerated
    BY <1>1, <2>4 DEF PrintGenerated, CatalogInv
  <2>5. CASE PrintBreakdown
    BY <1>1, <2>5 DEF PrintBreakdown, CatalogInv
  <2>6. CASE Rerun
    BY <2>6 DEF Rerun, CatalogInv
  <2>7. CASE OpenFails \/ WriteFails \/ CloseFile \/ TallyStep
    BY <2>7 DEF OpenFails, WriteFails, CloseFile, TallyStep, builderVars, mainVars, CatalogInv
  <2>8. CASE UNCHANGED vars
    BY <2>8 DEF vars, builderVars, mainVars, CatalogInv
  <2>. QED
    BY <2>1, <2>2, <2>3, <2>4, <2>5, <2>6, <2>7, <2>8 DEF Next
<1>. QED
  BY <1>0, <1>2 DEF RInv

\* A file on disk is a prefix of the expected document.
LEMMA RInvPrefix == RInv => FileIsPrefixOfDocument
<1> SUFFICES ASSUME RInv, file # None PROVE IsPrefix(file, ExpectedDoc)
  BY DEF FileIsPrefixOfDocument
<1>1. PICK n \in 0..Len(ExpectedDoc) : file = SubSeq(ExpectedDoc, 1, n)
  BY DEF RInv, CatalogInv
<1>2. ExpectedDoc \in Seq(Chunk)
  BY DEF RInv, CatalogInv
<1>3. Len(file) = n /\ n <= Len(ExpectedDoc)
  BY <1>1, <1>2
<1>4. SubSeq(file, 1, n) = file
  BY <1>1, <1>2, <1>3
<1>. QED
  BY <1>1, <1>3, <1>4 DEF IsPrefix

\* Each step of the script is a step of CoaOutput or leaves its variables
\* alone.
LEMMA StepRefines ==
    RInv /\ RInv' /\ [Next]_vars => [Output!OutNext]_Output!outVars
<1> SUFFICES ASSUME RInv, RInv', [Next]_vars
             PROVE  [Output!OutNext]_Output!outVars
  OBVIOUS
<1>0. console \in Seq(Message) /\ console' \in Seq(Message)
  BY DEF RInv, IInv, TypeOK
<1> USE DEF Output!outVars
<1>1. CASE Build
  BY <1>1 DEF Build, mainVars
<1>2. CASE OpenFile
  <2>1. console = <<>>
    BY <1>2 DEF OpenFile, RInv, IInv, OutputInv
  <2>. QED
    BY <1>2, <2>1 DEF OpenFile, Output!OutNext, Output!Truncate
<1>3. CASE WriteChunk
  <2>1. Doc(coa) = ExpectedDoc /\ ExpectedDoc \in Seq(Chunk)
    BY <1>3, DocIsExpected DEF WriteChunk, RInv
  <2>2. w \in Nat /\ w < Len(ExpectedDoc) /\ file = SubSeq(ExpectedDoc, 1, w)
    BY <1>3, <2>1 DEF WriteChunk, RInv, IInv, TypeOK, OutputInv
  <2>3. file # None /\ Len(file) = w
    BY <2>1, <2>2, NoneNotFile, SubSeqProperties
  <2>. QED
    BY <1>3, <2>1, <2>2, <2>3 DEF WriteChunk, Output!OutNext, Output!Grow
<1>4. CASE PrintGenerated
  <2>1. file = ExpectedDoc
    BY <1>4, DocIsExpected DEF PrintGenerated, RInv, IInv, OutputInv
  <2>2. console = <<>> /\ console' # <<>>
    BY <1>0, <1>4 DEF PrintGenerated, RInv, IInv, OutputInv
  <2>. QED
    BY <1>4, <2>1, <2>2 DEF PrintGenerated, Output!OutNext, Output!Announce
<1>5. CASE PrintBreakdown
  <2>1. console # <<>> /\ console' # <<>>
    BY <1>0, <1>5 DEF PrintBreakdown, RInv, CatalogInv
  <2>. QED
    BY <1>5, <2>1 DEF PrintBreakdown
<1>6. CASE Rerun
  <2>1. console' = <<>> /\ file' = file
    BY <1>6 DEF Rerun
  <2>. QED
    BY <2>1 DEF Output!OutNext, Output!NewRun
<1>7. CASE OpenFails \/ WriteFails \/ CloseFile \/ TallyStep
  BY <1>7 DEF OpenFails, WriteFails, CloseFile, TallyStep, mainVars
<1>8. CASE UNCHANGED vars
  BY <1>8 DEF vars, mainVars
<1>. QED
  BY <1>1, <1>2, <1>3, <1>4, <1>5, <1>6, <1>7, <1>8 DEF Next

(***************************************************************************)
(* The theorems.                                                            *)
(***************************************************************************)

\* Given that every build returns the catalog's document, the script
\* implements CoaOutput: whatever OSErrors occur and however often it is
\* rerun, the file is only created empty or extended by the document's
\* next chunk, and success is announced only over the whole document.
THEOREM RefinesOutput == Spec /\ []BuildReturnsCatalog => OutputSpec
<1>1. Init => Output!OutInit
  BY DEF Init, FreshProcess, Output!OutInit
<1>2. Spec /\ []BuildReturnsCatalog => []RInv
  BY InitRInv, NextRInv, PTL DEF Spec
<1>. QED
  BY <1>1, <1>2, StepRefines, PTL DEF Spec, OutputSpec, Output!OutSpec

\* Given the same, the file on disk is at every moment a prefix of the one
\* document: an OSError in open() or in a write leaves nothing or a
\* truncated copy, never a mix of two runs, and a rerun never appends.
THEOREM FileAlwaysPrefix == Spec /\ []BuildReturnsCatalog => []FileIsPrefixOfDocument
<1>1. Spec /\ []BuildReturnsCatalog => []RInv
  BY InitRInv, NextRInv, PTL DEF Spec
<1>. QED
  BY <1>1, RInvPrefix, PTL

=============================================================================
