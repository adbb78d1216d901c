------------------------------- MODULE CoaMain -------------------------------
(***************************************************************************)
(* The script's __main__ block (lines 475-493) around the builder:         *)
(*                                                                          *)
(*   coa = generate_comprehensive_coa()            -- CoaBuilder's steps    *)
(*   with open("comprehensive-coa.json", "w") as f:                         *)
(*       json.dump(coa, f, indent=2)               -- OpenFile, WriteChunk  *)
(*   print(... account_count ...); print(...)      -- PrintGenerated        *)
(*   by_type = {}; for acc in ...: by_type[...]+=1 -- TallyStep             *)
(*   for acc_type, count in sorted(by_type.items()): print(...)             *)
(*                                                 -- PrintBreakdown        *)
(*                                                                          *)
(* The output file outlives the process, so the model also runs the script *)
(* again (Rerun), up to MaxRuns times, on whatever the last run left on    *)
(* disk.  open() and each write may raise OSError (no permission, disk     *)
(* full, the process killed): the with block closes the file and the       *)
(* exception ends the run, leaving the bytes already written.              *)
(*                                                                          *)
(* json.dump streams the document: the file is modelled as the sequence of *)
(* chunks written so far, the envelope head (with account_count, which     *)
(* precedes the "accounts" key), one chunk per account record, and the     *)
(* closing brackets.                                                        *)
(***************************************************************************)
EXTENDS CoaBuilder, FiniteSets, SequencesExt

CONSTANT MaxRuns    \* how many times the script is run

ASSUME MaxRunsAssumption == MaxRuns \in Nat \ {0}

VARIABLES
    file,       \* content of comprehensive-coa.json; None while it is absent
    w,          \* chunks json.dump has written in this run
    console,    \* lines this run printed
    byType,     \* the dict by_type, as a function from types to counts
    si,         \* index of the next account the statistics loop reads
    runs        \* how many times the script has been started

mainVars == <<file, w, console, byType, si, runs>>
vars == <<builderVars, mainVars>>

\* What json.dump writes for the document c, in order.
Doc(c) ==
    <<[k |-> "head", count |-> c.account_count, acc |-> None]>>
    \o [i \in 1..Len(c.accounts) |->
          [k |-> "account", count |-> 0, acc |-> c.accounts[i]]]
    \o <<[k |-> "tail", count |-> 0, acc |-> None]>>

\* Mutant of Get: a default of 1 instead of 0.
GetDefaultOne(b, t) == IF t \in DOMAIN b THEN b[t] ELSE 1

\* by_type.get(acc_type, 0)
Get(b, t) == IF t \in DOMAIN b THEN b[t] ELSE 0

\* by_type[acc_type] = by_type.get(acc_type, 0) + 1
Tally(b, t) == [x \in DOMAIN b \cup {t} |-> IF x = t THEN Get(b, t) + 1 ELSE b[x]]

\* The type names in Python's string order, which sorted() follows.
TypeOrder == <<"ASSET", "EQUITY", "EXPENSE", "LIABILITY", "REVENUE">>

\* The key t, if the dict b holds it.
KeyIfPresent(b, t) == IF t \in DOMAIN b THEN <<t>> ELSE <<>>

\* The keys of b in sorted order: b's keys are among the five type names.
SortedKeys(b) ==
    KeyIfPresent(b, TypeOrder[1]) \o KeyIfPresent(b, TypeOrder[2])
      \o KeyIfPresent(b, TypeOrder[3]) \o KeyIfPresent(b, TypeOrder[4])
      \o KeyIfPresent(b, TypeOrder[5])

\* sorted(by_type.items()): the (type, count) pairs in key order.
SortedItems(b) ==
    LET keys == SortedKeys(b)
    IN  [k \in 1..Len(keys) |-> <<keys[k], b[keys[k]]>>]

\* The state of a fresh process: the builder about to run, nothing printed.
FreshProcess ==
    /\ BuilderInit
    /\ w = 0
    /\ console = <<>>
    /\ byType = [t \in {} |-> 0]
    /\ si = 1

Init ==
    /\ FreshProcess
    /\ file = None
    /\ runs = 1

\* A step of generate_comprehensive_coa().
Build ==
    /\ BuilderNext
    /\ UNCHANGED mainVars

\* Mutant of OpenFile: the file opened in append mode ("a"), so an earlier
\* run's bytes stay in front.
OpenFileAppend ==
    /\ phase = "built"
    /\ file' = IF file = None THEN <<>> ELSE file
    /\ w' = 0
    /\ phase' = "dump"
    /\ UNCHANGED <<accounts, gi, ii, coa, console, byType, si, runs>>

\* open("comprehensive-coa.json", "w") succeeds: the file is created or
\* truncated.
OpenFile ==
    /\ phase = "built"
    /\ file' = <<>>
    /\ w' = 0
    /\ phase' = "dump"
    /\ UNCHANGED <<accounts, gi, ii, coa, console, byType, si, runs>>

\* open() raises: the run ends and the file is untouched.
OpenFails ==
    /\ phase = "built"
    /\ phase' = "failed"
    /\ UNCHANGED <<accounts, gi, ii, coa, mainVars>>

\* Mutant of WriteChunk: the position advanced by two, one chunk skipped.
WriteChunkSkip ==
    /\ phase = "dump"
    /\ w < Len(Doc(coa))
    /\ file' = Append(file, Doc(coa)[w + 1])
    /\ w' = w + 2
    /\ UNCHANGED <<builderVars, console, byType, si, runs>>

\* json.dump writes its next chunk.
WriteChunk ==
    /\ phase = "dump"
    /\ w < Len(Doc(coa))
    /\ file' = Append(file, Doc(coa)[w + 1])
    /\ w' = w + 1
    /\ UNCHANGED <<builderVars, console, byType, si, runs>>

\* A write raises: the with block closes the file on the way out and the
\* exception ends the run, leaving the chunks written so far.
WriteFails ==
    /\ phase = "dump"
    /\ w < Len(Doc(coa))
    /\ phase' = "failed"
    /\ UNCHANGED <<accounts, gi, ii, coa, mainVars>>

\* Mutant of CloseFile: the block left before json.dump finished.
CloseFileEarly ==
    /\ phase = "dump"
    /\ phase' = "report"
    /\ UNCHANGED <<accounts, gi, ii, coa, mainVars>>

\* json.dump returns and the with block closes the file.
CloseFile ==
    /\ phase = "dump"
    /\ w = Len(Doc(coa))
    /\ phase' = "report"
    /\ UNCHANGED <<accounts, gi, ii, coa, mainVars>>

\* Mutant of PrintGenerated: the success print moved into the with block,
\* where it runs while json.dump may still fail.
PrintGeneratedEarly ==
    /\ phase \in {"dump", "report"}
    /\ console' = Append(console, [msg |-> "generated", count |-> coa.account_count,
                                   rows |-> <<>>])
    /\ byType' = [t \in {} |-> 0]
    /\ si' = 1
    /\ phase' = "tally"
    /\ UNCHANGED <<accounts, gi, ii, coa, file, w, runs>>

\* The two prints of lines 482-483 (the count, then the file name), and
\* by_type = {}.
PrintGenerated ==
    /\ phase = "report"
    /\ console' = Append(console, [msg |-> "generated", count |-> coa.account_count,
                                   rows |-> <<>>])
    /\ byType' = [t \in {} |-> 0]
    /\ si' = 1
    /\ phase' = "tally"
    /\ UNCHANGED <<accounts, gi, ii, coa, file, w, runs>>

\* Mutant of TallyStep: the count keyed on the wrong field of the record,
\* by_type[acc["currency"]] for by_type[acc["type"]].
TallyStepByCurrency ==
    /\ phase = "tally"
    /\ si <= Len(coa.accounts)
    /\ byType' = Tally(byType, coa.accounts[si].currency)
    /\ si' = si + 1
    /\ UNCHANGED <<builderVars, file, w, console, runs>>

\* One iteration of the loop of lines 487-489.
TallyStep ==
    /\ phase = "tally"
    /\ si <= Len(coa.accounts)
    /\ byType' = Tally(byType, coa.accounts[si].type)
    /\ si' = si + 1
    /\ UNCHANGED <<builderVars, file, w, console, runs>>

\* Mutant of PrintBreakdown: the loop's end test off by one, so the last
\* account is never counted.
PrintBreakdownEarly ==
    /\ phase = "tally"
    /\ si >= Len(coa.accounts)
    /\ console' = Append(console, [msg |-> "breakdown", count |-> 0,
                                   rows |-> SortedItems(byType)])
    /\ phase' = "done"
    /\ UNCHANGED <<accounts, gi, ii, coa, file, w, byType, si, runs>>

\* Lines 491-493: the breakdown, one line per type in sorted order.
PrintBreakdown ==
    /\ phase = "tally"
    /\ si > Len(coa.accounts)
    /\ console' = Append(console, [msg |-> "breakdown", count |-> 0,
                                   rows |-> SortedItems(byType)])
    /\ phase' = "done"
    /\ UNCHANGED <<accounts, gi, ii, coa, file, w, byType, si, runs>>

\* The script is run again after the last run ended, however it ended; only
\* the file survives.
Rerun ==
    /\ phase \in {"done", "failed"}
    /\ runs < MaxRuns
    /\ phase' = "build"
    /\ accounts' = <<>>
    /\ gi' = 1
    /\ ii' = 1
    /\ coa' = None
    /\ w' = 0
    /\ console' = <<>>
    /\ byType' = [t \in {} |-> 0]
    /\ si' = 1
    /\ runs' = runs + 1
    /\ UNCHANGED file

\* The statements of one run, everything but starting the script again.
Step ==
    \/ Build
    \/ OpenFile \/ OpenFails
    \/ WriteChunk \/ WriteFails \/ CloseFile
    \/ PrintGenerated \/ TallyStep \/ PrintBreakdown

Next ==
    \/ Build
    \/ OpenFile \/ OpenFails
    \/ WriteChunk \/ WriteFails \/ CloseFile
    \/ PrintGenerated \/ TallyStep \/ PrintBreakdown
    \/ Rerun

\* The script is one thread: while a run has not ended, its next statement
\* executes.  Nothing makes anyone run it again, so Rerun gets no fairness.
Spec == Init /\ [][Next]_vars /\ WF_vars(Step)

(***************************************************************************)
(* Properties.                                                              *)
(***************************************************************************)

\* A chunk json.dump writes.
Chunk == [k : {"head", "account", "tail"}, count : Nat, acc : Account \cup {None}]

\* None is not a file content: the absent file differs from every file.
ASSUME NoneNotFile == None \notin Seq(Chunk)

\* A line (group of lines) the script prints.
Message == [msg : {"generated", "breakdown"}, count : Nat,
            rows : Seq(AccountTypes \X Nat)]

\* The returned document, {"chart_of_accounts": {...}}.
Document == [account_count : Nat, described : Nat, accounts : Seq(Account)]

TypeOK ==
    /\ phase \in {"build", "built", "dump", "report", "tally", "done", "failed"}
    /\ accounts \in Seq(Account)
    /\ gi \in Nat \ {0}
    /\ ii \in Nat \ {0}
    /\ coa \in {None} \cup Document
    /\ file \in {None} \cup Seq(Chunk)
    /\ w \in Nat
    /\ console \in Seq(Message)
    /\ DOMAIN byType \subseteq AccountTypes
    /\ byType \in [DOMAIN byType -> Nat]
    /\ si \in Nat \ {0}
    /\ runs \in 1..MaxRuns

\* The success message of line 482 is printed only when the file on disk
\* holds the whole document this run built: an OSError anywhere in open()
\* or json.dump must keep the run from reporting success.
SuccessImpliesCompleteFile ==
    \A m \in 1..Len(console) :
        console[m].msg = "generated" => file = Doc(coa)

\* How far the current run has got, as the code's statement order fixes it:
\* the document exists exactly when the builder has returned; during
\* json.dump the file holds the first w chunks of it; once the with block
\* is left normally the file holds all of it; and nothing is printed before
\* that.  This is the strengthening of SuccessImpliesCompleteFile that a
\* step preserves (CoaMainProofs).
OutputInv ==
    /\ phase # "build" => coa \in Document
    /\ phase = "dump" => /\ w <= Len(Doc(coa))
                        /\ file = SubSeq(Doc(coa), 1, w)
    /\ phase \in {"report", "tally", "done"} => file = Doc(coa)
    /\ console # <<>> => phase \in {"tally", "done"}

\* The document every run builds.
ExpectedDoc == Doc(Envelope(CatalogAccounts))

\* Whatever runs failed, where and in which order, the file on disk is a
\* prefix of the one document the script produces: a failed run leaves a
\* truncated file, never a mix of two runs' output, and the next successful
\* run restores the whole document (spec: re-running gives identical output).
FileIsPrefixOfDocument ==
    file # None => IsPrefix(file, ExpectedDoc)

\* What a step may do to the file, in any run and whatever the builder
\* returned: only open() touches it, truncating it, and only json.dump
\* extends it, by the chunk of this run's document that follows what is on
\* disk; no failure, print or rerun changes it, and a rerun never appends
\* to what an earlier run left.
FileChangesOnlyByDump ==
    [][file' # file =>
         \/ phase = "built" /\ file' = << >>
         \/ phase = "dump" /\ file # None
                          /\ file' = Append(file, Doc(coa)[Len(file) + 1])]_vars

\* The script seen from outside: the file, and whether this run has printed.
Output == INSTANCE CoaOutput WITH D <- ExpectedDoc, said <- console # <<>>

\* The script implements CoaOutput: over any failures and reruns the file
\* is only ever created empty or extended by the next chunk of the one
\* document, and the success message appears only over the whole of it.
OutputSpec == Output!OutSpec

\* Spec section 5: the run is "atomic from the caller's perspective", so a
\* run that has ended, successfully or with an I/O error, leaves the file
\* absent or holding the whole document.
EndedRunLeavesWholeFile ==
    phase \in {"done", "failed"} => file \in {None, ExpectedDoc}

\* The position of a type in sorted order.
Rank(t) == CHOOSE r \in 1..Len(TypeOrder) : TypeOrder[r] = t

\* The printed breakdown (lines 486-493) lists each type that occurs in the
\* document exactly once, in sorted order, with the number of accounts of
\* that type; so the counts sum to the account_count printed before it.
BreakdownMatchesDocument ==
    \A m \in 1..Len(console) :
        console[m].msg = "breakdown" =>
            LET rows == console[m].rows
                accs == coa.accounts
            IN  /\ {rows[k][1] : k \in 1..Len(rows)}
                     = {accs[i].type : i \in 1..Len(accs)}
                /\ \A k \in 1..Len(rows) :
                     rows[k][2] = Cardinality({i \in 1..Len(accs) :
                                                  accs[i].type = rows[k][1]})
                /\ \A k \in 1..(Len(rows) - 1) : Rank(rows[k][1]) < Rank(rows[k + 1][1])

\* The loop of lines 487-489 as it runs: by_type holds, for each type among
\* the first si - 1 accounts, how many of them have it, and no other key;
\* the loop is left only after the last account (si = len + 1); and a
\* printed breakdown is sorted(by_type.items()) of that final dict.  This
\* is the strengthening of BreakdownMatchesDocument that a step preserves
\* (CoaBreakdownProofs).
TallyInv ==
    /\ phase \in {"tally", "done"} =>
          LET accs == coa.accounts
          IN  /\ si \in 1..Len(accs) + 1
              /\ DOMAIN byType = {accs[i].type : i \in 1..si - 1}
              /\ \A t \in DOMAIN byType :
                    byType[t] = Cardinality({i \in 1..si - 1 : accs[i].type = t})
    /\ phase = "done" => si = Len(coa.accounts) + 1
    /\ \A m \in 1..Len(console) :
          console[m].msg = "breakdown" =>
              /\ phase = "done"
              /\ console[m].rows = SortedItems(byType)


=============================================================================
