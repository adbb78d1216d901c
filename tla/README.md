# TLA+ models of the chart-of-accounts generator

The repository's program is `src/examples/financial-sim/generate-comprehensive-coa.py`. It is a
script that builds a chart of accounts and does three things with it:

1. **Builder**: `generate_comprehensive_coa()` (lines 8-473). It appends about 250 account
   records to a list, one literal `accounts.append({...})` at a time or one `for` loop over a
   literal list of `(code, name[, currency])` tuples at a time. Then it wraps the list in an
   envelope with `account_count = len(accounts)`.
2. **Emit**: the `__main__` block (lines 475-480). It opens `comprehensive-coa.json` with mode
   `"w"` and streams the document into it with `json.dump`.
3. **Summarize**: lines 482-493. It prints the count and the file name, tallies the accounts
   per type into `by_type`, and prints the breakdown in sorted key order.

The program is single-threaded. It has no await, callback or lock. What can go wrong is in the
data (≈250 hand-typed codes and parent references), in one string computation (the derived
parent of the "other revenue" group), and at the process boundary: `open` and every write of
`json.dump` can raise `OSError`, and the file outlives the process that wrote it.

## Modules

| Module | Models | State | Actions |
|---|---|---|---|
| `CoaBuilder` | `generate_comprehensive_coa`, the statement sequence given as the constant `Program` | `phase`, `accounts`, `gi` (statement index), `ii` (loop entry index), `coa` | `AppendLiteral`, `LoopBody`, `LoopExit`, `Wrap` |
| `CoaCatalog` | the literal body, lines 13-458, as a `Program` | none | none |
| `CoaMain` | the `__main__` block around the builder, and reruns of the script | builder's variables, plus `file`, `w`, `console`, `byType`, `si`, `runs` | `Build`, `OpenFile`, `OpenFails`, `WriteChunk`, `WriteFails`, `CloseFile`, `PrintGenerated`, `TallyStep`, `PrintBreakdown`, `Rerun` |
| `CoaOutput` | the abstract specification of the output: what the file and the console may do | `file`, `said` | `Truncate`, `Grow`, `Announce`, `NewRun` |
| `MCCoaBuilder` | builder on the file's own body | | |
| `MCCoaMain` | the whole script on the file's own body; also the string/arithmetic check of lines 277-278 | | |
| `CoaBuilderProofs`, `CoaMainProofs`, `CoaRefinementProofs`, `CoaBreakdownProofs`, `CoaLayoutProofs` | TLAPS theorems | | |

**CoaBuilder.**
- `Program` is a sequence of `AppendStmt` (one literal record) and `LoopStmt` values.
- A `LoopStmt` carries the loop's type, its fixed parent and its entries. It has two flags:
  - `star`: the cash loop's `for code, name, *opts`, whose currency is `opts[0] if opts else "USD"`;
  - `derive`: the other-revenue loop, whose parent is computed by lines 277-278.
- `DerivedParent` is that computation on integers. The ASSUME `DerivedParentMatchesStrings` in
  `MCCoaMain` checks it against the string operations `endswith("00")`, `code[:-1] + "0"` and
  `parent != code` on every code 1000..9999.
- The data is abstracted:
  - Names are left out.
  - Codes are the integers the 4-digit strings denote.
  - Currencies range over the four codes the file uses.
  - The envelope keeps `account_count` and the number the description claims (500), not its
    strings.

**CoaMain.**
- `json.dump` writes the document as a sequence of chunks, `Doc(coa)`:
  - the envelope head, which holds `account_count` because that key precedes `"accounts"`;
  - one chunk per account;
  - the closing tail.
- `file` is the sequence of chunks on disk, or `None` before the file is created.
- `OpenFile` truncates the file to `<<>>`, as mode `"w"` does. `WriteChunk` appends the next
  chunk.
- `OpenFails` and `WriteFails` are `OSError`s. The `with` block closes the file, the exception
  ends the run (`phase = "failed"`), and the chunks already written stay on disk.
- `PrintGenerated` stands for the two prints of lines 482-483 and `by_type = {}`.
- `TallyStep` is one iteration of lines 487-489. `PrintBreakdown` is lines 491-493, with
  `sorted` over the five type names in Python's string order.
- `Rerun` starts the script again after a run has ended, however it ended. Everything is reset
  except the file, and there are at most `MaxRuns` runs.

**CoaOutput and the refinement.** `CoaOutput` says what the script promises to anyone who
looks at its output. The file is only ever created empty (`Truncate`) or extended by the next
chunk of the one document `D` (`Grow`). Success is announced only while the file holds all of
`D` (`Announce`). A new run may start after an announcement (`NewRun`). `CoaMain` defines

    Output == INSTANCE CoaOutput WITH D <- ExpectedDoc, said <- console # <<>>

and checks `OutputSpec == Output!OutSpec` as a property. Under this mapping:
- `OpenFile` is `Truncate`, since nothing has been printed while the file is opened.
- `WriteChunk` is `Grow`, since `w` is the file's length and `Doc(coa)` is the expected document.
- `PrintGenerated` is `Announce`.
- A `Rerun` after a successful run is `NewRun`.
- Every other step leaves `file` and `said` unchanged.

## Runs

| Run | Config | Expect | What it shows |
|---|---|---|---|
| builder | `MCCoaBuilder.cfg` | pass (265 states) | Two properties of the file's own 233 records: codes are unique (`CodesUnique`); the records form a forest with exactly the multiples of 1000 as roots, every other parent appended earlier and of the same type (`ForestWellFormed`). |
| main | `MCCoaMain.cfg` | pass (64,721 states) | Two runs of the script, with `OSError` possible at the open and at each of the 235 writes. The properties are listed below the table. |
| derived_parent | `MCCoaBuilderFinding.cfg` | violation | 4410 and 4420 are placed under the root 4000 (finding 1). |
| described_count | `MCCoaBuilderCount.cfg` | violation | The document claims 500+ accounts and has 233 (finding 2). |
| atomic_emit | `MCCoaMainAtomic.cfg` | violation | A run that ends with an `OSError` in `json.dump` leaves a truncated file (finding 3). |

The main run checks these properties:
- **`SuccessImpliesCompleteFile`**: the success message is printed only when the file holds the
  whole document.
- **`FileIsPrefixOfDocument`**: the file on disk is always a prefix of the one document. So a
  failed run leaves a truncated file, never one that mixes two runs' output, and the next
  successful run restores the whole document.
- **`BreakdownMatchesDocument`**: the breakdown lists each present type once, sorted, with its
  count.
- **`TallyInv`**: while the loop of lines 487-489 runs, `by_type` maps exactly the types of the
  accounts passed so far to their numbers; the loop is left only after the last account; a
  printed breakdown is `sorted(by_type.items())` of the finished dict. It is the strengthening
  the proof of `BreakdownMatchesDocument` uses.
- **`FileChangesOnlyByDump`** (an action property): a step changes the file only by `open`'s
  truncation or by `json.dump` appending the chunk of this run's document that follows what is
  on disk. No failure, print or rerun touches it.
- **`OutputSpec`**: the script implements `CoaOutput`.
- **`OutputInv`**: the strengthening the proof uses.
- **`TypeOK`**. Its mutant keys the tally on the wrong field of the record, so `by_type` gets
  keys that are not type names.

Each property of a passing run has a mutant in `PROJECT.json`. A mutant is a plausible bug:
- a duplicated code;
- the fallback of line 278 dropped;
- the file opened in append mode (caught by `FileIsPrefixOfDocument` and by
  `FileChangesOnlyByDump`);
- the success print moved into the `with` block;
- a `get` default of 1;
- an off-by-one in the tally loop's end test, so the breakdown is printed before the last
  account is counted;
- the tally keyed on the account's currency instead of its type;
- a write that advances by two chunks.

TLC finds each of these violating its property.

**Bounds.**
- The catalog is the file's own: all 233 records, not a sample. So the data properties are
  checked exactly.
- `MaxRuns = 2` is enough for a run to start on whatever an earlier run left: nothing, a
  truncated file or a complete file. A third run sees one of the same three.
- The failure points are not bounded: every chunk can fail.

**Fairness.** `Spec` carries `WF_vars(Step)` for every statement of a run except `Rerun`. The
script is one thread with no waits, so while it is running its next statement executes. Nothing
makes anyone run the script again, so `Rerun` gets no fairness. No liveness property is checked:
that a run ends holds by construction for a straight-line script whose loops go over literal
lists, and no code change short of an endless loop could break it. Deadlock checking is off
because the program terminates: a final state where `runs = MaxRuns` has no successor.

**What is not checked as a property.** The builder is modelled with a statement index `gi` and
a loop-entry index `ii`. These stand for Python's own iteration over the body and over each
literal list. The code has no index of its own to skip or repeat, so "the builder returns the
records of every statement in order" (`BuildReturnsCatalog`) holds by the construction of the
model for every `Program`, and no run checks it. It appears only as a step of the proofs below.

## Findings

1. **Line 277, spec §9.** Every code of the other-revenue list ends in `0`. So `code[:-1] + "0"`
   is the code itself, and line 278 falls back to `"4000"` for all eight codes. This sends 4410
   and 4420 ("Rental Income - Residential/Commercial") to the root rather than under 4400.
   Spec §9 describes the degeneration only for codes ending in `00`. `DerivedParentOfTens`
   proves the general fact.
2. **Line 464 (and the docstring, line 3).** The description says "500+ accounts", but the code
   writes `account_count` 233.

3. **Line 480, spec §5.** Spec §5 says the run completes "atomically from the caller's
   perspective". The code truncates the file at `open` and streams the document into it in
   place. So an `OSError` or a kill during `json.dump` ends the run with a truncated file on
   disk, and `EndedRunLeavesWholeFile` is violated. An atomic emit would write a temporary file
   and rename it.

## Proofs (TLAPS)

`CoaMainProofs` proves these for every `Program` satisfying `ProgramAssumption`, every `None`
outside `Nat`, and every `MaxRuns` ≥ 1:
- `TypeCorrect`: `Spec => []TypeOK`.
- `SuccessOnlyAfterCompleteDump`: `Spec => []SuccessImpliesCompleteFile`.
- `OutputProgress`: `Spec => []OutputInv`.
- `FileOnlyTruncatedOrExtended`: `Spec => FileChangesOnlyByDump`. Unlike the refinement below,
  it needs no hypothesis about what the builder returns.

All four rest on the inductive invariant `IInv == TypeOK /\ OutputInv`. `OutputInv` says four
things:
- `coa` is a `Document` once the builder has returned;
- during `json.dump` the file is `SubSeq(Doc(coa), 1, w)` with `w <= Len(Doc(coa))`;
- after the `with` block it is `Doc(coa)`;
- nothing is printed before that.

`TypeOK` alone is not inductive, because `WriteChunk` and `TallyStep` read `coa`.
`SuccessImpliesCompleteFile` alone says nothing about the file while `json.dump` is running.

The proof of `NextIInv` has one step per action. It cites these lemmas:
- `ProgramStmt`;
- `LoopRecordType`, which covers the derived parent and the currency of the starred loop;
- `DocType`;
- `TallyType`;
- `SortedItemsType`.

TLC checks `OutputInv` as an invariant of the main run. `FileStep` derives the action property
from `IInv`. During `json.dump` the file is `SubSeq(Doc(coa), 1, w)`, so its length is `w` and the
next write appends `Doc(coa)[Len(file) + 1]`.

`CoaBreakdownProofs` proves, under the same assumptions and with no hypothesis about the data:
- `TallyCorrect`: `Spec => []TallyInv`.
- `BreakdownCorrect`: `Spec => []BreakdownMatchesDocument`.

Both rest on `BInv == IInv /\ TallyInv`. `BreakdownMatchesDocument` alone is not inductive: it
speaks only of the printed rows, while what makes them right is what `by_type` holds during the
loop. The argument has two parts:
- **The tally step.** `OfType(accs, n, t)` is the set of indices among the first `n` accounts
  that have type `t`. `OfTypeCount` shows, with `FS_AddElement` of `FiniteSetTheorems`, that one
  more account adds one to its own type's count and leaves the others alone. `OfTypeAbsent`
  shows that a type not yet seen has count 0, which is `get(t, 0)`'s default.
  `TallyStepKeepsTallyInv` combines the two.
- **sorted().** `SortedKeysSpec` shows that the five `KeyIfPresent` pieces of `SortedKeys`
  list each key of the dict once, in strictly increasing `Rank`. It applies
  `KeyIfPresentStep` once per type name. `SortedItemsSpec` pairs each key with its count.
  `RankOfTypeOrder` fixes each name's position, because the five names are distinct.

`CoaRefinementProofs` proves, under the same assumptions, with the hypothesis
`[]BuildReturnsCatalog`:
- `RefinesOutput`: `Spec /\ []BuildReturnsCatalog => OutputSpec`.
- `FileAlwaysPrefix`: `Spec /\ []BuildReturnsCatalog => []FileIsPrefixOfDocument`.

The hypothesis says every build returns the catalog's document. `CoaLayoutProofs` (below)
derives it from the builder's actions and one fact about sequences. Both proofs rest on `RInv == IInv /\ CatalogInv`. `CatalogInv` adds three facts:
- once built, `coa` is the catalog's envelope;
- a run that has printed is in its last two phases;
- a file on disk is `SubSeq(ExpectedDoc, 1, n)` for some `n`.

The step simulation `StepRefines` has one case per action. `NoneNotFile`, an ASSUME in
`CoaMain`, keeps `None` apart from every file content.

`CoaBuilderProofs` proves what the parent rule of lines 277-278 returns for every code and root:
- a code ending in 0 gets the root (`DerivedParentOfTens`);
- any other code gets the code with its last digit zeroed (`DerivedParentOfUnits`).

`CoaLayoutProofs` removes that hypothesis. It proves, for every `Program` and from one fact
about sequences, `LayoutDeterminesCatalog`:
- `ScriptRefinesOutput`: `Spec => OutputSpec`.
- `FileIsAlwaysPrefix`: `Spec => []FileIsPrefixOfDocument`.

So the refinement rests on no assumption about what the builder returns. The proof goes through
two lemmas about the builder's actions, which hold by construction of the model:
- `BuilderReturnsStatements` (`Spec => []BuildReturnsStatements`): once built, the list holds
  every statement's records in order. It is stated through a layout `off`, where `off[g]` is the
  position that statement `g`'s records start after (`LaidOut`).
- `BuilderReturnsCatalog` (`Spec => []BuildReturnsCatalog`): under the fact about sequences, that
  list is the catalog's.

The inductive invariant is `LInv == IInv /\ BuildInv`. While the body runs, `BuildInv` says that
some `off` (`Progress(off)`) lays out statements `1..gi-1` in `accounts`, that the current
loop's first `ii - 1` records follow them, and that `ii = 1` whenever `gi` is not at a loop. At
`Wrap`, `gi = Len(Program) + 1`, so the layout covers the whole body. The argument uses two
lemmas about layouts:
- `KeepLayout`: appending after the last start position keeps a layout.
- `ExtendLayout`: placing statement `n`'s records after a layout of `1..n-1` extends it by one
  entry.

The layout replaces `FlattenSeq` because `FlattenSeq` is a recursive fold. Its value for a
general `Program` needs induction over a predicate, which the installed provers cannot do.
`LayoutDeterminesCatalog` says that a list of account records, laid out for the whole body with
the length the last start position gives, is `FlattenSeq` of the statements' records. It is true
by induction on the number of statements, and it is the one hypothesis of the two theorems.

The following are checked by TLC only:
- **Catalog properties** (`CodesUnique`, `ForestWellFormed`): they are about the data of the one
  literal `Program`, 233 records. They are not invariants of the builder's steps for a general
  `Program`, and evaluating them on the literal body is TLC's work.
- **`LayoutDeterminesCatalog`**: it needs induction over the statement list, as above. It is a
  fact about sequences, not about the program.

## Not modelled

- The `ValueError` a `for code, name in ...` loop would raise on an entry with a third element
  (line 47 and the other two-name loops). No list of the file has such an entry, so no state of
  this program enables that step. `ProgramAssumption` states its absence, and TLC evaluates it
  on every run.

- The JSON text itself: `indent=2`, key order, names, and the envelope's fixed strings. This is
  layout that no property distinguishes.
- Console wording.

## Plan for later work

- A prefix-type property (`code \div 1000` determines the type, from spec §3).
