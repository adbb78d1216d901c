----------------------------- MODULE CoaBuilder -----------------------------
(***************************************************************************)
(* generate_comprehensive_coa() of                                          *)
(* src/examples/financial-sim/generate-comprehensive-coa.py, one step per   *)
(* statement it executes.                                                   *)
(*                                                                          *)
(* The function body is a straight-line sequence of two kinds of statement: *)
(* a single accounts.append({...}) of a literal record, and a for loop that *)
(* appends one record per entry of a literal list, with a fixed type, a    *)
(* fixed or derived parent, and a currency taken from the entry's optional *)
(* third element.  The body is the constant Program, a sequence of such     *)
(* statements (CoaCatalog gives the one the file contains); the builder    *)
(* walks it with a statement index gi and a loop-entry index ii, then      *)
(* wraps the list in the chart_of_accounts envelope.                       *)
(*                                                                          *)
(* Data abstraction: the account name, the envelope's descriptive strings   *)
(* and the extra empty "regulation" key of the root 1000 are left out: no   *)
(* property reads them.  Codes are the integers their 4-digit strings       *)
(* denote; MCCoaMain checks that the string slicing of the derived-parent *)
(* rule agrees with the arithmetic used here on every 4-digit code.       *)
(***************************************************************************)
EXTENDS Naturals, Sequences, SequencesExt

CONSTANTS
    Program,    \* the statements of generate_comprehensive_coa, in order
    None        \* Python's None (the parent of a root account)

\* The five values of the "type" field.
AccountTypes == {"ASSET", "LIABILITY", "EQUITY", "REVENUE", "EXPENSE"}

\* The values of the "currency" field: "USD", and the codes the cash loop's
\* entries carry.
Currencies == {"USD", "EUR", "GBP", "JPY"}

\* An account record: {"code", "type", "parent", "currency"}.
Account == [code : Nat, type : AccountTypes, parent : Nat \cup {None},
            currency : Currencies]

\* An entry of a loop's literal list: (code, name, *opts); opts holds the
\* optional currency.
Entry == [code : Nat, opts : Seq(Currencies)]

\* accounts.append({...}) of one literal record.
AppendStmt == [op : {"append"}, acc : Account]

\* for code, name[, *opts] in <list>: accounts.append({... "type": type,
\* "parent": parent ...}).  star: the loop unpacks *opts (only the cash
\* loop); derive: the parent is computed from the code (the other-revenue
\* loop), with parent as the fallback.
LoopStmt == [op : {"loop"}, type : AccountTypes, parent : Nat,
             derive : BOOLEAN, star : BOOLEAN, items : Seq(Entry)]

Stmt == AppendStmt \cup LoopStmt

ASSUME NoneAssumption == None \notin Nat

ASSUME ProgramAssumption ==
    /\ Program \in Seq(Stmt)
    \* A loop written "for code, name in ..." raises ValueError on an entry
    \* with a third element; the file has no such entry.
    /\ \A g \in 1..Len(Program) :
          Program[g].op = "loop" /\ ~Program[g].star =>
             \A k \in 1..Len(Program[g].items) : Program[g].items[k].opts = <<>>

VARIABLES
    phase,      \* "build" while the body runs, "built" once it returned
    accounts,   \* the local list accounts
    gi,         \* index in Program of the statement being executed
    ii,         \* index of the next entry of the current loop's list
    coa         \* the returned document, None before the return

builderVars == <<phase, accounts, gi, ii, coa>>

\* Mutant of DerivedParent: the "parent != code" fallback of line 278 left
\* out.
DerivedParentNoFallback(code, root) ==
    IF code % 100 = 0 THEN root ELSE (code \div 10) * 10

(***************************************************************************)
(* The other-revenue loop's parent, lines 277-278:                          *)
(*   parent = "4000" if code.endswith("00") else code[:-1] + "0"            *)
(*   "parent": parent if parent != code else "4000"                         *)
(* with root = 4000.                                                        *)
(***************************************************************************)
DerivedParent(code, root) ==
    LET p == IF code % 100 = 0 THEN root ELSE (code \div 10) * 10
    IN  IF p # code THEN p ELSE root

\* The parent a loop gives the entry with this code.
LoopParent(s, code) ==
    IF s.derive THEN DerivedParent(code, s.parent) ELSE s.parent

\* currency = opts[0] if opts else "USD" in the starred loop; the other
\* loops write "USD".
LoopCurrency(s, e) ==
    IF s.star /\ e.opts # <<>> THEN e.opts[1] ELSE "USD"

\* The record the loop body appends for entry e.
LoopRecord(s, e) ==
    [code |-> e.code, type |-> s.type, parent |-> LoopParent(s, e.code),
     currency |-> LoopCurrency(s, e)]

\* The envelope built at lines 461-471: account_count is len(accounts);
\* described is the count the description string claims ("Comprehensive
\* CoA with 500+ accounts ...", line 464), the one part of the fixed
\* metadata a property reads.
Envelope(accs) ==
    [account_count |-> Len(accs), described |-> 500, accounts |-> accs]

BuilderInit ==
    /\ phase = "build"
    /\ accounts = <<>>
    /\ gi = 1
    /\ ii = 1
    /\ coa = None

\* accounts.append({...}) of a literal record.
AppendLiteral ==
    /\ phase = "build"
    /\ gi <= Len(Program)
    /\ Program[gi].op = "append"
    /\ accounts' = Append(accounts, Program[gi].acc)
    /\ gi' = gi + 1
    /\ UNCHANGED <<phase, ii, coa>>

\* One iteration of a for loop over a literal list.
LoopBody ==
    /\ phase = "build"
    /\ gi <= Len(Program)
    /\ Program[gi].op = "loop"
    /\ ii <= Len(Program[gi].items)
    /\ accounts' = Append(accounts, LoopRecord(Program[gi], Program[gi].items[ii]))
    /\ ii' = ii + 1
    /\ UNCHANGED <<phase, gi, coa>>

\* The loop's list is exhausted: control passes to the next statement.
LoopExit ==
    /\ phase = "build"
    /\ gi <= Len(Program)
    /\ Program[gi].op = "loop"
    /\ ii > Len(Program[gi].items)
    /\ gi' = gi + 1
    /\ ii' = 1
    /\ UNCHANGED <<phase, accounts, coa>>

\* coa = {"chart_of_accounts": {...}}; return coa.
Wrap ==
    /\ phase = "build"
    /\ gi > Len(Program)
    /\ coa' = Envelope(accounts)
    /\ phase' = "built"
    /\ UNCHANGED <<accounts, gi, ii>>

(***************************************************************************)
(* Properties of the list the body builds.                                  *)
(***************************************************************************)

\* Every account code is unique across the whole list (spec section 8).  The
\* list is some 250 hand-typed literals in 40 groups; a code typed twice in
\* two groups far apart is the copy-paste slip no code path detects.
CodesUnique ==
    \A i, j \in 1..Len(accounts) :
        i # j => accounts[i].code # accounts[j].code

\* The list is a forest of typed trees, built top-down: an account has parent
\* None exactly when its code is a multiple of 1000 (the five roots), and
\* any other account's parent is the code of an account appended EARLIER,
\* of the same type.  Breaks on a dangling parent, on a parent appended after
\* its child, on a record parented to itself, and on a group put under
\* another type's tree.
ForestWellFormed ==
    \A i \in 1..Len(accounts) :
        LET a == accounts[i] IN
        /\ (a.parent = None) <=> (a.code % 1000 = 0)
        /\ a.parent # None =>
              \E j \in 1..(i - 1) : /\ accounts[j].code = a.parent
                                   /\ accounts[j].type = a.type

\* The records one statement of the body appends, in order.
StmtRecords(s) ==
    IF s.op = "append" THEN <<s.acc>>
    ELSE [k \in 1..Len(s.items) |-> LoopRecord(s, s.items[k])]

\* The records of the whole body, concatenated in program order.
CatalogAccounts ==
    FlattenSeq([g \in 1..Len(Program) |-> StmtRecords(Program[g])])

\* Once the function has returned, the document holds exactly the records of
\* all statements in program order, and account_count is their number, so
\* every run emits the same document.  The model's indices gi and ii stand
\* for Python's own iteration, so this holds by construction; it is the
\* hypothesis of CoaRefinementProofs, which CoaLayoutProofs discharges.
BuildReturnsCatalog ==
    phase = "built" => coa = Envelope(CatalogAccounts)

\* off lays out the records of statements 1..n-1 in accs: nothing precedes
\* the first statement's records, and statement g's records sit, in order,
\* at the positions after off[g], up to off[g + 1].
LaidOut(accs, n, off) ==
    /\ off[1] = 0
    /\ \A g \in 1..(n - 1) :
          /\ off[g + 1] = off[g] + Len(StmtRecords(Program[g]))
          /\ \A k \in 1..Len(StmtRecords(Program[g])) :
                accs[off[g] + k] = StmtRecords(Program[g])[k]

\* The candidate layouts of the whole body: where each statement's records
\* start.
Layouts == [1..Len(Program) + 1 -> Nat]

\* BuildReturnsCatalog with the concatenation spelt out position by
\* position: once the function has returned, account_count is the length
\* of the list, and the list is the records of every statement in program
\* order, each loop's in the order of its literal list, with nothing
\* skipped, repeated or added.
BuildReturnsStatements ==
    phase # "build" =>
        /\ coa = Envelope(coa.accounts)
        /\ \E off \in Layouts :
              /\ LaidOut(coa.accounts, Len(Program) + 1, off)
              /\ Len(coa.accounts) = off[Len(Program) + 1]

\* The document's description (and the module docstring, line 3) promise
\* 500+ accounts; once built, account_count should be at least that.
DescriptionMatchesCount ==
    phase = "built" => coa.account_count >= coa.described

\* The codes of the entries of a loop that derives its parents.
DerivedCodes ==
    UNION {{e.code : e \in ToSet(Program[g].items)} :
              g \in {h \in 1..Len(Program) :
                        Program[h].op = "loop" /\ Program[h].derive}}

\* Spec section 9: the other-revenue derivation "for a code already ending
\* in two zeros ... can degenerate and fall back to the top-level root".
\* Read as a promise, any other code of that loop gets a parent below the
\* root (4410 and 4420 under "Rental Income" 4400).
DerivedFallbackOnlyForHundreds ==
    \A i \in 1..Len(accounts) :
        accounts[i].code \in DerivedCodes /\ accounts[i].code % 100 # 0
            => accounts[i].parent % 1000 # 0

BuilderNext == AppendLiteral \/ LoopBody \/ LoopExit \/ Wrap

BuilderSpec == BuilderInit /\ [][BuilderNext]_builderVars

=============================================================================
