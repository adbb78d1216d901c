----------------------------- MODULE CoaCatalog -----------------------------
(***************************************************************************)
(* The literal body of generate_comprehensive_coa() (lines 13-458) as a    *)
(* Program for CoaBuilder: one AppendStmt per accounts.append of a literal *)
(* record, one LoopStmt per for loop over a literal list.  Names are left  *)
(* out; codes, types, parents and currencies are the file's.               *)
(***************************************************************************)
EXTENDS CoaBuilder

A == "ASSET"
L == "LIABILITY"
Q == "EQUITY"
R == "REVENUE"
X == "EXPENSE"

\* accounts.append({"code": c, "type": t, "parent": p, "currency": "USD"})
One(c, t, p) ==
    [op |-> "append",
     acc |-> [code |-> c, type |-> t, parent |-> p, currency |-> "USD"]]

\* The consecutive codes a..b, as the literal lists spell most of them out.
Run(a, b) == [k \in 1..(b - a + 1) |-> a + k - 1]

\* A literal list of (code, name) pairs.
Plain(codes) == [k \in 1..Len(codes) |-> [code |-> codes[k], opts |-> <<>>]]

\* for code, name in <codes>: accounts.append({... "type": t, "parent": p})
For(t, p, codes) ==
    [op |-> "loop", type |-> t, parent |-> p, derive |-> FALSE, star |-> FALSE,
     items |-> Plain(codes)]

\* Lines 13-145: the ASSET tree under 1000.  The cash loop (lines 22-34) is
\* the one that unpacks *opts: its last three entries carry a currency.
AssetsBlock ==
    << One(1000, A, None), One(1100, A, 1000),
       [op |-> "loop", type |-> A, parent |-> 1100, derive |-> FALSE,
        star |-> TRUE,
        items |-> Plain(Run(1101, 1105))
                  \o << [code |-> 1106, opts |-> <<"EUR">>],
                        [code |-> 1107, opts |-> <<"GBP">>],
                        [code |-> 1108, opts |-> <<"JPY">>] >>],
       One(1110, A, 1100), For(A, 1110, Run(1111, 1117)),
       One(1130, A, 1100), For(A, 1130, Run(1131, 1139)),
       One(1140, A, 1100), For(A, 1140, Run(1141, 1145)),
       One(1150, A, 1100), For(A, 1150, Run(1151, 1154)),
       One(1200, A, 1000), One(1210, A, 1200),
       One(1220, A, 1200), For(A, 1220, Run(1221, 1225)),
       One(1230, A, 1200), One(1235, A, 1230),
       One(1240, A, 1200), For(A, 1240, Run(1241, 1245)),
       One(1250, A, 1200), One(1255, A, 1250),
       One(1260, A, 1200), One(1265, A, 1260),
       One(1300, A, 1000),
       For(A, 1300, <<1310, 1315, 1320, 1325, 1330, 1335, 1340, 1350, 1355,
                      1360, 1370>>) >>

\* Lines 147-212: the LIABILITY tree under 2000.
LiabilitiesBlock ==
    << One(2000, L, None), One(2100, L, 2000),
       One(2110, L, 2100), For(L, 2110, Run(2111, 2114)),
       One(2120, L, 2100), One(2121, L, 2120), One(2122, L, 2120),
       One(2130, L, 2100), For(L, 2130, Run(2131, 2136)),
       One(2140, L, 2100), One(2141, L, 2140), One(2142, L, 2140),
       One(2150, L, 2100), For(L, 2150, Run(2151, 2156)),
       One(2200, L, 2000),
       For(L, 2200, <<2210, 2220, 2230, 2240, 2250, 2260>>) >>

\* Lines 214-228: the EQUITY tree under 3000.
EquityBlock ==
    << One(3000, Q, None),
       For(Q, 3000, <<3100, 3200, 3300, 3310, 3400, 3500, 3600, 3700>>) >>

\* Lines 230-278: the REVENUE tree under 4000.  The other-revenue loop
\* (lines 266-278) derives each parent from the code, falling back to 4000.
RevenueBlock ==
    << One(4000, R, None), One(4100, R, 4000),
       For(R, 4100, <<4110, 4111, 4112, 4113, 4114, 4115, 4120, 4130>>),
       One(4200, R, 4000),
       For(R, 4200, <<4210, 4220, 4230, 4240, 4250, 4251, 4252, 4260, 4270>>),
       [op |-> "loop", type |-> R, parent |-> 4000, derive |-> TRUE,
        star |-> FALSE,
        items |-> Plain(<<4300, 4400, 4410, 4420, 4500, 4600, 4700, 4800>>)] >>

\* Lines 280-352: the EXPENSE root, cost of goods sold and the first four
\* operating-expense groups.
ExpensesBlock ==
    << One(5000, X, None), One(5100, X, 5000),
       For(X, 5100, <<5110, 5120, 5130, 5140, 5150>>),
       One(5200, X, 5000),
       One(5210, X, 5200), For(X, 5210, Run(5211, 5217)),
       One(5220, X, 5200), For(X, 5220, Run(5221, 5227)),
       One(5230, X, 5200), For(X, 5230, Run(5231, 5237)),
       One(5240, X, 5200), For(X, 5240, Run(5241, 5246)) >>

\* Mutant of OverheadsBlock: the taxes list typed with 5410 for 5510, a
\* code the interest list already holds.
OverheadsBlockDupCode ==
    << One(5250, X, 5200), For(X, 5250, Run(5251, 5254)),
       One(5260, X, 5200), For(X, 5260, Run(5261, 5264)),
       One(5270, X, 5200), For(X, 5270, Run(5271, 5275)),
       One(5280, X, 5200), For(X, 5280, Run(5281, 5285)),
       One(5290, X, 5200), For(X, 5290, Run(5291, 5294)),
       One(5300, X, 5000), For(X, 5300, <<5310, 5320, 5330, 5340>>),
       One(5400, X, 5000), For(X, 5400, <<5410, 5420, 5430, 5440>>),
       One(5500, X, 5000), For(X, 5500, <<5410, 5520, 5530, 5540, 5550>>),
       One(5600, X, 5000),
       For(X, 5600, <<5610, 5620, 5630, 5640, 5650, 5660, 5670, 5680>>) >>

\* Lines 354-458: the remaining operating-expense groups, depreciation,
\* interest, taxes and other expenses.
OverheadsBlock ==
    << One(5250, X, 5200), For(X, 5250, Run(5251, 5254)),
       One(5260, X, 5200), For(X, 5260, Run(5261, 5264)),
       One(5270, X, 5200), For(X, 5270, Run(5271, 5275)),
       One(5280, X, 5200), For(X, 5280, Run(5281, 5285)),
       One(5290, X, 5200), For(X, 5290, Run(5291, 5294)),
       One(5300, X, 5000), For(X, 5300, <<5310, 5320, 5330, 5340>>),
       One(5400, X, 5000), For(X, 5400, <<5410, 5420, 5430, 5440>>),
       One(5500, X, 5000), For(X, 5500, <<5510, 5520, 5530, 5540, 5550>>),
       One(5600, X, 5000),
       For(X, 5600, <<5610, 5620, 5630, 5640, 5650, 5660, 5670, 5680>>) >>

\* The whole body, blocks in the order the function appends them.
Catalog ==
    AssetsBlock \o LiabilitiesBlock \o EquityBlock \o RevenueBlock
      \o ExpensesBlock \o OverheadsBlock

=============================================================================
