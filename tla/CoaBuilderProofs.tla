--------------------------- MODULE CoaBuilderProofs ---------------------------
(***************************************************************************)
(* What the other-revenue loop's parent rule (lines 277-278) computes, for *)
(* every code and every fallback root.                                      *)
(***************************************************************************)
EXTENDS CoaBuilder, TLAPS

\* A code that does not end in 0 gets the code with its last digit zeroed,
\* an account of the same group of ten.
THEOREM DerivedParentOfUnits ==
    ASSUME NEW code \in Nat, NEW root \in Nat, code % 10 # 0
    PROVE  DerivedParent(code, root) = code - (code % 10)
<1>1. code % 100 # 0
  <2>1. SUFFICES ASSUME code % 100 = 0 PROVE FALSE
    OBVIOUS
  <2>2. code = (code \div 100) * 100
    BY <2>1, SMT
  <2>3. PICK m \in Nat : code = m * 10
    BY <2>2, SMT
  <2>4. code % 10 = 0
    BY <2>3, SMT
  <2>. QED
    BY <2>4
<1>2. (code \div 10) * 10 = code - (code % 10)
  BY SMT
<1>. QED
  BY <1>1, <1>2 DEF DerivedParent

\* A code that ends in 0 -- every code the file gives the loop -- gets the
\* root, whether or not it ends in 00: "code[:-1] + '0'" is the code
\* itself, and the self-parent check falls back.  So spec section 9's
\* "degenerates only for codes ending in 00" does not hold for 4410, 4420.
THEOREM DerivedParentOfTens ==
    ASSUME NEW code \in Nat, NEW root \in Nat, code % 10 = 0
    PROVE  DerivedParent(code, root) = root
<1>1. CASE code % 100 = 0
  BY <1>1 DEF DerivedParent
<1>2. CASE code % 100 # 0
  <2>1. (code \div 10) * 10 = code
    BY SMT
  <2>. QED
    BY <1>2, <2>1 DEF DerivedParent
<1>. QED
  BY <1>1, <1>2

=============================================================================
