------------------------------ MODULE MCCoaMain ------------------------------
(***************************************************************************)
(* The whole script on the file's own body, run twice, and a check of the  *)
(* arithmetic DerivedParent against the string operations of lines 277-278.*)
(***************************************************************************)
EXTENDS CoaMain, MCCoaBuilder

\* The 4-digit string of a code, as a sequence of digits.
Digits(n) == <<n \div 1000, (n \div 100) % 10, (n \div 10) % 10, n % 10>>

\* Lines 277-278 on the string s:
\*   parent = "4000" if s.endswith("00") else s[:-1] + "0"
\*   parent if parent != s else "4000"
StrDerivedParent(s) ==
    LET p == IF SubSeq(s, 3, 4) = <<0, 0>> THEN Digits(4000)
             ELSE Append(SubSeq(s, 1, 3), 0)
    IN  IF p # s THEN p ELSE Digits(4000)

\* On every 4-digit code the string rule and DerivedParent agree.
ASSUME DerivedParentMatchesStrings ==
    \A n \in 1000..9999 : StrDerivedParent(Digits(n)) = Digits(DerivedParent(n, 4000))


=============================================================================
