------------------------------- MODULE MCText -------------------------------
(* Instance of Text for TLC.                                                *)
EXTENDS Text

MCLetters == {"a"}

MCSpecial == {"_"}

MCDigits == {"0", "4"}

MCDigitValue == [c \in MCDigits |-> IF c = "4" THEN 4 ELSE 0]

MCNarrow == {" ", "\t", ":", "a"}
=============================================================================
