--------------------------------- MODULE Links ---------------------------------
(***************************************************************************)
(* The text in the INP or OUT field of a record (EntityAddrType.cpp): the  *)
(* characters that count in it, and how the arguments of an OEM command    *)
(* are split.                                                              *)
(*                                                                         *)
(* A text is a sequence of pieces.  The characters that the code looks at  *)
(* - blank, tab, quote, dot, dash, underscore - are pieces of their own,   *)
(* and whatever is between them is a piece; letters are in lower case, to  *)
(* which the code converts the texts that it compares.                     *)
(***************************************************************************)
EXTENDS Integers, Sequences, SequencesExt

Blank == " "
Tab == "\t"
Quote == "'"
Dash == "-"
Special == {Blank, Tab, Quote, ".", Dash, "_"}

FindBlank(text, i) ==
    SelectInSubSeq(text, i, Len(text), LAMBDA c : c = Blank)

FindNonBlank(text, i) ==
    SelectInSubSeq(text, i, Len(text), LAMBDA c : c # Blank)

-----------------------------------------------------------------------------
(* A number assigned to a uint8_t.                                         *)
Byte(n) == n % 256

-----------------------------------------------------------------------------
(* What follows the command of an OEM link: nothing, or a blank and then   *)
(* at least two characters, of which the first is a letter or a digit.     *)
(* single are the pieces that are one character long.                      *)
ArgumentsMatch(text, single) ==
    \/ text = <<>>
    \/ /\ Len(text) >= 2
       /\ text[1] = Blank
       /\ text[2] \notin Special
       /\ Len(text) > 2 \/ text[2] \notin single
       /\ \A i \in DOMAIN text : text[i] \notin {Quote, "."}

(* The arguments are what is between the blanks, and only between blanks.  *)
(* The last one ends at npos (here 0), from which nothing more is found.   *)
SplitAtBlanks(text) ==
    LET from[i \in 1 .. Len(text) + 1] ==
            LET start == FindNonBlank(text, i)
                end == FindBlank(text, start)
            IN  IF start = 0 THEN <<>>
                ELSE IF end = 0 THEN <<SubSeq(text, start, Len(text))>>
                ELSE <<SubSeq(text, start, end - 1)>> \o from[end]
    IN  from[1]
=============================================================================
