------------------------ MODULE MCSpectrumAnalyser ------------------------
(***************************************************************************)
(* Model-checking instance of SpectrumAnalyser. Bin counts 8, 4 and 2 keep *)
(* the relations of 2^14 and its halves, and the plotter starts, as with   *)
(* 1024 of 2^14, with a count that is neither the largest nor the          *)
(* smallest. The total count is one word: with two of them a spectrum of 2 *)
(* bins would be as long as 4 bins, and none would ever be refused.        *)
(***************************************************************************)
EXTENDS SpectrumAnalyser

SmallWindows == {0, 100}

\* Shorter than every bin count, and as long as one of them.
ShortAndLong == {1, 4}

=============================================================================
