--------------------------------- MODULE Sheets ---------------------------------
(***************************************************************************)
(* The two scripts of py/ that turn result files into sheets.  They run on *)
(* different directories and share nothing.                                *)
(***************************************************************************)
EXTENDS Integers, Sequences, FiniteSets

CONSTANTS
  Sizes, Names, Pairs, Other, SumTexts,               \* of HandleData
  Counts, Values, Lines, MixedTexts, MaxFiles         \* of HandleMixedData

VARIABLES
  files, listing, l_size, column, row, table,         \* of HandleData
  mixed_files, l_thread, next, tables                 \* of HandleMixedData

sheetVars == <<files, listing, l_size, column, row, table>>
mixedVars == <<mixed_files, l_thread, next, tables>>

H == INSTANCE HandleData WITH Texts <- SumTexts, a <- column, b <- row

X == INSTANCE HandleMixedData WITH Texts <- MixedTexts, files <- mixed_files

ASSUME SheetsAssumption ==
  /\ H!HandleDataAssumption
  /\ X!HandleMixedDataAssumption

SheetsSpec == H!Spec /\ X!Spec

\* Every result file is on the first script's sheet and its last [SUM] counts; the
\* last column's labels are right, those of the others if all directories were
\* listed alike.  On the sheets of the second script each file with counts above
\* 0 has the cell of its two counts, and every count above 0 its own label.
SheetsInv ==
  /\ H!TypeOK
  /\ H!LastColumnTrue
  /\ H!LabelsTellTruth
  /\ H!NothingLost
  /\ X!TypeOK
  /\ X!CellIsItsFile
  /\ X!LabelsOwnCount
=============================================================================
