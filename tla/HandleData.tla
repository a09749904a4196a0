------------------------------ MODULE HandleData ------------------------------
(***************************************************************************)
(* py/handle_data.py, for one benchmark of one experiment, that is for one *)
(* sheet: the directories of the block sizes become the columns, the       *)
(* result files of a directory the rows, both in the order in which        *)
(* os.listdir happens to return them.  Latency and throughput go to two    *)
(* sheets that are filled alike; the model fills one with pairs.           *)
(***************************************************************************)
EXTENDS Integers, Sequences, FiniteSets

CONSTANTS
  Sizes,      \* the directories of the benchmark
  Names,      \* the names of result files
  Pairs,      \* what an [SUM] line may say: a latency and a throughput
  Other,      \* any other line of a result file
  Texts       \* the texts a result file may have, sequences of lines

HandleDataAssumption ==
  /\ IsFiniteSet(Sizes) /\ IsFiniteSet(Names)
  /\ Texts \subseteq Seq(Pairs \cup {Other})
  /\ Other \notin Pairs

VARIABLES
  files,      \* files[s][n]: the text of file n of directory s
  listing,    \* listing[s]: what os.listdir returns for directory s
  l_size,     \* what it returns for the benchmark
  a,          \* the column
  b,          \* the row, 0 between two columns
  table       \* the sheet: a function of the row and the column

vars == <<files, listing, l_size, a, b, table>>

\* The ways to list a finite set.
Orders(S) == {s \in [1 .. Cardinality(S) -> S] : {s[i] : i \in DOMAIN s} = S}

Zeros == <<0, 0>>

IsSum(line) == line # Other

\* Line by line: each that matches replaces what was found.
get_latency_and_throughput(text) ==
  LET found[i \in 0 .. Len(text)] ==
        IF i = 0 THEN Zeros ELSE IF IsSum(text[i]) THEN text[i] ELSE found[i - 1]
  IN  found[Len(text)]

Init ==
  /\ \E present \in [Sizes -> SUBSET Names] :
       /\ files \in {f \in [Sizes -> UNION {[N -> Texts] : N \in SUBSET Names}] :
                       \A s \in Sizes : DOMAIN f[s] = present[s]}
       /\ listing \in {l \in [Sizes -> UNION {Orders(N) : N \in SUBSET Names}] :
                         \A s \in Sizes : l[s] \in Orders(present[s])}
  /\ l_size \in Orders(Sizes)
  /\ a = 1 /\ b = 0 /\ table = << >>

\* The sheet t with a cell written, whatever it held.
write(t, cell, value) == [p \in DOMAIN t \cup {cell} |-> IF p = cell THEN value ELSE t[p]]

\* The head of a column.
Size ==
  /\ b = 0 /\ a <= Len(l_size)
  /\ table' = write(table, <<0, a>>, l_size[a])
  /\ b' = 1
  /\ UNCHANGED <<files, listing, l_size, a>>

l_thread == listing[l_size[a]]

\* Mutated: the label of a row is written with the first column only.
ThreadLabelsOnce ==
  /\ 0 < b /\ b <= Len(l_thread)
  /\ LET thread == l_thread[b]
         value == get_latency_and_throughput(files[l_size[a]][thread])
     IN  table' = write(IF a = 1 THEN write(table, <<b, 0>>, thread) ELSE table,
                        <<b, a>>, value)
  /\ b' = b + 1
  /\ UNCHANGED <<files, listing, l_size, a>>

\* A file: the label of its row, written again for every column, and its value.
Thread ==
  /\ 0 < b /\ b <= Len(l_thread)
  /\ LET thread == l_thread[b]
         value == get_latency_and_throughput(files[l_size[a]][thread])
     IN  table' = write(write(table, <<b, 0>>, thread), <<b, a>>, value)
  /\ b' = b + 1
  /\ UNCHANGED <<files, listing, l_size, a>>

NextSize ==
  /\ 0 < b /\ b > Len(l_thread)
  /\ a' = a + 1 /\ b' = 0
  /\ UNCHANGED <<files, listing, l_size, table>>

\* All columns are there, and the workbook is saved.
Saved == a > Len(l_size)

Next == Size \/ Thread \/ NextSize \/ (Saved /\ UNCHANGED vars)

Spec == Init /\ [][Next]_vars
-------------------------------------------------------------------------------
\* Types; the cells lie in the rectangle of the directories and the most files.
TypeOK ==
  /\ a \in 1 .. Cardinality(Sizes) + 1
  /\ b \in 0 .. Cardinality(Names) + 1
  /\ DOMAIN table \subseteq (0 .. Cardinality(Names)) \X (0 .. Cardinality(Sizes))
  /\ \A p \in DOMAIN table :
       table[p] \in (IF p[1] = 0 THEN Sizes ELSE IF p[2] = 0 THEN Names
                     ELSE Pairs \cup {Zeros})

\* What a file reports: its last [SUM] line, stated without the search.
Reports(text, v) ==
  \/ \E i \in DOMAIN text :
       text[i] = v /\ v # Other /\ \A j \in i + 1 .. Len(text) : text[j] = Other
  \/ v = Zeros /\ \A i \in DOMAIN text : text[i] = Other

Cells == {p \in DOMAIN table : p[1] > 0 /\ p[2] > 0}

\* The head of the column and the label of the row name a file with this value.
Truthful(p) ==
  /\ {<<0, p[2]>>, <<p[1], 0>>} \subseteq DOMAIN table
  /\ LET s == table[<<0, p[2]>>]
         n == table[<<p[1], 0>>]
     IN  n \in DOMAIN files[s] /\ Reports(files[s][n], table[p])

\* The rows of the column that was filled last are labelled with the files
\* they come from, whatever the order of the listings.
LastColumnTrue == \A p \in Cells : p[2] = a => Truthful(p)

\* If all directories hold the same names and are listed in the same order, each
\* cell says what the file of its row and column reports.  Without this the
\* labels of the last column stand beside the values of all others.
LabelsTellTruth ==
  (\A s, t \in Sizes : listing[s] = listing[t]) => \A p \in Cells : Truthful(p)

\* In the saved sheet every file has a cell of its own in the column of its
\* directory, also where the labels of the rows are wrong.
NothingLost ==
  Saved => \A c \in DOMAIN l_size :
    /\ table[<<0, c>>] = l_size[c]
    /\ LET s == l_size[c]
           rows == {r \in 1 .. Cardinality(Names) : <<r, c>> \in DOMAIN table}
       IN  /\ rows = 1 .. Cardinality(DOMAIN files[s])
           /\ \A v \in Pairs \cup {Zeros} :
                Cardinality({r \in rows : table[<<r, c>>] = v})
                  = Cardinality({n \in DOMAIN files[s] : Reports(files[s][n], v)})
=============================================================================
