--------------------------- MODULE HandleMixedData ---------------------------
(***************************************************************************)
(* py/handle_mixed_data.py, for one directory: a result file r_w.result    *)
(* has its place from its name, row r and column w of a sheet for the      *)
(* readers and of one for the writers, in whatever order os.listdir        *)
(* returns the files.  As latency and throughput are handled alike, the    *)
(* model has them as one value.                                            *)
(*                                                                         *)
(* Premise: the directory holds such files only, one for a pair of counts. *)
(* Any other name ends the script with an exception before it saves.       *)
(***************************************************************************)
EXTENDS Integers, Sequences, FiniteSets

CONSTANTS
  Counts,     \* the numbers of threads in the names of files
  Values,     \* what a line may say: a latency and a throughput
  Lines,      \* records: the tag READ, WRITE or another, and a value
  Texts,      \* the texts a result file may have
  MaxFiles    \* the most files in the directory

HandleMixedDataAssumption ==
  /\ Counts \subseteq Nat /\ IsFiniteSet(Counts)
  /\ Lines \subseteq [tag : STRING, value : Values]
  /\ Texts \subseteq Seq(Lines)
  /\ MaxFiles \in Nat

Kinds == {"READ", "WRITE"}
Result(l, t) == [latency |-> l, throughput |-> t]
Zeros == Result(0, 0)

VARIABLES
  files,      \* the text of each file, by its name <<r, w>>
  l_thread,   \* the order of the listing
  next,       \* the index of the file to handle next
  tables      \* the two sheets, functions of row and column

vars == <<files, l_thread, next, tables>>

\* Line by line: each that matches a kind replaces what was found for it.
Found(text, k) ==
  LET found[i \in 0 .. Len(text)] ==
        IF i = 0 THEN Zeros ELSE IF text[i].tag = k THEN text[i].value ELSE found[i - 1]
  IN  found[Len(text)]

get_latency_and_throughput(text) == [k \in Kinds |-> Found(text, k)]

Orders(S) == {s \in [1 .. Cardinality(S) -> S] : {s[i] : i \in DOMAIN s} = S}

Init ==
  /\ \E names \in {N \in SUBSET (Counts \X Counts) : Cardinality(N) <= MaxFiles} :
       files \in [names -> Texts] /\ l_thread \in Orders(names)
  /\ next = 1
  /\ tables = [k \in Kinds |-> << >>]

Label(text, n) == [text |-> text, count |-> n]

\* The sheet t with a cell written, whatever it held.
write(t, cell, value) == [p \in DOMAIN t \cup {cell} |-> IF p = cell THEN value ELSE t[p]]

\* The labels of row r and of column w; in the corner the later one stays.
Labelled(t, r, w) ==
  write(write(t, <<r, 0>>, Label("read_", r)), <<0, w>>, Label("write_", w))

\* A file: its value, then the labels of its row and its column.
Thread ==
  /\ next <= Len(l_thread)
  /\ LET name == l_thread[next]
         found == get_latency_and_throughput(files[name])
     IN  tables' = [k \in Kinds |->
                      Labelled(write(tables[k], name, found[k]), name[1], name[2])]
  /\ next' = next + 1
  /\ UNCHANGED <<files, l_thread>>

Saved == next > Len(l_thread)

Next == Thread \/ (Saved /\ UNCHANGED vars)

Spec == Init /\ [][Next]_vars
-------------------------------------------------------------------------------
Border(p) == p[1] = 0 \/ p[2] = 0

Handled == {l_thread[i] : i \in 1 .. next - 1}

\* What a file reports of a kind: its last line of it, stated without the search.
Reports(text, k, v) ==
  \/ \E i \in DOMAIN text :
       /\ text[i] = [tag |-> k, value |-> v]
       /\ \A j \in i + 1 .. Len(text) : text[j].tag # k
  \/ v = Zeros /\ \A i \in DOMAIN text : text[i].tag # k

\* Types; the border of a sheet holds labels only and the inside values only,
\* also where a file with a count of 0 would put a value on the border.
TypeOK ==
  /\ next \in 1 .. Len(l_thread) + 1
  /\ \A k \in Kinds : \A p \in DOMAIN tables[k] :
       /\ p \in (Counts \cup {0}) \X (Counts \cup {0})
       /\ tables[k][p] \in (IF Border(p)
                            THEN [text : {"read_", "write_"}, count : Counts]
                            ELSE Values \cup {Zeros})

\* Away from the border a sheet holds a value exactly where a file was handled,
\* and the value is what this file reports, whatever the order of the listing
\* and whichever combinations of counts were not run.
CellIsItsFile ==
  \A k \in Kinds :
    /\ {p \in DOMAIN tables[k] : ~ Border(p)} = {p \in Handled : ~ Border(p)}
    /\ \A p \in Handled : ~ Border(p) => Reports(files[p], k, tables[k][p])

\* Every row and column of the saved sheet has the label with its own count.
LabelsOwnCount ==
  Saved => \A k \in Kinds : \A p \in DOMAIN files :
    /\ p[1] > 0 => tables[k][<<p[1], 0>>] = Label("read_", p[1])
    /\ p[2] > 0 => tables[k][<<0, p[2]>>] = Label("write_", p[2])
=============================================================================
