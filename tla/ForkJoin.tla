------------------------------- MODULE ForkJoin -------------------------------
(***************************************************************************)
(* What a run function of the benchmark promises about its [SUM] lines: a  *)
(* team of workers reports once each, and the total is published once, for *)
(* the reports of the whole team, after which no report changes.           *)
(***************************************************************************)
CONSTANTS
  Worker,      \* everything that could report
  Report,      \* the possible reports
  Total(_, _)  \* the total of a function from workers to reports, by role

VARIABLES
  team,        \* the workers of this run
  readers,     \* those of them that read
  report,      \* a function whose domain is the workers that have reported
  total        \* << >>, or a one-element sequence once published

vars == <<team, readers, report, total>>

Init ==
  /\ team \subseteq Worker
  /\ readers \subseteq team
  /\ DOMAIN report = {}
  /\ total = << >>

Deliver(w) ==
  /\ w \in team \ DOMAIN report
  /\ total = << >>
  /\ DOMAIN report' = DOMAIN report \cup {w}
  /\ report'[w] \in Report
  /\ \A x \in DOMAIN report : report'[x] = report[x]
  /\ UNCHANGED <<team, readers, total>>

Publish ==
  /\ DOMAIN report = team
  /\ total = << >>
  /\ total' = <<Total(report, readers)>>
  /\ UNCHANGED <<team, readers, report>>

Next == Publish \/ \E w \in Worker : Deliver(w)

Spec == Init /\ [][Next]_vars
=============================================================================
