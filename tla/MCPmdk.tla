-------------------------------- MODULE MCPmdk --------------------------------
(***************************************************************************)
(* The parts of the libpmemobj headers, none of which touches the state of *)
(* another: the pool cache, the transaction block, the typed objects, the  *)
(* loops over a pool and the lists.  As in MCParts a behaviour chooses one *)
(* part, the others rest in one of their initial states.                   *)
(***************************************************************************)
EXTENDS DirectCache, TxBlock, Layout, Iterate, ObjList

VARIABLE part

pmdkVars == <<part, vars, txVars, layoutVars, iterateVars, listVars>>

\* TxBlock: WORK sections of up to three settings of two fields, one twice.
MCFields == {"f", "g"}
MCPrograms == {<< >>, <<"f">>, <<"f", "g">>, <<"g", "f", "g">>}

\* Layout: two types beside the root type and two places for objects.
MCTypeNames == {"a", "b", "root"}
MCPlaces == {1, 2}

\* Iterate: three places for objects of two types.
MCObjects == 1 .. 3
MCTypes == {"a", "b"}

\* ObjList: three objects are allocated, moved over two lists and freed.
MCElements == 1 .. 3

\* States that differ only in the last operation on a list, which no action
\* reads, are explored once; each step still checks its own.
View == <<part, vars, txVars, layoutVars, iterateVars, links, heap, cursor, kept, gone>>

PmdkInit ==
  /\ part \in {"cache", "tx", "layout", "loop", "list"}
  /\ Init
  /\ part # "tx" => /\ POBJ_TX_CRASH_ON_NO_ONABORT = FALSE /\ sections = {}
                    /\ work = << >>
  /\ TxInit
  /\ part # "layout" => counter = 0
  /\ LayoutInit
  /\ part # "loop" => /\ kind = "FOREACH" /\ wanted = "a"
                      /\ type_num = [o \in 1 .. 3 |-> "a"] /\ live = {}
  /\ IterateInit
  /\ part # "list" => heap = {}
  /\ ListInit

CachePart == part = "cache" /\ Next

TxPart == part = "tx" /\ TxNext

LayoutPart == part = "layout" /\ LayoutNext

LoopPart == part = "loop" /\ IterateNext

ListPart == part = "list" /\ ListNext

PmdkNext ==
  /\ UNCHANGED part
  /\ \/ CachePart  /\ UNCHANGED <<txVars, layoutVars, iterateVars, listVars>>
     \/ TxPart     /\ UNCHANGED <<vars, layoutVars, iterateVars, listVars>>
     \/ LayoutPart /\ UNCHANGED <<vars, txVars, iterateVars, listVars>>
     \/ LoopPart   /\ UNCHANGED <<vars, txVars, layoutVars, listVars>>
     \/ ListPart   /\ UNCHANGED <<vars, txVars, layoutVars, iterateVars>>

\* The part that was chosen is as fair as it is alone.
FairStep ==
  \/ part = "tx" /\ BlockStep /\ UNCHANGED <<vars, layoutVars, iterateVars, listVars>>
  \/ part = "loop" /\ LoopStep /\ UNCHANGED <<vars, txVars, layoutVars, listVars>>
  \/ part = "list" /\ ForeachNext /\ UNCHANGED <<vars, txVars, layoutVars, iterateVars>>

PmdkSpec == PmdkInit /\ [][PmdkNext]_pmdkVars /\ WF_pmdkVars(UNCHANGED part /\ FairStep)
-------------------------------------------------------------------------------
\* The properties of the parts, each of which holds of its part at rest as well.

\* Transaction blocks and loops end, whatever sections are missing and whatever
\* their bodies allocate and free.
LoopsEnd ==
  /\ part = "tx" => BlockEnds
  /\ part = "loop" => LoopEnds
  /\ part = "list" => ForeachEnds
=============================================================================
