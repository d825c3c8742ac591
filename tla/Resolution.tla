----------------------------- MODULE Resolution -----------------------------
(***************************************************************************)
(* What resolving an executable's symbols promises, without threads, locks *)
(* or a bounded ring: files that have been discovered hand over the        *)
(* symbols they need, in table order, to one queue; each queued symbol is  *)
(* looked up exactly once, in arrival order, and either discovers a library*)
(* or is recorded as unresolved.  Resolution may close when the queue is   *)
(* empty; nothing here says that all files have then been heard.           *)
(***************************************************************************)
EXTENDS SymNeeds

VARIABLES
  queue,       \* symbols handed over and not yet looked up
  sent,        \* per file, the next .dynsym entry to consider
  deps,        \* libraries discovered
  unresolved,  \* symbols no library defines
  open         \* FALSE once resolution has closed

vars == <<queue, sent, deps, unresolved, open>>

Init ==
  /\ queue = <<>>
  /\ sent = [f \in Files |-> 1]
  /\ deps = {}
  /\ unresolved = {}
  /\ open = TRUE

Discovered(f) == f = Exe \/ f \in deps

HasNext(f) == f \notin Refused /\ sent[f] <= Len(DynSym[f])

Advance(f) == sent' = [sent EXCEPT ![f] = @ + 1]

(* A discovered file hands over the next symbol it needs.                  *)
Contribute(f) ==
  /\ Discovered(f) /\ HasNext(f)
  /\ Wanted(DynSym[f][sent[f]])
  /\ queue' = Append(queue, DynSym[f][sent[f]].name)
  /\ Advance(f)
  /\ UNCHANGED <<deps, unresolved, open>>

(* A discovered file passes over an entry it has no need to resolve.       *)
Pass(f) ==
  /\ Discovered(f) /\ HasNext(f)
  /\ ~Wanted(DynSym[f][sent[f]])
  /\ Advance(f)
  /\ UNCHANGED <<queue, deps, unresolved, open>>

(* The oldest queued symbol is looked up.                                  *)
Resolve ==
  /\ open /\ queue # <<>>
  /\ queue' = Tail(queue)
  /\ LET s == Head(queue) IN
       IF Lookup[s] = NoLib
       THEN unresolved' = unresolved \cup {s} /\ UNCHANGED deps
       ELSE deps' = deps \cup {Lookup[s]} /\ UNCHANGED unresolved
  /\ UNCHANGED <<sent, open>>

Close ==
  /\ open /\ queue = <<>>
  /\ open' = FALSE
  /\ UNCHANGED <<queue, sent, deps, unresolved>>

Next == Resolve \/ Close \/ \E f \in Files : Contribute(f) \/ Pass(f)

Spec == Init /\ [][Next]_vars
=============================================================================
