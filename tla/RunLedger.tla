------------------------------ MODULE RunLedger ------------------------------
(***************************************************************************)
(* What one discovery run promises about the jobs it reads, whatever its   *)
(* producers, queue, savepoints and deadline do: a job is read, then has   *)
(* exactly one fate, and none disappears without a trace in the run's      *)
(* report -- a dropped job shows as budget_hit, a failed one in errors.    *)
(***************************************************************************)
CONSTANT Item

VARIABLES fate,         \* what became of each job
          budgetHit,    \* run_log.budget_hit
          erred,        \* run_log.errors > 0
          phase         \* "running", then "committed" or "raised"

vars == <<fate, budgetHit, erred, phase>>

Fates == {"unread", "pending", "stored", "failed", "dropped", "abandoned"}

TypeOK ==
    /\ fate \in [Item -> Fates]
    /\ budgetHit \in BOOLEAN
    /\ erred \in BOOLEAN
    /\ phase \in {"running", "committed", "raised"}

Init ==
    /\ fate = [i \in Item |-> "unread"]
    /\ budgetHit = FALSE
    /\ erred = FALSE
    /\ phase = "running"

\* The jobs of I move from one fate to the next.
Move(I, from, to) ==
    /\ phase = "running"
    /\ I # {}
    /\ \A i \in I : fate[i] = from
    /\ fate' = [i \in Item |-> IF i \in I THEN to ELSE fate[i]]
    /\ UNCHANGED phase

Read(I) == Move(I, "unread", "pending") /\ UNCHANGED <<budgetHit, erred>>

Store(i) == Move({i}, "pending", "stored") /\ UNCHANGED <<budgetHit, erred>>

Fail(i) == Move({i}, "pending", "failed") /\ erred' = TRUE /\ UNCHANGED budgetHit

Drop(I) == Move(I, "pending", "dropped") /\ budgetHit' = TRUE /\ UNCHANGED erred

Abandon(I) == Move(I, "pending", "abandoned") /\ erred' = TRUE /\ UNCHANGED budgetHit

\* Trouble that costs no job already read: a board fails, or a source stops on
\* the budget with nothing left to hand over.
Report ==
    /\ phase = "running"
    /\ erred' = TRUE
    /\ UNCHANGED <<fate, budgetHit, phase>>

\* The run ends only when every job it read has its fate.
Commit ==
    /\ phase = "running"
    /\ \A i \in Item : fate[i] # "pending"
    /\ phase' = "committed"
    /\ UNCHANGED <<fate, budgetHit, erred>>

\* Nothing of a run that raises is kept.
Raise ==
    /\ phase = "running"
    /\ erred
    /\ phase' = "raised"
    /\ UNCHANGED <<fate, budgetHit, erred>>

Next ==
    \/ \E I \in SUBSET Item : Read(I) \/ Drop(I) \/ Abandon(I)
    \/ \E i \in Item : Store(i) \/ Fail(i)
    \/ Report
    \/ Commit
    \/ Raise

Spec == Init /\ [][Next]_vars
=============================================================================
