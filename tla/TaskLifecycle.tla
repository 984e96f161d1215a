---------------------------- MODULE TaskLifecycle ----------------------------
(***************************************************************************)
(* What the task queue promises its callers, with none of its machinery:   *)
(* no lock, no condition variable, no lookup maps and no worker program    *)
(* counters.  Submitted tasks wait in submission order, a task is started  *)
(* at most once and only while it is not cancelled, a waiting task is      *)
(* discarded only because it was cancelled, and at no time are two live    *)
(* tasks known by one identifier.                                          *)
(***************************************************************************)
EXTENDS Naturals, Sequences

CONSTANTS Tasks,  \* the task objects callers may create
          IdOf    \* the identifier of each task object

VARIABLES pending,    \* submitted tasks not yet started, oldest first
          active,     \* tasks that have been started and have not finished
          cancelled,  \* tasks whose context is done
          ended,      \* tasks that finished or were discarded
          closed      \* no further task is accepted

vars == <<pending, active, cancelled, ended, closed>>

Waiting == {pending[i] : i \in 1..Len(pending)}

Live == Waiting \cup active

Init ==
    /\ pending = <<>>
    /\ active = {}
    /\ cancelled = {}
    /\ ended = {}
    /\ closed = FALSE

Submit(t) ==
    /\ ~closed
    /\ t \notin cancelled \cup Live \cup ended
    /\ \A u \in Live : IdOf[u] # IdOf[t]
    /\ pending' = Append(pending, t)
    /\ UNCHANGED <<active, cancelled, ended, closed>>

Start ==
    /\ pending # <<>>
    /\ Head(pending) \notin cancelled
    /\ active' = active \cup {Head(pending)}
    /\ pending' = Tail(pending)
    /\ UNCHANGED <<cancelled, ended, closed>>

Discard ==
    /\ pending # <<>>
    /\ Head(pending) \in cancelled
    /\ ended' = ended \cup {Head(pending)}
    /\ pending' = Tail(pending)
    /\ UNCHANGED <<active, cancelled, closed>>

Finish(t) ==
    /\ t \in active
    /\ active' = active \ {t}
    /\ ended' = ended \cup {t}
    /\ UNCHANGED <<pending, cancelled, closed>>

Cancel(t) ==
    /\ cancelled' = cancelled \cup {t}
    /\ UNCHANGED <<pending, active, ended, closed>>

\* The context that those of all tasks derive from is done.
CancelAll ==
    /\ cancelled' = Tasks
    /\ UNCHANGED <<pending, active, ended, closed>>

Close ==
    /\ closed' = TRUE
    /\ UNCHANGED <<pending, active, cancelled, ended>>

Next ==
    \/ \E t \in Tasks : Submit(t) \/ Finish(t) \/ Cancel(t)
    \/ Start
    \/ Discard
    \/ CancelAll
    \/ Close

Spec == Init /\ [][Next]_vars
==============================================================================
