----------------------------- MODULE CloudApply -----------------------------
(***************************************************************************)
(* What a task that applies recommendations to a managed instance promises *)
(* (tasks/tasks.go, task types 4 and 5), whatever the provider: what its   *)
(* success means, and that it installs nothing that was not recommended.   *)
(***************************************************************************)
CONSTANTS
    Params,     \* the parameters of the instance
    Values,
    Good,       \* the values of a parameter that satisfy its recommendation
    Careless    \* may a task that could not read its recommendation succeed?

VARIABLES
    configured, \* the values that the provider holds for the instance
    running,    \* the values in force
    learnt,     \* has the task read its recommendation?
    asked,      \* the parameters the recommendation names
    touched,    \* those that others have modified meanwhile
    verdict,    \* what the task concludes
    stale       \* is the status that the provider shows older than its state?

vars == <<configured, running, learnt, asked, touched, verdict>>

Init ==
    /\ configured \in [Params -> Values]
    /\ running = configured
    /\ learnt = FALSE
    /\ asked = {}
    /\ touched = {}
    /\ verdict = "none"

\* A task looks at the instance; what is in force now is where it starts.
Begin ==
    /\ verdict \in {"none", "working"}
    /\ verdict' = "working"
    /\ learnt' = FALSE
    /\ asked' = {}
    /\ touched' \subseteq touched
    /\ UNCHANGED <<configured, running>>

\* It learns what is recommended, or fails to.
Learn ==
    /\ verdict = "working"
    /\ \/ learnt' = TRUE /\ asked' \subseteq Params
       \/ learnt' = FALSE /\ asked' = {}
    /\ UNCHANGED <<configured, running, touched, verdict>>

\* Modifications are made and come into force: the task's, of what it was asked
\* for and to recommended values, and those of others.
Effect ==
    /\ touched \subseteq touched' /\ touched' \subseteq Params
    /\ configured' \in [Params -> Values]
    /\ running' \in [Params -> Values]
    /\ \A p \in Params \ touched' :
         /\ configured'[p] # configured[p] => p \in asked /\ configured'[p] \in Good[p]
         /\ running'[p] # running[p] => running'[p] = configured'[p]
    /\ UNCHANGED <<learnt, asked, verdict>>

\* Success: what is recommended is configured, and it is in force unless the
\* provider still showed the status from before.  What was read may be
\* forgotten with the verdict.
Succeed ==
    /\ verdict = "working"
    /\ learnt
    /\ \A p \in asked \ touched :
         configured[p] \in Good[p] /\ (stale \/ running[p] \in Good[p])
    /\ verdict' = "success"
    /\ (learnt' => learnt)
    /\ UNCHANGED <<configured, running, asked, touched>>

\* The same verdict of a task that has read nothing, and so changed nothing.
SucceedUnread ==
    /\ Careless
    /\ verdict = "working"
    /\ ~learnt /\ asked = {}
    /\ verdict' = "success"
    /\ (learnt' => learnt)
    /\ UNCHANGED <<configured, running, asked, touched>>

Fail ==
    /\ verdict = "working"
    /\ verdict' = "failure"
    /\ (learnt' => learnt)
    /\ UNCHANGED <<configured, running, asked, touched>>

\* Reported, or not.
End ==
    /\ learnt' = FALSE
    /\ asked' = {}
    /\ verdict' = "none"
    /\ UNCHANGED <<configured, running, touched>>

Next == Begin \/ Learn \/ Effect \/ Succeed \/ SucceedUnread \/ Fail \/ End

Spec == Init /\ [][Next]_vars
=============================================================================
