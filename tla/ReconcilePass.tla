---------------------------- MODULE ReconcilePass ----------------------------
(***************************************************************************)
(* What the operator's state engine promises about a Reconcile pass and   *)
(* the ClusterPolicy status it writes, without the cluster objects, the    *)
(* appliers or the work queue.                                             *)
(*                                                                         *)
(* A pass runs for one policy.  It starts at the first state and completes *)
(* the states one at a time, in order.  It may abort at any state, or be   *)
(* cut short by a crash of the operator.  While it runs, it may mark its   *)
(* own policy NotReady and nothing else.  Only a pass that completed the   *)
(* last state, with no state NotReady, may mark its policy Ready.  Users   *)
(* create and delete policies at any time.                                 *)
(***************************************************************************)
EXTENDS Naturals

CONSTANTS
    Policies,   \* ClusterPolicy names
    NStates,    \* number of states a pass goes through
    None,       \* no policy / a deleted policy
    Ready,
    NotReady

VARIABLES
    status,     \* policy -> its status, or None when it does not exist
    running,    \* the policy the running pass is for, or None
    done,       \* states the running pass has completed
    verdict     \* Ready unless a completed state of the pass was NotReady

avars == <<status, running, done, verdict>>

Init ==
    /\ status \in [Policies -> {"", None}]
    /\ running = None
    /\ done = 0
    /\ verdict = Ready

\* The running pass writes v to its policy's status, or writes nothing; a
\* deleted policy is not written.
Write(v) ==
    IF status[running] = None THEN UNCHANGED status
    ELSE status' \in {[status EXCEPT ![running] = w] : w \in {status[running], v}}

\* The pass is over: nothing runs and the next one starts afresh.
Idle == running' = None /\ done' = 0 /\ verdict' = Ready

Begin(c) ==
    /\ running = None
    /\ status[c] # None
    /\ running' = c /\ done' = 0 /\ verdict' = Ready
    /\ UNCHANGED status

\* A state other than the last completes; a NotReady one may be written.
Advance ==
    /\ running # None
    /\ done + 1 < NStates
    /\ done' = done + 1
    /\ \/ verdict' = verdict /\ UNCHANGED status
       \/ verdict' = NotReady /\ Write(NotReady)
    /\ UNCHANGED running

\* A state fails: the pass ends, its policy may be marked NotReady.
Abort ==
    /\ running # None
    /\ Idle
    /\ Write(NotReady)

\* The last state completes: Ready only after a pass with no NotReady.
Finish ==
    /\ running # None
    /\ done + 1 = NStates
    /\ Idle
    /\ \/ Write(NotReady)
       \/ verdict = Ready /\ Write(Ready)

Create(c) ==
    /\ status[c] = None
    /\ status' = [status EXCEPT ![c] = ""]
    /\ UNCHANGED <<running, done, verdict>>

Delete(c) ==
    /\ status[c] # None
    /\ status' = [status EXCEPT ![c] = None]
    /\ UNCHANGED <<running, done, verdict>>

\* The operator process stops: the running pass is lost.
Crash ==
    /\ Idle
    /\ UNCHANGED status

PassStep == Advance \/ Abort \/ Finish

Next ==
    \/ \E c \in Policies : Begin(c) \/ Create(c) \/ Delete(c)
    \/ PassStep
    \/ Crash

\* The worker runs every pass it starts to its end.
Spec == Init /\ [][Next]_avars /\ WF_avars(PassStep)

=============================================================================
