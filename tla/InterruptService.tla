-------------------------- MODULE InterruptService --------------------------
(***************************************************************************)
(* What src/pynq/interrupt.py promises a program, without controllers,     *)
(* wait lists or UIO devices: a task that awaits an Interrupt is released  *)
(* when the Interrupt's pin has been active, all tasks of one Interrupt    *)
(* together, and an activation is forgotten only when nobody awaits it.    *)
(***************************************************************************)
CONSTANTS Pin, Intr, IntrPin, Task, None

VARIABLES
    active,     \* pins with an activation that is not forgotten yet
    awaiting    \* awaiting[t] : the Interrupt task t is suspended on, or None

serviceVars == <<active, awaiting>>

ServiceInit ==
    /\ active = {}
    /\ awaiting = [t \in Task |-> None]

(* Pins that drive one interrupt become active together.                   *)
Activate(P) ==
    /\ active' = active \cup P
    /\ UNCHANGED awaiting

Await(t, i) ==
    /\ awaiting[t] = None
    /\ awaiting' = [awaiting EXCEPT ![t] = i]
    /\ UNCHANGED active

Release(i) ==
    /\ IntrPin[i] \in active
    /\ awaiting' = [t \in Task |-> IF awaiting[t] = i THEN None
                                                      ELSE awaiting[t]]
    /\ UNCHANGED active

Abandon(t) ==
    /\ awaiting' = [awaiting EXCEPT ![t] = None]
    /\ UNCHANGED active

Forget(P) ==
    /\ \A t \in Task, i \in Intr : IntrPin[i] \in P => awaiting[t] # i
    /\ active' = active \ P
    /\ UNCHANGED awaiting

ServiceNext ==
    \/ \E P \in SUBSET Pin : Activate(P) \/ Forget(P)
    \/ \E i \in Intr : Release(i)
    \/ \E t \in Task : Abandon(t) \/ \E i \in Intr : Await(t, i)

ServiceSpec == ServiceInit /\ [][ServiceNext]_serviceVars
=============================================================================
