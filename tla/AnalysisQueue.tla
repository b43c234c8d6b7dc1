---------------------------- MODULE AnalysisQueue ----------------------------
(***************************************************************************)
(* What the analysis queue of the language server promises, without locks,  *)
(* generations, debouncing or wakeups.  Sources are asked for; they are     *)
(* taken together; what they lead to is settled entry by entry.  An entry   *)
(* that is planned is settled or given back: none gets lost.  Only newer    *)
(* requests, or the end of the server, cut a batch short, and no second     *)
(* batch is taken before the first has ended.                               *)
(***************************************************************************)
CONSTANT Sources

VARIABLES
    due,      \* the sources asked for and not taken
    hand,     \* the sources taken together
    plan,     \* the entries they lead to that are not settled yet
    newer,    \* a request arrived since they were taken
    open      \* the server has not been asked to stop

queue == <<due, hand, plan, newer, open>>

Init == due = {} /\ hand = {} /\ plan = {} /\ newer = FALSE /\ open = TRUE

(* A request while a batch is being worked on is newer input for it. *)
Note == newer' = (hand # {})

Schedule(s) == due' = due \cup {s} /\ Note /\ UNCHANGED <<hand, plan, open>>

Withdraw(s) == due' = due \ {s} /\ Note /\ UNCHANGED <<hand, plan, open>>

Take ==
    /\ open /\ due # {} /\ hand = {}
    /\ hand' = due /\ due' = {}
    /\ newer' = FALSE
    /\ UNCHANGED <<plan, open>>

Resolve(entries) ==
    /\ hand # {}
    /\ plan' = plan \cup entries
    /\ UNCHANGED <<due, hand, newer, open>>

(* An entry is analysed, or found to need no analysis of its own. *)
Settle(entry) ==
    /\ entry \in plan
    /\ plan' = plan \ {entry}
    /\ UNCHANGED <<due, hand, newer, open>>

Finish ==
    /\ hand # {} /\ plan = {}
    /\ hand' = {} /\ newer' = FALSE
    /\ UNCHANGED <<due, plan, open>>

GiveBack ==
    /\ plan # {} /\ (newer \/ ~open)
    /\ due' = due \cup plan
    /\ hand' = {} /\ plan' = {} /\ newer' = FALSE
    /\ UNCHANGED open

Close == open' = FALSE /\ UNCHANGED <<due, hand, plan, newer>>

Next ==
    \/ \E s \in Sources : Schedule(s) \/ Withdraw(s) \/ Settle(s)
    \/ \E entries \in SUBSET Sources : Resolve(entries)
    \/ Take \/ Finish \/ GiveBack \/ Close

Spec == Init /\ [][Next]_queue

(* What is due is taken while the server runs, and every batch ends. *)
Service == WF_queue(Take) /\ []<>(hand = {})

FairSpec == Spec /\ Service
=============================================================================
