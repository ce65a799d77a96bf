---------------------------- MODULE WritePromise ----------------------------
(***************************************************************************)
(* What BthPort may rely on when it sends an HCI packet, whatever threads  *)
(* the driver uses: a request is completed once, as a success only if the  *)
(* UART took the packet in full, as cancelled only if it was cancelled     *)
(* above or below; and a request it cancels is completed in the end.       *)
(***************************************************************************)
CONSTANT Writes

VARIABLES
    phase,   \* "new", "pending" with the driver, or "done"
    asked,   \* BthPort cancelled it
    answer,  \* what the UART said of the packet, "none" before it did
    result   \* what BthPort was told, "none" before it was

vars == <<phase, asked, answer, result>>

Answers == {"success", "short", "cancelled", "failed"}
Results == {"success", "cancelled", "failed"}

Init ==
    /\ phase  = [w \in Writes |-> "new"]
    /\ asked  = [w \in Writes |-> FALSE]
    /\ answer = [w \in Writes |-> "none"]
    /\ result = [w \in Writes |-> "none"]

Arrive(w) ==
    /\ phase[w] = "new"
    /\ phase' = [phase EXCEPT ![w] = "pending"]
    /\ UNCHANGED <<asked, answer, result>>

Refuse(w) ==
    /\ phase[w] = "new"
    /\ phase'  = [phase EXCEPT ![w] = "done"]
    /\ result' = [result EXCEPT ![w] = "failed"]
    /\ UNCHANGED <<asked, answer>>

Ask(w) ==
    /\ phase[w] = "pending"
    /\ asked' = [asked EXCEPT ![w] = TRUE]
    /\ UNCHANGED <<phase, answer, result>>

\* The UART may answer after BthPort was told of the cancellation.
Answer(w) ==
    /\ phase[w] # "new"
    /\ answer[w] = "none"
    /\ \E a \in Answers : answer' = [answer EXCEPT ![w] = a]
    /\ UNCHANGED <<phase, asked, result>>

MayReport(w, r) ==
    /\ r = "success" => answer[w] = "success"
    /\ r = "cancelled" => asked[w] \/ answer[w] = "cancelled"

Complete(w) ==
    /\ phase[w] = "pending"
    /\ \E r \in Results : MayReport(w, r) /\ result' = [result EXCEPT ![w] = r]
    /\ phase' = [phase EXCEPT ![w] = "done"]
    /\ UNCHANGED <<asked, answer>>

Next == \E w \in Writes : Arrive(w) \/ Refuse(w) \/ Ask(w) \/ Answer(w) \/ Complete(w)

SafeSpec == Init /\ [][Next]_vars

Spec == SafeSpec /\ \A w \in Writes : WF_vars(asked[w] /\ Complete(w))
=============================================================================
