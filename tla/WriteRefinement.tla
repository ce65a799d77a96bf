-------------------------- MODULE WriteRefinement ---------------------------
(***************************************************************************)
(* The write path as an implementation of WritePromise.                    *)
(***************************************************************************)
EXTENDS WriteRequest

\* A second completion would leave "done" and is no step of the promise.
PhaseOf(w) ==
    IF completions[w] = 0 THEN IF dispatch[w] = "idle" THEN "new" ELSE "pending"
    ELSE IF completions[w] = 1 THEN "done" ELSE "completed again"

AnswerOf(w) == IF uart[w] = "done" THEN status[w] ELSE "none"

Promise == INSTANCE WritePromise WITH
    phase  <- [w \in Writes |-> PhaseOf(w)],
    asked  <- cancelled,
    answer <- [w \in Writes |-> AnswerOf(w)],
    result <- result

\* Every behaviour of the three threads is one that WritePromise allows, and a
\* cancelled request is completed in the end: no order of the threads loses a
\* cancellation, whatever the UART does with the lower request
\* (io.c:160-167, "Race conditions when both the cancelation and completion
\* routine have independently started").
KeepsPromise == Promise!Spec
=============================================================================
