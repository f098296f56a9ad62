----------------------------- MODULE ReturnStack -----------------------------
(***************************************************************************)
(* What FlashStack promises to a thread: a return goes to the place its    *)
(* call came from, whatever happens in between.  The specification knows   *)
(* the calls that have not returned yet and where the last return went.    *)
(***************************************************************************)
EXTENDS Naturals, Sequences

CONSTANTS
    Places,         \* return addresses
    NoPlace         \* no return has happened since the last call

VARIABLES
    calls,          \* where the calls under way must return to, the newest last
    went            \* where the last step returned to

Init == calls = <<>> /\ went = NoPlace

Call(s) ==
    /\ calls' = Append(calls, s)
    /\ went' = NoPlace

Return ==
    /\ calls # <<>>
    /\ went' = calls[Len(calls)]
    /\ calls' = SubSeq(calls, 1, Len(calls) - 1)

(* longjmp and exceptions end several calls at once. *)
Unwind(n) ==
    /\ calls' = SubSeq(calls, 1, n)
    /\ went' = NoPlace

Next ==
    \/ \E s \in Places : Call(s)
    \/ Return
    \/ \E n \in 0..(Len(calls) - 1) : Unwind(n)

Spec == Init /\ [][Next]_<<calls, went>>
=============================================================================
