---------------------------- MODULE Notifications ----------------------------
(***************************************************************************)
(* What schedule of a notify manager promises: callbacks are called later, *)
(* once each and in the order they were scheduled, or are given up because *)
(* a callback called before them threw.                                    *)
(***************************************************************************)
EXTENDS SequencesExt

CONSTANT Callbacks

VARIABLES promised, called, lost

notifications == <<promised, called, lost>>

Init == promised = <<>> /\ called = {} /\ lost = {}

Promise(c) ==
    /\ c \notin ToSet(promised) \union called \union lost
    /\ promised' = Append(promised, c)
    /\ UNCHANGED <<called, lost>>

Call ==
    /\ promised # <<>>
    /\ called' = called \union {Head(promised)}
    /\ promised' = Tail(promised)
    /\ UNCHANGED lost

\* The first n of those promised, scheduled with the callback that threw.
GiveUp(n) ==
    /\ called # {}
    /\ lost' = lost \union ToSet(SubSeq(promised, 1, n))
    /\ promised' = SubSeq(promised, n + 1, Len(promised))
    /\ UNCHANGED called

Next == \/ Call
        \/ \E c \in Callbacks : Promise(c)
        \/ \E n \in 1..Len(promised) : GiveUp(n)

Kept == \A c \in Callbacks : c \in ToSet(promised) ~> c \in called \union lost

\* The part that has no need of fairness.
Safety == Init /\ [][Next]_notifications

Spec == Safety /\ Kept

=============================================================================
