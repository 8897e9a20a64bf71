------------------------------- MODULE Inbox --------------------------------
(* What a webhook promises that records an event before it handles it: the   *)
(* event is taken once however often it is delivered, one handler does its   *)
(* effects, each of them once, and what is lost once it is recorded is never *)
(* made up for.  An item that could not be recorded may be delivered again.  *)
EXTENDS Naturals

CONSTANTS Items, Handlers, Effects

VARIABLES
    taken,   \* items that have been recorded
    open,    \* items being handled
    done,    \* done[i]: pairs <<q, x>>, handler q has done the effect x of item i
    lost     \* items whose last handling ended before all was done

ivars == <<taken, open, done, lost>>

Init == taken = {} /\ open = {} /\ done = [i \in Items |-> {}] /\ lost = {}

Complete(i) == \E q \in Handlers : {q} \X Effects \subseteq done[i]

Take(i) ==
    /\ i \notin taken
    /\ taken' = taken \cup {i}
    /\ open' = open \cup {i}
    /\ lost' = lost \ {i}
    /\ UNCHANGED done

\* The item is answered without having been recorded.
Miss(i) ==
    /\ i \notin taken
    /\ lost' = lost \cup {i}
    /\ UNCHANGED <<taken, open, done>>

\* The handler of i does the effect x, and may be through with i.
Work(i, q, x) ==
    /\ i \in open
    /\ \A d \in done[i] : d[1] = q
    /\ done' = [done EXCEPT ![i] = @ \cup {<<q, x>>}]
    /\ \/ open' = open
       \/ Complete(i)' /\ open' = open \ {i}
    /\ UNCHANGED <<taken, lost>>

Lose(i) ==
    /\ i \in open /\ ~Complete(i)
    /\ open' = open \ {i}
    /\ lost' = lost \cup {i}
    /\ UNCHANGED <<taken, done>>

Next ==
    \E i \in Items :
        \/ Take(i) \/ Miss(i) \/ Lose(i)
        \/ \E q \in Handlers, x \in Effects : Work(i, q, x)

Spec == Init /\ [][Next]_ivars
=============================================================================
