----------------------------- MODULE SampleFeed -----------------------------
(***************************************************************************)
(* What the agent promises its clients: whoever subscribes is given every  *)
(* sample taken from then on, in order and without a gap, until it is told *)
(* that the feed is over or is let go; every other request is answered at  *)
(* most once.  Module Agent implements it with an actor, bounded channels  *)
(* and a radio link.                                                       *)
(***************************************************************************)
EXTENDS Naturals, Sequences

CONSTANTS Client, None

VARIABLES n,     \* the samples taken so far
          live,  \* the subscribers
          feed   \* everything each client was ever given

vars == <<n, live, feed>>

Final == {[type |-> t, n |-> 0, of |-> None] : t \in {"error", "end"}}
Reply == Final \cup {[type |-> "measurement", n |-> 0, of |-> None]}
               \cup {[type |-> "result", n |-> 0, of |-> c] : c \in Client}
Sample(k) == [type |-> "measurement", n |-> k, of |-> None]

Init == n = 0 /\ live = {} /\ feed = [c \in Client |-> <<>>]

\* In any step, some subscribers may be let go of.
Join(c, gone) ==
    /\ c \notin live /\ feed[c] = <<>>
    /\ live' = (live \ gone) \cup {c}
    /\ UNCHANGED <<n, feed>>

LetGo(gone) == live' = live \ gone /\ UNCHANGED <<n, feed>>

\* The one answer to a request that is no subscription, or to one refused.
Answer(c, m, gone) ==
    /\ c \notin live /\ feed[c] = <<>>
    /\ feed' = [feed EXCEPT ![c] = <<m>>]
    /\ live' = live \ gone
    /\ UNCHANGED n

\* A sample, for every subscriber that is not let go of.
Publish(gone) ==
    /\ n' = n + 1
    /\ live' = live \ gone
    /\ feed' = [c \in Client |-> IF c \in live \ gone THEN Append(feed[c], Sample(n'))
                                                      ELSE feed[c]]

\* The feed is over, for everyone; those who can be told are.
Close(m, told) ==
    /\ live' = {}
    /\ feed' = [c \in Client |-> IF c \in live \cap told THEN Append(feed[c], m)
                                                         ELSE feed[c]]
    /\ UNCHANGED n

Next ==
    \/ \E gone \in SUBSET Client :
        \/ LetGo(gone) \/ Publish(gone)
        \/ \E c \in Client : Join(c, gone) \/ \E m \in Reply : Answer(c, m, gone)
    \/ \E told \in SUBSET Client, m \in Final : Close(m, told)

Spec == Init /\ [][Next]_vars
=============================================================================
