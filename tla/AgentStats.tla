------------------------------ MODULE AgentStats ----------------------------
(***************************************************************************)
(* AgentStats of src/agent/status.rs: what the agent knows about itself.   *)
(* The actor stores into it, one atomic or the locked sample at a time;    *)
(* scrapes of /metrics (src/agent/metrics.rs) and the pings behind `agent  *)
(* status` load from it on other threads, one after the other.  One action *)
(* is one load or one store.                                               *)
(*                                                                         *)
(* Samples are numbered as they arrive, and 0 is no sample.  Time is the   *)
(* age of the latest sample, counted in ticks.  A definition X_Y is X with *)
(* the mistake Y in it, as in AgentClaim.                                  *)
(***************************************************************************)
EXTENDS Naturals

CONSTANTS Scraper,             \* connections to the metrics endpoint
          Pinger,              \* connections that ping
          Interval,            \* --interval, in ticks
          StaleAfterIntervals, \* STALE_AFTER_INTERVALS
          MinFreshness,        \* MIN_FRESHNESS, in ticks
          MaxSamples,          \* bound: the samples that arrive
          MaxReconnects,       \* bound: the reconnects
          MaxClients           \* bound: the subscribers at once

ASSUME WindowIsNatural ==
    Interval \in Nat /\ StaleAfterIntervals \in Nat /\ MinFreshness \in Nat
ASSUME StatsBoundsAreNatural ==
    MaxSamples \in Nat /\ MaxReconnects \in Nat /\ MaxClients \in Nat

VARIABLES
    connected, samples, reconnects, clients,  \* the four atomics
    latest,    \* the sample under the lock
    age,       \* the ticks since it arrived, counted up to staleness
    audience,  \* the length of the actor's own list of subscribers
    step,      \* the actor's next store, or "idle" between two operations
    phase,     \* where each scrape is
    seen,      \* connected, as the scrape loaded it
    body,      \* what the scrape is answered with
    moments,   \* history: the verdicts true since its request was complete
    loads,     \* how many counters a ping has loaded
    snap       \* what it has loaded

atomics == <<connected, samples, reconnects, clients>>
shared == <<atomics, latest, age>>
scrape == <<phase, seen, body>>
ping == <<loads, snap>>
vars == <<shared, audience, step, scrape, moments, ping>>

Exposition == [channels : 0..MaxSamples, stamp : 0..MaxSamples, up : BOOLEAN]

\* metrics_exposition: the channels of a fresh sample only.
MetricsExposition(sample, up) ==
    [channels |-> IF up THEN sample ELSE 0, stamp |-> sample, up |-> up]

StaleAfter ==
    IF Interval * StaleAfterIntervals > MinFreshness
    THEN Interval * StaleAfterIntervals ELSE MinFreshness

TypeOK ==
    /\ connected \in BOOLEAN
    /\ samples \in 0..MaxSamples /\ reconnects \in 0..MaxReconnects
    /\ clients \in 0..MaxClients /\ audience \in 0..MaxClients
    /\ latest \in 0..MaxSamples /\ age \in 0..(StaleAfter + 1)
    /\ step \in {"idle", "up", "keep", "send", "relinked", "take", "publish"}
    /\ phase \in [Scraper -> {"none", "head", "drained", "loaded", "answered"}]
    /\ seen \in [Scraper -> BOOLEAN]
    /\ body \in [Scraper -> Exposition]
    /\ moments \in [Scraper -> SUBSET (0..MaxSamples)]
    /\ loads \in [Pinger -> 0..5]
    /\ snap \in [Pinger -> [connected : BOOLEAN, samples : 0..MaxSamples,
                            sample : 0..MaxSamples,
                            reconnects : 0..MaxReconnects,
                            clients : 0..MaxClients]]

-----------------------------------------------------------------------------
\* The actor.  record_sample, from an assembled measurement to the broadcast.
CountSample ==
    /\ step = "idle" /\ samples < MaxSamples
    /\ samples' = samples + 1
    /\ step' = "up"
    /\ UNCHANGED <<connected, reconnects, clients, latest, age, audience>>

SampleConnects ==
    /\ step = "up"
    /\ connected' = TRUE
    /\ step' = "keep"
    /\ UNCHANGED <<samples, reconnects, clients, latest, age, audience>>

KeepSample ==
    /\ step = "keep"
    /\ latest' = samples /\ age' = 0
    /\ step' = "send"
    /\ UNCHANGED <<atomics, audience>>

\* Clients::broadcast, and reap: those who hung up or lag are let go of.
LetGo ==
    /\ step \in {"idle", "send"}
    /\ audience' \in 0..audience
    /\ step' = IF audience' = audience THEN "idle" ELSE "publish"
    /\ UNCHANGED shared

Add ==
    /\ step = "idle" /\ audience < MaxClients
    /\ audience' = audience + 1
    /\ step' = "publish"
    /\ UNCHANGED shared

\* Slip: the count is kept up by hand, one at a time.
PublishCount_ByOne ==
    /\ step = "publish"
    /\ clients' = IF audience > clients THEN clients + 1 ELSE clients - 1
    /\ step' = "idle"
    /\ UNCHANGED <<connected, samples, reconnects, latest, age, audience>>

\* publish_count.
PublishCount ==
    /\ step = "publish"
    /\ clients' = audience
    /\ step' = "idle"
    /\ UNCHANGED <<connected, samples, reconnects, latest, age, audience>>

\* record_reconnect.
CountReconnect ==
    /\ step = "idle" /\ reconnects < MaxReconnects
    /\ reconnects' = reconnects + 1
    /\ step' = "relinked"
    /\ UNCHANGED <<connected, samples, clients, latest, age, audience>>

ReconnectConnects ==
    /\ step = "relinked"
    /\ connected' = TRUE
    /\ step' = "idle"
    /\ UNCHANGED <<samples, reconnects, clients, latest, age, audience>>

\* abort_stream, down to Clients::take.
Disconnected ==
    /\ step = "idle"
    /\ connected' = FALSE
    /\ step' = "take"
    /\ UNCHANGED <<samples, reconnects, clients, latest, age, audience>>

\* Slip: the list is emptied and its length not published.
Take_Unpublished ==
    /\ step = "take"
    /\ audience' = 0
    /\ step' = "idle"
    /\ UNCHANGED shared

Take ==
    /\ step = "take"
    /\ audience' = 0
    /\ step' = "publish"
    /\ UNCHANGED shared

Actor ==
    /\ \/ CountSample \/ SampleConnects \/ KeepSample
       \/ LetGo \/ Add \/ PublishCount
       \/ CountReconnect \/ ReconnectConnects
       \/ Disconnected \/ Take
    /\ UNCHANGED <<scrape, ping>>

Tick ==
    /\ latest # 0 /\ age <= StaleAfter
    /\ age' = age + 1
    /\ UNCHANGED <<atomics, latest, audience, step, scrape, ping>>

-----------------------------------------------------------------------------
\* A scrape: accepted, with its request line read, ...
Accept(r) ==
    /\ phase[r] = "none"
    /\ phase' = [phase EXCEPT ![r] = "head"]
    /\ UNCHANGED <<seen, body>>

\* ... and the rest of its head.
Drain(r) ==
    /\ phase[r] = "head"
    /\ phase' = [phase EXCEPT ![r] = "drained"]
    /\ UNCHANGED <<seen, body>>

\* AgentStats::reading.
LoadConnected(r) ==
    /\ phase[r] = "drained"
    /\ seen' = [seen EXCEPT ![r] = connected]
    /\ phase' = [phase EXCEPT ![r] = "loaded"]
    /\ UNCHANGED body

\* Slip: a recent sample is enough.
Fresh_SampleAlone(r) == latest # 0 /\ age <= StaleAfter

Fresh(r) == seen[r] /\ latest # 0 /\ age <= StaleAfter

LockLatest(r) ==
    /\ phase[r] = "loaded"
    /\ body' = [body EXCEPT ![r] = MetricsExposition(latest, Fresh(r))]
    /\ phase' = [phase EXCEPT ![r] = "answered"]
    /\ UNCHANGED seen

\* Answered; or cut off by EXCHANGE_TIMEOUT or by the scraper, at an await.
Done(r) ==
    /\ phase[r] \in {"head", "answered"}
    /\ phase' = [phase EXCEPT ![r] = "none"]
    /\ body' = [body EXCEPT ![r] = MetricsExposition(0, FALSE)]
    /\ seen' = [seen EXCEPT ![r] = FALSE]

Scrape ==
    /\ \E r \in Scraper :
        Accept(r) \/ Drain(r) \/ LoadConnected(r) \/ LockLatest(r) \/ Done(r)
    /\ UNCHANGED <<shared, audience, step, ping>>

\* AgentStats::snapshot, a field at a time.
LoadNext(field, value, p) ==
    /\ snap' = [snap EXCEPT ![p][field] = value]
    /\ loads' = [loads EXCEPT ![p] = @ + 1]

\* Slip: the sample is looked at first, and counted second.
Snapshot_AgeFirst(p) ==
    \/ loads[p] = 0 /\ LoadNext("connected", connected, p)
    \/ loads[p] = 1 /\ LoadNext("sample", latest, p)
    \/ loads[p] = 2 /\ LoadNext("samples", samples, p)
    \/ loads[p] = 3 /\ LoadNext("reconnects", reconnects, p)
    \/ loads[p] = 4 /\ LoadNext("clients", clients, p)

Snapshot(p) ==
    \/ loads[p] = 0 /\ LoadNext("connected", connected, p)
    \/ loads[p] = 1 /\ LoadNext("samples", samples, p)
    \/ loads[p] = 2 /\ LoadNext("sample", latest, p)
    \/ loads[p] = 3 /\ LoadNext("reconnects", reconnects, p)
    \/ loads[p] = 4 /\ LoadNext("clients", clients, p)

Unread == [connected |-> FALSE, samples |-> 0, sample |-> 0,
           reconnects |-> 0, clients |-> 0]

\* The pong is sent, and the connection closed.
Pong(p) ==
    /\ loads[p] = 5
    /\ loads' = [loads EXCEPT ![p] = 0]
    /\ snap' = [snap EXCEPT ![p] = Unread]

Ping ==
    /\ \E p \in Pinger : Snapshot(p) \/ Pong(p)
    /\ UNCHANGED <<shared, audience, step, scrape>>

-----------------------------------------------------------------------------
\* What is true of the device now: its sample if that is fresh, or nothing.
Verdict == IF connected /\ age <= StaleAfter THEN latest ELSE 0

\* moments[r] is kept from the end of the request's head on.
Witnessed ==
    moments' = [r \in Scraper |->
        IF phase'[r] \in {"none", "head"} THEN {}
        ELSE IF phase[r] = "answered" THEN moments[r]
        ELSE moments[r] \cup {Verdict'}]

\* As run leaves it before it serves anybody: connected, and nothing read.
Init ==
    /\ connected = TRUE /\ samples = 0 /\ reconnects = 0 /\ clients = 0
    /\ latest = 0 /\ age = 0 /\ audience = 0 /\ step = "idle"
    /\ phase = [r \in Scraper |-> "none"]
    /\ seen = [r \in Scraper |-> FALSE]
    /\ body = [r \in Scraper |-> MetricsExposition(0, FALSE)]
    /\ moments = [r \in Scraper |-> {}]
    /\ loads = [p \in Pinger |-> 0]
    /\ snap = [p \in Pinger |-> Unread]

Next == (Actor \/ Tick \/ Scrape \/ Ping) /\ Witnessed

Spec == Init /\ [][Next]_vars

-----------------------------------------------------------------------------
(***************************************************************************)
(* A scrape never shows what was at no moment true.  The channels in its   *)
(* answer are those of the sample that was the latest, recent enough and   *)
(* on a link believed up, all at one moment between the end of its request *)
(* and its answer; and when it shows none, there was such a moment without *)
(* a fresh sample.  reading takes connected and the sample in two steps,   *)
(* and this rests on its order and on record_sample's (status.rs:69, :93). *)
(***************************************************************************)
ScrapeIsOfOneMoment ==
    \A r \in Scraper : phase[r] = "answered" => body[r].channels \in moments[r]

(***************************************************************************)
(* What `agent status` says of the samples fits together: the age printed  *)
(* beside the count is at most one sample behind it, so that a count above *)
(* one always has an age, although snapshot locks nothing around the two   *)
(* (status.rs:125-126).                                                    *)
(***************************************************************************)
AgeFitsCount ==
    \A p \in Pinger : loads[p] >= 3 => snap[p].sample + 1 >= snap[p].samples

(***************************************************************************)
(* The number of clients reported is that of the actor's list whenever the *)
(* actor is between two operations, whichever way the list changed         *)
(* (server.rs:502).                                                        *)
(***************************************************************************)
CountIsCurrent == step = "idle" => clients = audience
=============================================================================
