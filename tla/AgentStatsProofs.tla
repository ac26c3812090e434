--------------------------- MODULE AgentStatsProofs -------------------------
(***************************************************************************)
(* Theorems about AgentStats, for any scrapers, pingers, freshness window  *)
(* and bounds.                                                             *)
(***************************************************************************)
EXTENDS AgentStats, TLAPS

\* Where each field is kept, one part of TypeOK for each who writes it.
StoresTyped ==
    /\ connected \in BOOLEAN
    /\ samples \in 0..MaxSamples /\ reconnects \in 0..MaxReconnects
    /\ clients \in 0..MaxClients /\ audience \in 0..MaxClients
    /\ latest \in 0..MaxSamples /\ age \in 0..(StaleAfter + 1)
    /\ step \in {"idle", "up", "keep", "send", "relinked", "take", "publish"}

ScrapesTyped ==
    /\ phase \in [Scraper -> {"none", "head", "drained", "loaded", "answered"}]
    /\ seen \in [Scraper -> BOOLEAN]
    /\ body \in [Scraper -> Exposition]

Snap == [connected : BOOLEAN, samples : 0..MaxSamples, sample : 0..MaxSamples,
         reconnects : 0..MaxReconnects, clients : 0..MaxClients]

PingsTyped == loads \in [Pinger -> 0..5] /\ snap \in [Pinger -> Snap]

MomentsTyped == moments \in [Scraper -> SUBSET (0..MaxSamples)]

LEMMA TypeParts ==
    TypeOK <=> StoresTyped /\ ScrapesTyped /\ PingsTyped /\ MomentsTyped
BY DEF TypeOK, StoresTyped, ScrapesTyped, PingsTyped, MomentsTyped, Snap

LEMMA WindowType == StaleAfter \in Nat
BY WindowIsNatural DEF StaleAfter

-----------------------------------------------------------------------------
\* Each kind of step leaves what the others write.
LEMMA StepKinds ==
    ASSUME [Next]_vars
    PROVE  \/ Actor /\ Witnessed
           \/ Tick /\ Witnessed
           \/ Scrape /\ Witnessed
           \/ Ping /\ Witnessed
           \/ UNCHANGED vars
BY DEF Next

LEMMA StoresType ==
    ASSUME StoresTyped, [Next]_vars PROVE StoresTyped'
<1>1. CASE Actor
    <2>. SUFFICES ASSUME ~(UNCHANGED <<shared, audience, step>>) PROVE StoresTyped'
        BY DEF StoresTyped, shared, atomics
    <2>1. CASE CountSample
        BY <2>1, StatsBoundsAreNatural, SMT DEF CountSample, StoresTyped
    <2>2. CASE SampleConnects
        BY <2>2 DEF SampleConnects, StoresTyped
    <2>3. CASE KeepSample
        BY <2>3, WindowType, SMT DEF KeepSample, StoresTyped, atomics
    <2>4. CASE LetGo
        BY <2>4, StatsBoundsAreNatural, SMT DEF LetGo, StoresTyped, shared, atomics
    <2>5. CASE Add
        BY <2>5, StatsBoundsAreNatural, SMT DEF Add, StoresTyped, shared, atomics
    <2>6. CASE PublishCount
        BY <2>6 DEF PublishCount, StoresTyped
    <2>7. CASE CountReconnect
        BY <2>7, StatsBoundsAreNatural, SMT DEF CountReconnect, StoresTyped
    <2>8. CASE ReconnectConnects
        BY <2>8 DEF ReconnectConnects, StoresTyped
    <2>9. CASE Disconnected
        BY <2>9 DEF Disconnected, StoresTyped
    <2>10. CASE Take
        BY <2>10, StatsBoundsAreNatural, SMT DEF Take, StoresTyped, shared, atomics
    <2>. QED BY <1>1, <2>1, <2>2, <2>3, <2>4, <2>5, <2>6, <2>7, <2>8, <2>9, <2>10 DEF Actor
<1>2. CASE Tick
    BY <1>2, WindowType, SMT DEF Tick, StoresTyped, atomics
<1>3. CASE UNCHANGED <<shared, audience, step>>
    BY <1>3 DEF StoresTyped, shared, atomics
<1>. QED BY <1>1, <1>2, <1>3, StepKinds DEF Scrape, Ping, vars

LEMMA ExpositionType ==
    ASSUME NEW sample \in 0..MaxSamples, NEW up \in BOOLEAN
    PROVE  MetricsExposition(sample, up) \in Exposition
BY StatsBoundsAreNatural, SMT DEF MetricsExposition, Exposition

LEMMA NothingType == MetricsExposition(0, FALSE) \in Exposition
BY StatsBoundsAreNatural, SMT DEF MetricsExposition, Exposition

LEMMA ScrapesType ==
    ASSUME StoresTyped, ScrapesTyped, [Next]_vars PROVE ScrapesTyped'
<1>1. CASE Scrape
    <2>. PICK r \in Scraper :
            Accept(r) \/ Drain(r) \/ LoadConnected(r) \/ LockLatest(r) \/ Done(r)
        BY <1>1 DEF Scrape
    <2>1. CASE Accept(r)
        BY <2>1 DEF Accept, ScrapesTyped
    <2>2. CASE Drain(r)
        BY <2>2 DEF Drain, ScrapesTyped
    <2>3. CASE LoadConnected(r)
        BY <2>3 DEF LoadConnected, ScrapesTyped, StoresTyped
    <2>4. CASE LockLatest(r)
        <3>1. Fresh(r) \in BOOLEAN
            BY DEF Fresh, ScrapesTyped
        <3>2. MetricsExposition(latest, Fresh(r)) \in Exposition
            BY <3>1, ExpositionType DEF StoresTyped
        <3>. QED BY <2>4, <3>2 DEF LockLatest, ScrapesTyped
    <2>5. CASE Done(r)
        BY <2>5, NothingType DEF Done, ScrapesTyped
    <2>. QED BY <2>1, <2>2, <2>3, <2>4, <2>5
<1>2. CASE UNCHANGED scrape
    BY <1>2 DEF ScrapesTyped, scrape
<1>. QED BY <1>1, <1>2, StepKinds DEF Actor, Tick, Ping, vars

LEMMA PingsType ==
    ASSUME StoresTyped, PingsTyped, [Next]_vars PROVE PingsTyped'
<1>1. CASE Ping
    <2>. PICK p \in Pinger : Snapshot(p) \/ Pong(p)
        BY <1>1 DEF Ping
    <2>1. CASE Snapshot(p)
        <3>1. snap' \in [Pinger -> Snap]
            BY <2>1 DEF Snapshot, LoadNext, PingsTyped, StoresTyped, Snap
        <3>2. loads' \in [Pinger -> 0..5]
            BY <2>1, SMT DEF Snapshot, LoadNext, PingsTyped
        <3>. QED BY <3>1, <3>2 DEF PingsTyped
    <2>2. CASE Pong(p)
        <3>1. Unread \in Snap
            BY StatsBoundsAreNatural, SMT DEF Unread, Snap
        <3>. QED BY <2>2, <3>1 DEF Pong, PingsTyped
    <2>. QED BY <2>1, <2>2
<1>2. CASE UNCHANGED ping
    BY <1>2 DEF PingsTyped, ping
<1>. QED BY <1>1, <1>2, StepKinds DEF Actor, Tick, Scrape, vars

LEMMA MomentsType ==
    ASSUME StoresTyped', MomentsTyped, [Next]_vars PROVE MomentsTyped'
<1>1. Verdict' \in 0..MaxSamples
    BY StatsBoundsAreNatural, SMT DEF StoresTyped, Verdict
<1>2. CASE Witnessed
    BY <1>1, <1>2 DEF Witnessed, MomentsTyped
<1>3. CASE UNCHANGED moments
    BY <1>3 DEF MomentsTyped
<1>. QED BY <1>2, <1>3, StepKinds DEF vars

LEMMA InitType == Init => TypeOK
<1>. SUFFICES ASSUME Init PROVE TypeOK
    OBVIOUS
<1>2. Unread \in Snap
    BY StatsBoundsAreNatural, SMT DEF Unread, Snap
<1>3. StoresTyped
    BY StatsBoundsAreNatural, WindowType, SMT DEF Init, StoresTyped
<1>4. ScrapesTyped /\ MomentsTyped
    BY NothingType DEF Init, ScrapesTyped, MomentsTyped
<1>5. PingsTyped
    BY <1>2, SMT DEF Init, PingsTyped
<1>. QED BY <1>3, <1>4, <1>5, TypeParts

LEMMA TypeStep == TypeOK /\ [Next]_vars => TypeOK'
<1>. SUFFICES ASSUME TypeOK, [Next]_vars PROVE TypeOK'
    OBVIOUS
<1>1. StoresTyped /\ ScrapesTyped /\ PingsTyped /\ MomentsTyped
    BY TypeParts
<1>2. StoresTyped' /\ ScrapesTyped' /\ PingsTyped'
    BY <1>1, StoresType, ScrapesType, PingsType
<1>3. MomentsTyped'
    BY <1>1, <1>2, MomentsType
<1>. QED BY <1>2, <1>3 DEF TypeOK, StoresTyped, ScrapesTyped, PingsTyped, MomentsTyped, Snap

(***************************************************************************)
(* The counters stay within what the events bound, and every load of a     *)
(* scrape or a ping finds a value of its type: for any number of scrapers  *)
(* and pingers at once.                                                    *)
(***************************************************************************)
THEOREM StatsTypeCorrect == Spec => []TypeOK
BY InitType, TypeStep, PTL DEF Spec

-----------------------------------------------------------------------------
\* The order of the actor's stores: the count first, then the link, then the
\* sample; and a list that changed is published before the next operation.
StoresInOrder ==
    /\ samples = latest \/ (step \in {"up", "keep"} /\ samples = latest + 1)
    /\ step = "keep" => connected
    /\ step # "publish" => clients = audience

LEMMA StoresOrder ==
    ASSUME StoresTyped, StoresInOrder, [Next]_vars PROVE StoresInOrder'
<1>1. CASE Actor
    <2>1. CASE CountSample
        BY <2>1, SMT DEF CountSample, StoresInOrder, StoresTyped
    <2>2. CASE SampleConnects
        BY <2>2 DEF SampleConnects, StoresInOrder
    <2>3. CASE KeepSample
        BY <2>3 DEF KeepSample, StoresInOrder, atomics
    <2>4. CASE LetGo
        BY <2>4 DEF LetGo, StoresInOrder, shared, atomics
    <2>5. CASE Add
        BY <2>5 DEF Add, StoresInOrder, shared, atomics
    <2>6. CASE PublishCount
        BY <2>6 DEF PublishCount, StoresInOrder
    <2>7. CASE CountReconnect
        BY <2>7 DEF CountReconnect, StoresInOrder
    <2>8. CASE ReconnectConnects
        BY <2>8 DEF ReconnectConnects, StoresInOrder
    <2>9. CASE Disconnected
        BY <2>9 DEF Disconnected, StoresInOrder
    <2>10. CASE Take
        BY <2>10 DEF Take, StoresInOrder, shared, atomics
    <2>. QED BY <1>1, <2>1, <2>2, <2>3, <2>4, <2>5, <2>6, <2>7, <2>8, <2>9, <2>10 DEF Actor
<1>2. CASE UNCHANGED <<atomics, latest, audience, step>>
    BY <1>2 DEF StoresInOrder, atomics
<1>. QED BY <1>1, <1>2, StepKinds DEF Tick, Scrape, Ping, vars, shared

\* What a ping has loaded of the samples is no later than what is stored, and
\* the sample it looked at second is at most one behind the count.
PingsFit ==
    /\ \A p \in Pinger : loads[p] >= 2 => snap[p].samples <= samples
    /\ AgeFitsCount

LEMMA SamplesGrow ==
    ASSUME StoresTyped, [Next]_vars PROVE samples' >= samples
<1>1. CASE UNCHANGED samples
    BY <1>1, SMT DEF StoresTyped
<1>2. CASE CountSample
    BY <1>2, SMT DEF CountSample, StoresTyped
<1>. QED
    BY <1>1, <1>2, StepKinds DEF Actor, SampleConnects, KeepSample, LetGo, Add,
        PublishCount, CountReconnect, ReconnectConnects, Disconnected, Take,
        Tick, Scrape, Ping, vars, shared, atomics

LEMMA PingFitStep ==
    ASSUME StoresTyped, StoresInOrder, PingsTyped, PingsFit, [Next]_vars,
           StoresTyped', PingsTyped', NEW p \in Pinger
    PROVE  /\ loads'[p] >= 2 => snap'[p].samples <= samples'
           /\ loads'[p] >= 3 => snap'[p].sample + 1 >= snap'[p].samples
<1>. DEFINE s == snap[p]
            l == loads[p]
<1>1. /\ s.samples \in Nat /\ s.sample \in Nat /\ l \in 0..5
      /\ samples \in Nat /\ samples' \in Nat /\ latest \in Nat
      /\ l >= 2 => s.samples <= samples
      /\ l >= 3 => s.sample + 1 >= s.samples
    BY StatsBoundsAreNatural, SMT DEF PingsTyped, Snap, StoresTyped, PingsFit, AgeFitsCount
<1>2. samples' >= samples
    BY SamplesGrow
<1>3. CASE loads'[p] = l /\ snap'[p] = s
    BY <1>1, <1>2, <1>3, SMT
<1>4. CASE loads'[p] = 0
    BY <1>4, SMT
<1>5. CASE l = 0 /\ loads'[p] = 1
    BY <1>5, SMT
<1>6. CASE l = 1 /\ loads'[p] = 2 /\ snap'[p].samples = samples
    BY <1>1, <1>2, <1>6, SMT
<1>7. CASE l = 2 /\ loads'[p] = 3 /\ snap'[p].samples = s.samples /\ snap'[p].sample = latest
    BY <1>1, <1>2, <1>7, SMT DEF StoresInOrder
<1>8. CASE l >= 3 /\ snap'[p].samples = s.samples /\ snap'[p].sample = s.sample
    BY <1>1, <1>2, <1>8, SMT
<1>9. CASE Ping
    <2>. PICK q \in Pinger : Snapshot(q) \/ Pong(q)
        BY <1>9 DEF Ping
    <2>1. CASE q # p
        BY <2>1, <1>3 DEF Snapshot, LoadNext, Pong, PingsTyped
    <2>2. CASE q = p /\ Pong(p)
        BY <2>2, <1>4 DEF Pong, PingsTyped
    <2>3. CASE q = p /\ Snapshot(p)
        BY <2>3, <1>5, <1>6, <1>7, <1>8, SMT DEF Snapshot, LoadNext, PingsTyped, Snap
    <2>. QED BY <2>1, <2>2, <2>3
<1>10. CASE UNCHANGED ping
    BY <1>3, <1>10 DEF ping
<1>. QED BY <1>9, <1>10, StepKinds DEF Actor, Tick, Scrape, vars

LEMMA PingsStep ==
    ASSUME StoresTyped, StoresInOrder, PingsTyped, PingsFit, [Next]_vars,
           StoresTyped', PingsTyped'
    PROVE  PingsFit'
BY PingFitStep DEF PingsFit, AgeFitsCount

-----------------------------------------------------------------------------
(***************************************************************************)
(* Why what a scrape will answer was true at one moment.  If it saw the    *)
(* link down, the verdict was then "nothing"; if it saw it up, whatever    *)
(* recent sample it now finds under the lock was the verdict either then   *)
(* or when that sample was kept, which record_sample does on a link it     *)
(* has just marked connected.                                              *)
(***************************************************************************)
ScrapeFits(r) ==
    /\ phase[r] = "loaded" =>
        /\ Verdict \in moments[r]
        /\ ~seen[r] => 0 \in moments[r]
        /\ Fresh(r) => latest \in moments[r]
    /\ phase[r] = "answered" => body[r].channels \in moments[r]

ScrapesFit == \A r \in Scraper : ScrapeFits(r)

\* A step that is not this scrape's: the verdict of the new state is noted.
LEMMA OthersStep ==
    ASSUME StoresTyped, StoresInOrder, MomentsTyped, Next, StoresTyped',
           NEW r \in Scraper, ScrapeFits(r),
           phase'[r] = phase[r], seen'[r] = seen[r], body'[r] = body[r]
    PROVE  ScrapeFits(r)'
<1>1. CASE phase[r] = "loaded"
    <2>1. moments'[r] = moments[r] \cup {Verdict'}
        BY <1>1 DEF Next, Witnessed
    <2>2. CASE latest' = latest /\ (age <= StaleAfter \/ ~(age' <= StaleAfter))
        BY <1>1, <2>1, <2>2 DEF ScrapeFits, Fresh
    <2>3. CASE connected' /\ age' <= StaleAfter
        BY <1>1, <2>1, <2>3 DEF ScrapeFits, Fresh, Verdict
    <2>4. CASE KeepSample
        <3>1. connected' /\ age' = 0
            BY <2>4 DEF KeepSample, StoresInOrder, atomics
        <3>. QED BY <2>3, <3>1, WindowType, SMT
    <2>5. CASE Tick
        <3>1. latest' = latest /\ age <= StaleAfter
            BY <2>5 DEF Tick
        <3>. QED BY <2>2, <3>1
    <2>6. CASE UNCHANGED <<latest, age>>
        BY <2>2, <2>6
    <2>. QED
        BY <2>4, <2>5, <2>6 DEF Next, Actor, CountSample, SampleConnects, LetGo,
            Add, PublishCount, CountReconnect, ReconnectConnects, Disconnected,
            Take, Scrape, Ping, shared, atomics
<1>2. CASE phase[r] = "answered"
    BY <1>2 DEF Next, Witnessed, ScrapeFits
<1>3. CASE phase[r] \notin {"loaded", "answered"}
    BY <1>3 DEF ScrapeFits
<1>. QED BY <1>1, <1>2, <1>3

LEMMA ScrapeStep ==
    ASSUME StoresTyped, ScrapesTyped, MomentsTyped, Scrape, Witnessed,
           NEW r \in Scraper, ScrapeFits(r),
           Accept(r) \/ Drain(r) \/ LoadConnected(r) \/ LockLatest(r) \/ Done(r)
    PROVE  ScrapeFits(r)'
<1>. UNCHANGED <<connected, latest, age>> /\ Verdict' = Verdict
    BY DEF Scrape, shared, atomics, Verdict
<1>1. CASE Accept(r) \/ Drain(r) \/ Done(r)
    <2>1. phase'[r] \in {"none", "head", "drained"}
        BY <1>1 DEF Accept, Drain, Done, ScrapesTyped
    <2>. QED BY <2>1 DEF ScrapeFits
<1>2. CASE LoadConnected(r)
    <2>1. /\ phase[r] = "drained" /\ phase'[r] = "loaded"
          /\ seen'[r] = connected
        BY <1>2 DEF LoadConnected, ScrapesTyped
    <2>2. Verdict \in moments'[r]
        BY <2>1 DEF Witnessed
    <2>3. ~connected => Verdict = 0
        BY DEF Verdict
    <2>4. Fresh(r)' => Verdict = latest
        BY <2>1 DEF Verdict, Fresh
    <2>. QED BY <2>1, <2>2, <2>3, <2>4 DEF ScrapeFits
<1>3. CASE LockLatest(r)
    <2>1. /\ phase[r] = "loaded" /\ phase'[r] = "answered"
          /\ body'[r] = MetricsExposition(latest, Fresh(r))
        BY <1>3 DEF LockLatest, ScrapesTyped
    <2>2. body'[r].channels = IF Fresh(r) THEN latest ELSE 0
        BY <2>1 DEF MetricsExposition
    <2>3. Fresh(r) => latest \in moments[r]
        BY <2>1 DEF ScrapeFits
    <2>4. ~Fresh(r) => 0 \in moments[r]
        <3>1. CASE ~seen[r]
            BY <2>1, <3>1 DEF ScrapeFits
        <3>2. CASE seen[r] /\ ~Fresh(r)
            <4>1. Verdict = 0
                BY <3>2 DEF Verdict, Fresh
            <4>. QED BY <2>1, <4>1 DEF ScrapeFits
        <3>. QED BY <3>1, <3>2 DEF Fresh
    <2>5. moments[r] \subseteq moments'[r]
        BY <2>1 DEF Witnessed
    <2>. QED BY <2>1, <2>2, <2>3, <2>4, <2>5 DEF ScrapeFits
<1>. QED BY <1>1, <1>2, <1>3

LEMMA ScrapesStep ==
    ASSUME StoresTyped, StoresInOrder, ScrapesTyped, MomentsTyped, ScrapesFit,
           [Next]_vars, StoresTyped'
    PROVE  ScrapesFit'
<1>1. SUFFICES ASSUME NEW r \in Scraper PROVE ScrapeFits(r)'
    BY DEF ScrapesFit
<1>2. ScrapeFits(r)
    BY DEF ScrapesFit
<1>3. CASE Next /\ phase'[r] = phase[r] /\ seen'[r] = seen[r] /\ body'[r] = body[r]
    BY <1>2, <1>3, OthersStep
<1>4. CASE Scrape /\ Witnessed
    <2>. PICK q \in Scraper :
            Accept(q) \/ Drain(q) \/ LoadConnected(q) \/ LockLatest(q) \/ Done(q)
        BY <1>4 DEF Scrape
    <2>1. CASE q = r
        BY <1>2, <1>4, <2>1, ScrapeStep
    <2>2. CASE q # r
        <3>1. phase'[r] = phase[r] /\ seen'[r] = seen[r] /\ body'[r] = body[r]
            BY <2>2 DEF Accept, Drain, LoadConnected, LockLatest, Done, ScrapesTyped
        <3>. QED BY <1>3, <1>4, <3>1 DEF Next
    <2>. QED BY <2>1, <2>2
<1>5. CASE UNCHANGED vars
    BY <1>2, <1>5 DEF vars, shared, atomics, scrape, ScrapeFits, Verdict, Fresh
<1>6. CASE Next /\ UNCHANGED scrape
    BY <1>3, <1>6 DEF scrape
<1>. QED BY <1>4, <1>5, <1>6, StepKinds DEF Next, Actor, Tick, Ping

-----------------------------------------------------------------------------
IInv == TypeOK /\ StoresInOrder /\ PingsFit /\ ScrapesFit

LEMMA InitIInv == Init => IInv
<1>. SUFFICES ASSUME Init PROVE IInv
    OBVIOUS
<1>1. StoresInOrder
    BY DEF Init, StoresInOrder
<1>2. PingsFit
    BY SMT DEF Init, PingsFit, AgeFitsCount
<1>3. ScrapesFit
    BY DEF Init, ScrapesFit, ScrapeFits
<1>. QED BY <1>1, <1>2, <1>3, InitType DEF IInv

LEMMA StepIInv == IInv /\ [Next]_vars => IInv'
<1>. SUFFICES ASSUME IInv, [Next]_vars PROVE IInv'
    OBVIOUS
<1>1. /\ TypeOK /\ TypeOK'
      /\ StoresInOrder /\ PingsFit /\ ScrapesFit
    BY TypeStep DEF IInv
<1>2. StoresTyped /\ ScrapesTyped /\ PingsTyped /\ MomentsTyped
    BY <1>1, TypeParts
<1>3. StoresTyped' /\ PingsTyped'
    BY <1>1 DEF TypeOK, StoresTyped, PingsTyped, Snap
<1>4. StoresInOrder'
    BY <1>1, <1>2, StoresOrder
<1>5. PingsFit'
    BY <1>1, <1>2, <1>3, PingsStep
<1>6. ScrapesFit'
    BY <1>1, <1>2, <1>3, ScrapesStep
<1>. QED BY <1>1, <1>4, <1>5, <1>6 DEF IInv

(***************************************************************************)
(* Whatever scrapes overlap with whatever the actor does, an answer's      *)
(* channels were the verdict at one moment after its request was read.     *)
(***************************************************************************)
THEOREM ScrapesAreOfOneMoment == Spec => []ScrapeIsOfOneMoment
<1>1. IInv => ScrapeIsOfOneMoment
    BY DEF IInv, ScrapesFit, ScrapeFits, ScrapeIsOfOneMoment
<1>. QED BY <1>1, InitIInv, StepIInv, PTL DEF Spec

(***************************************************************************)
(* A ping that counted two samples or more also finds one to tell the age  *)
(* of, and at most one older than the last it counted.                     *)
(***************************************************************************)
THEOREM AgesFitCounts == Spec => []AgeFitsCount
<1>1. IInv => AgeFitsCount
    BY DEF IInv, PingsFit
<1>. QED BY <1>1, InitIInv, StepIInv, PTL DEF Spec

(***************************************************************************)
(* Between two operations the published number of clients is that of the   *)
(* list, for any number of subscribers.                                    *)
(***************************************************************************)
THEOREM CountsAreCurrent == Spec => []CountIsCurrent
<1>1. IInv => CountIsCurrent
    BY DEF IInv, StoresInOrder, CountIsCurrent
<1>. QED BY <1>1, InitIInv, StepIInv, PTL DEF Spec
=============================================================================
