-------------------------------- MODULE Scan --------------------------------
(***************************************************************************)
(* Looking for devices, in src/connection.rs: scan, which lists those that *)
(* advertise within a window, and find_device, which waits for one.  Both  *)
(* discover through while_scanning, and read BlueZ's list of devices round *)
(* by round while it changes under them.                                   *)
(***************************************************************************)
EXTENDS Naturals

CONSTANTS Dev,        \* the devices about
          Wanted,     \* the device that find_device is for
          MaxRounds   \* bound: the rounds that fit in the window

ASSUME WantedIsDev == Wanted \in Dev
ASSUME RoundsAreNatural == MaxRounds \in Nat \ {0}

VARIABLES
    listed,       \* BlueZ: the devices that it lists, ones long gone included
    named,        \* BlueZ: those whose name it has
    heard,        \* BlueZ: those that advertise, and so have an RSSI
    discovering,  \* BlueZ: whether this program has it discover
    job,          \* "scan" or "find"
    pc,           \* where the program is
    end,          \* how it will end once the discovery is stopped
    todo,         \* the devices still to read in this round
    found,        \* poll_devices: what is known of each device seen
    round,        \* the rounds begun
    atOnce,       \* history: heard, and named, from the start of the round on
    due,          \* history: what some whole round owes to the list
    ever,         \* history: heard at some moment of the discovery
    cached        \* history: named, and not heard, at some moment of it

bluez == <<listed, named, heard>>
program == <<job, discovering, pc, end, todo, found, round>>
history == <<atOnce, due, ever, cached>>
vars == <<bluez, program, history>>

\* An entry: whether a name and an RSSI have been read; neither, if there is none.
Unseen == [name |-> FALSE, rssi |-> FALSE]
Ended == {"ok", "failed"}

\* Where the program is inside while_scanning.
Within == {"list", "read", "wait", "stop"}

\* The program has BlueZ discover just as long as it is in while_scanning.
TypeOK ==
    /\ discovering \in BOOLEAN /\ (discovering <=> pc \in Within)
    /\ named \subseteq listed /\ heard \subseteq listed /\ listed \subseteq Dev
    /\ job \in {"scan", "find"}
    /\ pc \in {"lookup", "start"} \cup Within \cup Ended
    /\ end \in Ended
    /\ todo \subseteq listed
    /\ found \in [Dev -> [name : BOOLEAN, rssi : BOOLEAN]]
    /\ round \in 0..MaxRounds
    /\ atOnce \in [heard : SUBSET Dev, named : SUBSET Dev]
    /\ due \in [heard : SUBSET Dev, named : SUBSET Dev]
    /\ ever \subseteq Dev /\ cached \subseteq Dev

-----------------------------------------------------------------------------
\* BlueZ learns of a device, or hears it again; advertisements are fragmented,
\* so that the name may come later.
Hears(d) ==
    /\ d \notin heard
    /\ listed' = listed \cup {d} /\ heard' = heard \cup {d}
    /\ UNCHANGED named

Names(d) == d \in heard \ named /\ named' = named \cup {d} /\ UNCHANGED <<listed, heard>>

\* It no longer discovers the device, and drops its RSSI.
Loses(d) == d \in heard /\ heard' = heard \ {d} /\ UNCHANGED <<listed, named>>

BlueZ ==
    /\ pc \notin Ended
    /\ \E d \in Dev : Hears(d) \/ Names(d) \/ Loses(d)
    /\ UNCHANGED program

-----------------------------------------------------------------------------
Goto(place) == pc' = place /\ UNCHANGED <<job, end>>

\* Slip: an error leaves while_scanning through a question mark.
Return_Early(how) ==
    /\ pc' = IF how = "ok" THEN "stop" ELSE how
    /\ end' = how /\ UNCHANGED job

\* The body of while_scanning returns.
Return(how) == pc' = "stop" /\ end' = how /\ UNCHANGED job

\* find_device: a device that BlueZ lists is taken at once.
Lookup ==
    /\ pc = "lookup"
    /\ \/ Goto(IF Wanted \in listed THEN "ok" ELSE "start")
       \/ Goto("failed")
    /\ UNCHANGED <<discovering, todo, found, round>>

\* while_scanning.
StartScan ==
    /\ pc = "start"
    /\ \/ Goto("list") /\ discovering' = TRUE
       \/ Goto("failed") /\ UNCHANGED discovering
    /\ UNCHANGED <<todo, found, round>>

\* adapter.peripherals, for a round of poll_devices or await_device.  The
\* device that is waited for is taken as it is listed, heard or not.
ListDevices ==
    /\ pc = "list" /\ round < MaxRounds
    /\ round' = round + 1
    /\ \/ job = "scan" /\ todo' = listed /\ Goto("read")
       \/ /\ job = "find" /\ UNCHANGED todo
          /\ IF Wanted \in listed THEN Return("ok") ELSE Goto("wait")
       \/ Return("failed") /\ UNCHANGED todo
    /\ UNCHANGED <<discovering, found>>

\* A device is left alone once its name is known.
Memo(d) == found[d].name

\* Slip: what a round reports replaces what was known.
Merged_Overwritten(d) ==
    [name |-> d \in named, rssi |-> d \in heard]

Merged(d) ==
    [name |-> found[d].name \/ d \in named,
     rssi |-> found[d].rssi \/ d \in heard]

\* The device is passed over: known, or of no properties.
PassOver(d) ==
    /\ pc = "read" /\ d \in todo
    /\ Memo(d) \/ d \notin heard
    /\ todo' = todo \ {d} /\ Goto("read")
    /\ UNCHANGED <<discovering, found, round>>

\* dev.properties, which may fail.
ReadDevice(d) ==
    /\ pc = "read" /\ d \in todo /\ ~Memo(d)
    /\ \/ /\ found' = [found EXCEPT ![d] = Merged(d)]
          /\ todo' = todo \ {d} /\ Goto("read")
       \/ Return("failed") /\ UNCHANGED <<todo, found>>
    /\ UNCHANGED <<discovering, round>>

RoundOver == pc = "read" /\ todo = {}

\* The deadline has passed or, after a pause, another round begins.
NextRound ==
    /\ \/ RoundOver /\ (Goto("list") \/ Return("ok"))
       \/ pc = "wait" /\ (Goto("list") \/ Return("failed"))
    /\ (pc' = "list") => round < MaxRounds
    /\ UNCHANGED <<discovering, todo, found, round>>

\* while_scanning, whatever its body returned.
StopScan ==
    /\ pc = "stop"
    /\ discovering' = FALSE
    /\ Goto(end)
    /\ UNCHANGED <<todo, found, round>>

Program ==
    /\ \/ Lookup \/ StartScan \/ ListDevices
       \/ \E d \in Dev : PassOver(d) \/ ReadDevice(d)
       \/ NextRound \/ StopScan
    /\ UNCHANGED bluez

-----------------------------------------------------------------------------
\* A whole round owes to the list the devices heard all through it, but for
\* those that had a name before they were heard; and of those heard and named
\* all through it, the name.
Witnessed ==
    LET now == [heard |-> heard', named |-> heard' \cap named']
    IN  /\ atOnce' = IF round' # round THEN now
                     ELSE [heard |-> atOnce.heard \cap now.heard,
                           named |-> atOnce.named \cap now.named]
        /\ due' = IF RoundOver /\ pc' # "read"
                  THEN [heard |-> due.heard \cup (atOnce.heard \ cached),
                        named |-> due.named \cup atOnce.named]
                  ELSE due
        /\ IF discovering'
           THEN ever' = ever \cup heard' /\ cached' = cached \cup (named' \ heard')
           ELSE UNCHANGED <<ever, cached>>

\* BlueZ lists what it has ever seen, with names, and may hear some of it.
Init ==
    /\ listed \in SUBSET Dev /\ named \in SUBSET listed /\ heard \in SUBSET listed
    /\ job \in {"scan", "find"}
    /\ pc = IF job = "scan" THEN "start" ELSE "lookup"
    /\ discovering = FALSE /\ end = "failed" /\ todo = {} /\ round = 0
    /\ found = [d \in Dev |-> Unseen]
    /\ atOnce = [heard |-> {}, named |-> {}] /\ due = atOnce
    /\ ever = {} /\ cached = {}

Next == (BlueZ \/ Program) /\ Witnessed

Spec == Init /\ [][Next]_vars

-----------------------------------------------------------------------------
\* The result of scan: the devices with an RSSI.
Result == {d \in Dev : found[d].rssi}

(***************************************************************************)
(* A scan lists devices that advertise in the window and no ghosts: every  *)
(* device that was heard all through some round is there, with its name if *)
(* BlueZ had that all through a round, although it falls silent later; and *)
(* none that was never heard (connection.rs:218-224, 269-272).  It misses  *)
(* a device whose name BlueZ had before it was heard: that one may be read *)
(* while it is silent, and is then left alone (connection.rs:263).         *)
(***************************************************************************)
ScanListsAdvertisers ==
    job = "scan" /\ pc = "ok" =>
        /\ due.heard \subseteq Result /\ Result \subseteq ever
        /\ \A d \in due.named : found[d].name
=============================================================================
