------------------------------ MODULE ConfigFile ----------------------------
(***************************************************************************)
(* parse_config of src/cli.rs: the lines of a config file, one action per  *)
(* line and one for the end of the file.  The file is any sequence of      *)
(* lines; a junk line is one that no branch of the loop accepts - a header *)
(* without its bracket or with another name, a line without =, an unknown  *)
(* key, a value that does not parse.                                       *)
(***************************************************************************)
EXTENDS Naturals, Sequences, Settings

CONSTANT MaxLines   \* bound: the lines of the file

ASSUME LinesAreNatural == MaxLines \in Nat

VARIABLES
    file,      \* FileConfig
    section,   \* the profile that the keys being read belong to
    verdict,   \* "reading", and then "ok" or "error"; "absent" if no file
    read       \* history: the lines so far

configVars == <<file, section, verdict, read>>

Line == [kind : {"blank", "junk"}]
            \cup [kind : {"section", "default"}, name : Device]
            \cup UNION {[kind : {"assign"}, key : {k}, value : Value(k)] : k \in Key}

ConfigTypeOK ==
    /\ file \in File
    /\ section \in Device \cup {None}
    /\ verdict \in {"absent", "reading", "ok", "error"}
    /\ read \in Seq(Line) /\ Len(read) <= MaxLines

-----------------------------------------------------------------------------
Reads(line) ==
    /\ verdict = "reading" /\ Len(read) < MaxLines
    /\ read' = Append(read, line)

Blank == Reads([kind |-> "blank"]) /\ UNCHANGED <<file, section, verdict>>

Junk ==
    /\ Reads([kind |-> "junk"])
    /\ verdict' = "error"
    /\ UNCHANGED <<file, section>>

\* Slip: a section entered again starts over.
Entered_Anew(n) ==
    [file EXCEPT !.known = @ \cup {n}, !.profile[n] = Nothing]

\* entry(..).or_default().
Entered(n) == [file EXCEPT !.known = @ \cup {n}]

Section(n) ==
    /\ Reads([kind |-> "section", name |-> n])
    /\ file' = Entered(n)
    /\ section' = n
    /\ UNCHANGED verdict

Default(n) ==
    /\ Reads([kind |-> "default", name |-> n])
    /\ IF section = None
       THEN file' = [file EXCEPT !.default = n] /\ UNCHANGED verdict
       ELSE verdict' = "error" /\ UNCHANGED file
    /\ UNCHANGED section

\* Slip: every value is kept as the socket, by an arm copied too often.
Assign_Copied(k, v) ==
    /\ Reads([kind |-> "assign", key |-> k, value |-> v])
    /\ file' = [file EXCEPT !.profile[section]["socket"] = v]
    /\ UNCHANGED <<section, verdict>>

Assign(k, v) ==
    /\ Reads([kind |-> "assign", key |-> k, value |-> v])
    /\ file' = [file EXCEPT !.profile[section][k] = v]
    /\ UNCHANGED <<section, verdict>>

\* Slip: a default that names no section is let through.
Dangling_Never == FALSE

Dangling == file.default \notin file.known \cup {None}

EndOfFile ==
    /\ verdict = "reading"
    /\ verdict' = IF Dangling THEN "error" ELSE "ok"
    /\ UNCHANGED <<file, section>>

ConfigInit ==
    /\ file = [profile |-> [p \in Device \cup {None} |-> Nothing],
               known |-> {}, default |-> None]
    /\ section = None /\ read = <<>>
    /\ verdict \in {"absent", "reading"}

ReadLine ==
    \/ Blank \/ Junk
    \/ \E n \in Device : Section(n) \/ Default(n)
    \/ \E k \in Key : \E v \in Value(k) : Assign(k, v)

ConfigSpec ==
    ConfigInit /\ [][ReadLine \/ (EndOfFile /\ UNCHANGED read)]_configVars

-----------------------------------------------------------------------------
\* Line i of the file stands under the header of p, or at the top (None).
IsHeader(i) == read[i].kind = "section"
Under(i, p) ==
    IF p = None THEN \A h \in 1..(i - 1) : ~IsHeader(h)
    ELSE \E h \in 1..(i - 1) :
            /\ IsHeader(h) /\ read[h].name = p
            /\ \A g \in (h + 1)..(i - 1) : ~IsHeader(g)

Assigns(i, p, k) == read[i].kind = "assign" /\ read[i].key = k /\ Under(i, p)

\* The last assignment of a key under a profile's headers is what it says.
Says(p, k, v) ==
    \E i \in DOMAIN read :
        /\ Assigns(i, p, k) /\ read[i].value = v
        /\ \A j \in (i + 1)..Len(read) : ~Assigns(j, p, k)

IsDefault(i) == read[i].kind = "default"

\* Each profile holds the last value given to each key under its headers.
ProfilesAreAssigned ==
    \A p \in Device \cup {None}, k \in Key :
        IF file.profile[p][k] = None
        THEN \A i \in DOMAIN read : ~Assigns(i, p, k)
        ELSE Says(p, k, file.profile[p][k])

SectionsAreHeaders ==
    \A d \in Device :
        d \in file.known <=> \E i \in DOMAIN read : IsHeader(i) /\ read[i].name = d

DefaultIsNamed ==
    IF file.default = None
    THEN \A i \in DOMAIN read : ~IsDefault(i)
    ELSE \E i \in DOMAIN read :
            /\ IsDefault(i) /\ read[i].name = file.default
            /\ \A j \in (i + 1)..Len(read) : ~IsDefault(j)

LinesAreAccepted ==
    \A i \in DOMAIN read :
        read[i].kind # "junk" /\ (IsDefault(i) => Under(i, None))

(***************************************************************************)
(* What has been read is what the file says: each profile holds the last   *)
(* value given to each key under any of its headers, sections entered more *)
(* than once included, and nothing else; the sections known are those with *)
(* a header; the default is the last one named; and no line so far is junk *)
(* or a default under a header (cli.rs:636-692).  A file that is accepted  *)
(* has the section that its default names, wherever that stands, so that   *)
(* it serves an invocation that names no profile (cli.rs:691).             *)
(***************************************************************************)
FileMeansItsLines ==
    /\ verdict = "ok" => file.default \in file.known \cup {None}
    /\ verdict = "reading" =>
        /\ ProfilesAreAssigned /\ SectionsAreHeaders
        /\ DefaultIsNamed /\ LinesAreAccepted
=============================================================================
