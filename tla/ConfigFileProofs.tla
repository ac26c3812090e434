--------------------------- MODULE ConfigFileProofs -------------------------
(***************************************************************************)
(* Theorems about ConfigFile, for files of any length, with any sections   *)
(* and any values.                                                         *)
(***************************************************************************)
EXTENDS ConfigFile, TLAPS

\* The section that the next line belongs to is the last header above it.
SectionIsOpen ==
    \A p \in Device \cup {None} : Under(Len(read) + 1, p) <=> p = section

Meant == FileMeansItsLines /\ (verdict = "reading" => SectionIsOpen)

-----------------------------------------------------------------------------
\* No key's values include None.
LEMMA ValuesAreSet == ASSUME NEW k \in Key PROVE None \notin Value(k)
BY NoneIsNothing DEF Value, Key

LEMMA NothingIsSettings == Nothing \in Settings
BY DEF Nothing, Settings

\* One line more, after n.
Adds(line, n) ==
    /\ read \in Seq(Line) /\ line \in Line
    /\ n = Len(read) /\ read' = Append(read, line)

LEMMA OneMore ==
    ASSUME NEW line, NEW n, Adds(line, n)
    PROVE  /\ read' \in Seq(Line) /\ n \in Nat
           /\ Len(read) = n /\ Len(read') = n + 1
           /\ DOMAIN read = 1..n /\ DOMAIN read' = 1..(n + 1)
           /\ \A i \in 1..n : read'[i] = read[i]
           /\ read'[n + 1] = line
BY DEF Adds

LEMMA LineType ==
    ASSUME ReadLine
    PROVE  \E line \in Line : Reads(line)
<1> USE DEF Line
<1>1. CASE Blank \/ Junk
    BY <1>1 DEF Blank, Junk
<1>2. ASSUME NEW n \in Device, Section(n) \/ Default(n)
      PROVE  \E line \in Line : Reads(line)
    BY <1>2 DEF Section, Default
<1>3. ASSUME NEW k \in Key, NEW v \in Value(k), Assign(k, v)
      PROVE  \E line \in Line : Reads(line)
    <2>1. [kind |-> "assign", key |-> k, value |-> v] \in Line
        OBVIOUS
    <2> QED BY <1>3, <2>1 DEF Assign
<1> QED BY <1>1, <1>2, <1>3 DEF ReadLine

-----------------------------------------------------------------------------
LEMMA ReadLineType == ConfigTypeOK /\ ReadLine => ConfigTypeOK'
<1> SUFFICES ASSUME ConfigTypeOK, ReadLine PROVE ConfigTypeOK'
    OBVIOUS
<1>1. read' \in Seq(Line) /\ Len(read') <= MaxLines
    BY LineType, LinesAreNatural DEF ConfigTypeOK, Reads
<1> USE DEF ConfigTypeOK, File
<1>2. CASE Blank \/ Junk
    BY <1>1, <1>2 DEF Blank, Junk
<1>3. ASSUME NEW n \in Device, Section(n) PROVE ConfigTypeOK'
    BY <1>1, <1>3 DEF Section, Entered, Reads
<1>4. ASSUME NEW n \in Device, Default(n) PROVE ConfigTypeOK'
    BY <1>1, <1>4 DEF Default, Reads
<1>5. ASSUME NEW k \in Key, NEW v \in Value(k), Assign(k, v) PROVE ConfigTypeOK'
    <2>1. [file.profile[section] EXCEPT ![k] = v] \in Settings
        BY DEF Settings, Value, Key
    <2>2. file' = [file EXCEPT !.profile[section] = [file.profile[section] EXCEPT ![k] = v]]
        BY <1>5 DEF Assign
    <2>3. file' \in File
        BY <2>1, <2>2
    <2> QED BY <1>1, <1>5, <2>3 DEF Assign, Reads
<1> QED BY <1>2, <1>3, <1>4, <1>5 DEF ReadLine

\* The lines are kept to the end of the file, or forgotten with it.
LEMMA EndType ==
    ASSUME ConfigTypeOK, EndOfFile, read' = read \/ read' = <<>>
    PROVE  ConfigTypeOK'
<1>1. verdict' \in {"ok", "error"}
    BY DEF EndOfFile
<1>2. read' \in Seq(Line) /\ Len(read') <= MaxLines
    <2>1. <<>> \in Seq(Line) /\ Len(<<>>) = 0
        OBVIOUS
    <2>2. CASE read' = <<>>
        BY <2>1, <2>2, LinesAreNatural
    <2>3. CASE read' = read
        BY <2>3 DEF ConfigTypeOK
    <2> QED BY <2>2, <2>3
<1> QED BY <1>1, <1>2 DEF ConfigTypeOK, EndOfFile

LEMMA InitConfigType == ConfigInit => ConfigTypeOK
BY NothingIsSettings, LinesAreNatural DEF ConfigInit, ConfigTypeOK, File

-----------------------------------------------------------------------------
\* What stands above a line is not changed by those that follow it.
LEMMA UnderStays ==
    ASSUME NEW line, NEW n, Adds(line, n), NEW i \in 1..(n + 1), NEW p
    PROVE  Under(i, p)' <=> Under(i, p)
<1>1. \A h \in 1..(i - 1) : IsHeader(h)' <=> IsHeader(h)
    BY OneMore DEF IsHeader
<1>2. \A h \in 1..(i - 1) : read'[h] = read[h]
    BY OneMore
<1>3. \A h \in 1..(i - 1) : (h + 1)..(i - 1) \subseteq 1..(i - 1)
    BY OneMore
<1>4. CASE p = None
    BY <1>1, <1>4 DEF Under
<1>5. CASE p # None
    BY <1>1, <1>2, <1>3, <1>5 DEF Under
<1> QED BY <1>4, <1>5

\* Only a header changes which section is open.
LEMMA SectionStays ==
    ASSUME NEW line, NEW n, Adds(line, n), line.kind # "section",
           SectionIsOpen, section' = section
    PROVE  SectionIsOpen'
<1>1. ASSUME NEW p \in Device \cup {None}
      PROVE  Under(n + 2, p)' <=> Under(n + 1, p)'
    <2>1. ~IsHeader(n + 1)'
        BY OneMore DEF IsHeader
    <2>2. 1..(n + 1) = (1..n) \cup {n + 1} /\ (n + 2) - 1 = n + 1 /\ (n + 1) - 1 = n
        BY OneMore
    <2>3. \A h \in 1..n : (h + 1)..(n + 1) = ((h + 1)..n) \cup {n + 1}
        BY OneMore
    <2> QED BY <2>1, <2>2, <2>3 DEF Under
<1>2. ASSUME NEW p \in Device \cup {None}
      PROVE  Under(n + 2, p)' <=> p = section'
    <2>1. Under(n + 1, p) <=> p = section
        BY OneMore DEF SectionIsOpen
    <2> QED BY <1>1, <2>1, UnderStays, OneMore
<1>3. Len(read') + 1 = n + 2
    BY OneMore
<1> QED BY <1>2, <1>3 DEF SectionIsOpen

LEMMA SectionOpens ==
    ASSUME NEW line, NEW n, Adds(line, n), NEW d \in Device,
           line.kind = "section", line.name = d, section' = d
    PROVE  SectionIsOpen'
<1>1. ASSUME NEW p \in Device \cup {None}
      PROVE  Under(n + 2, p)' <=> p = d
    <2>1. IsHeader(n + 1)' /\ read'[n + 1].name = d
        BY OneMore DEF IsHeader
    <2>2. /\ n + 1 \in 1..(n + 1) /\ (n + 2) - 1 = n + 1
          /\ ((n + 1) + 1)..(n + 1) = {}
          /\ \A h \in 1..(n + 1) : h # n + 1 => n + 1 \in (h + 1)..(n + 1)
        BY OneMore
    <2> QED BY <2>1, <2>2, NoneIsNothing DEF Under
<1>2. Len(read') + 1 = n + 2
    BY OneMore
<1> QED BY <1>1, <1>2 DEF SectionIsOpen

\* A line that does not assign the key of the profile leaves what it is.
LEMMA SaysStays ==
    ASSUME NEW line, NEW n, Adds(line, n), NEW p, NEW k, ~Assigns(n + 1, p, k)'
    PROVE  /\ (\A i \in DOMAIN read : ~Assigns(i, p, k))
                => (\A i \in DOMAIN read' : ~Assigns(i, p, k)')
           /\ \A v : Says(p, k, v) => Says(p, k, v)'
<1>1. \A i \in 1..n : Assigns(i, p, k)' <=> Assigns(i, p, k)
    BY OneMore, UnderStays DEF Assigns
<1>2. 1..(n + 1) = (1..n) \cup {n + 1}
    BY OneMore
<1>3. (\A i \in DOMAIN read : ~Assigns(i, p, k))
        => (\A i \in DOMAIN read' : ~Assigns(i, p, k)')
    BY <1>1, <1>2, OneMore
<1>4. ASSUME NEW v, Says(p, k, v) PROVE Says(p, k, v)'
    <2>1. PICK i \in 1..n :
            /\ Assigns(i, p, k) /\ read[i].value = v
            /\ \A j \in (i + 1)..n : ~Assigns(j, p, k)
        BY <1>4, OneMore DEF Says
    <2>2. i \in 1..(n + 1) /\ Assigns(i, p, k)' /\ read'[i].value = v
        BY <1>1, <2>1, OneMore
    <2>3. \A j \in (i + 1)..(n + 1) : j = n + 1 \/ (j \in (i + 1)..n /\ j \in 1..n)
        BY OneMore
    <2>4. \A j \in (i + 1)..(n + 1) : ~Assigns(j, p, k)'
        BY <1>1, <2>1, <2>3
    <2> QED BY <2>2, <2>4, OneMore DEF Says
<1> QED BY <1>3, <1>4

-----------------------------------------------------------------------------
LEMMA ProfilesStep ==
    ASSUME ConfigTypeOK, NEW line, NEW n, Adds(line, n),
           ProfilesAreAssigned, SectionIsOpen,
           \/ line.kind # "assign" /\ file'.profile = file.profile
           \/ \E k \in Key : \E v \in Value(k) :
                 /\ line = [kind |-> "assign", key |-> k, value |-> v]
                 /\ file'.profile = [file.profile EXCEPT ![section][k] = v]
    PROVE  ProfilesAreAssigned'
<1> SUFFICES ASSUME NEW p \in Device \cup {None}, NEW k \in Key,
                    NEW held, held = file'.profile[p][k]
             PROVE  IF held = None
                    THEN \A i \in DOMAIN read' : ~Assigns(i, p, k)'
                    ELSE Says(p, k, held)'
    BY DEF ProfilesAreAssigned
<1>1. CASE ~Assigns(n + 1, p, k)' /\ held = file.profile[p][k]
    BY <1>1, SaysStays DEF ProfilesAreAssigned
<1>2. CASE Assigns(n + 1, p, k)' /\ read'[n + 1].value = held
                                /\ held # None
    BY <1>2, OneMore DEF Says
<1>3. CASE line.kind # "assign" /\ file'.profile = file.profile
    BY <1>1, <1>3, OneMore DEF Assigns
<1>4. ASSUME NEW c \in Key, NEW v \in Value(c),
             line = [kind |-> "assign", key |-> c, value |-> v],
             file'.profile = [file.profile EXCEPT ![section][c] = v]
      PROVE  \/ /\ ~Assigns(n + 1, p, k)'
                /\ held = file.profile[p][k]
             \/ /\ Assigns(n + 1, p, k)' /\ read'[n + 1].value = held
                /\ held # None
    <2>1. Under(n + 1, p)' <=> p = section
        BY OneMore, UnderStays DEF SectionIsOpen
    <2>2. Assigns(n + 1, p, k)' <=> p = section /\ k = c
        BY <1>4, <2>1, OneMore DEF Assigns
    <2>3. file.profile \in [Device \cup {None} -> [Key -> Addr \cup Socket \cup {None}]]
        BY DEF ConfigTypeOK, File, Settings
    <2>4. section \in Device \cup {None}
        BY DEF ConfigTypeOK
    <2>5. CASE p = section /\ k = c
        BY <1>4, <2>2, <2>3, <2>4, <2>5, OneMore, ValuesAreSet
    <2>6. CASE ~(p = section /\ k = c)
        <3>1. held = file.profile[p][k]
            BY <1>4, <2>3, <2>4, <2>6
        <3> QED BY <2>2, <2>6, <3>1
    <2> QED BY <2>5, <2>6
<1> QED BY <1>1, <1>2, <1>3, <1>4

LEMMA HeadersStep ==
    ASSUME NEW line, NEW n, Adds(line, n), SectionsAreHeaders,
           file'.known = file.known
                            \cup (IF line.kind = "section" THEN {line.name} ELSE {})
    PROVE  SectionsAreHeaders'
<1>1. \A i \in 1..n : read'[i] = read[i] /\ (IsHeader(i)' <=> IsHeader(i))
    BY OneMore DEF IsHeader
<1>2. read'[n + 1] = line /\ (IsHeader(n + 1)' <=> line.kind = "section")
    BY OneMore DEF IsHeader
<1>3. DOMAIN read = 1..n /\ DOMAIN read' = (1..n) \cup {n + 1}
    <2>1. 1..(n + 1) = (1..n) \cup {n + 1}
        BY OneMore
    <2> QED BY <2>1, OneMore
<1> QED BY <1>1, <1>2, <1>3 DEF SectionsAreHeaders

LEMMA DefaultStep ==
    ASSUME ConfigTypeOK, NEW line \in Line, NEW n, Adds(line, n), DefaultIsNamed,
           file'.default = IF line.kind = "default" THEN line.name ELSE file.default
    PROVE  DefaultIsNamed'
<1>1. \A i \in 1..n : read'[i] = read[i] /\ (IsDefault(i)' <=> IsDefault(i))
    BY OneMore DEF IsDefault
<1>2. read'[n + 1] = line /\ (IsDefault(n + 1)' <=> line.kind = "default")
    BY OneMore DEF IsDefault
<1>3. CASE line.kind = "default"
    <2>1. line.name # None
        BY <1>3, NoneIsNothing DEF Line
    <2>2. n + 1 \in DOMAIN read' /\ ((n + 1) + 1)..Len(read') = {}
        BY OneMore
    <2> QED BY <1>2, <1>3, <2>1, <2>2 DEF DefaultIsNamed
<1>4. CASE line.kind # "default" /\ file.default = None
    BY <1>1, <1>2, <1>4, OneMore DEF DefaultIsNamed
<1>5. CASE line.kind # "default" /\ file.default # None
    <2>1. PICK i \in 1..n : /\ IsDefault(i) /\ read[i].name = file.default
                            /\ \A j \in (i + 1)..n : ~IsDefault(j)
        BY <1>5, OneMore DEF DefaultIsNamed
    <2>2. i \in DOMAIN read' /\ IsDefault(i)' /\ read'[i].name = file'.default
        BY <1>1, <1>5, <2>1, OneMore
    <2>3. \A j \in (i + 1)..(n + 1) : j = n + 1 \/ (j \in (i + 1)..n /\ j \in 1..n)
        BY OneMore
    <2>4. \A j \in (i + 1)..Len(read') : ~IsDefault(j)'
        BY <1>1, <1>2, <1>5, <2>1, <2>3, OneMore
    <2> QED BY <1>5, <2>2, <2>4 DEF DefaultIsNamed
<1> QED BY <1>3, <1>4, <1>5

LEMMA AcceptedStep ==
    ASSUME ConfigTypeOK, NEW line, NEW n, Adds(line, n), LinesAreAccepted, SectionIsOpen,
           line.kind # "junk", line.kind = "default" => section = None
    PROVE  LinesAreAccepted'
<1> SUFFICES ASSUME NEW i \in 1..(n + 1)
             PROVE  read'[i].kind # "junk" /\ (IsDefault(i)' => Under(i, None)')
    BY OneMore DEF LinesAreAccepted
<1>1. CASE i \in 1..n
    BY <1>1, OneMore, UnderStays DEF LinesAreAccepted, IsDefault
<1>2. CASE i = n + 1
    <2>1. Under(n + 1, None) <=> None = section
        BY OneMore DEF SectionIsOpen
    <2> QED BY <1>2, <2>1, OneMore, UnderStays DEF IsDefault
<1> QED BY <1>1, <1>2, OneMore

-----------------------------------------------------------------------------
\* A line that is read keeps the meaning of the file, or makes it an error.
LEMMA MeantStep ==
    ASSUME ConfigTypeOK, Meant, ReadLine
    PROVE  Meant'
<1> DEFINE n == Len(read)
<1>0. verdict = "reading"
    BY DEF ReadLine, Blank, Junk, Section, Default, Assign, Reads
<1>1. /\ ProfilesAreAssigned /\ SectionsAreHeaders /\ DefaultIsNamed
      /\ LinesAreAccepted /\ SectionIsOpen
    BY <1>0 DEF Meant, FileMeansItsLines
<1>2. SUFFICES ASSUME verdict' = "reading"
               PROVE  /\ ProfilesAreAssigned' /\ SectionsAreHeaders' /\ DefaultIsNamed'
                      /\ LinesAreAccepted' /\ SectionIsOpen'
    <2>1. verdict' \in {"reading", "error"}
        BY <1>0 DEF ReadLine, Blank, Junk, Section, Default, Assign
    <2> QED BY <2>1 DEF Meant, FileMeansItsLines
<1>3. ASSUME NEW line, line \in Line, Reads(line) PROVE Adds(line, n)
    BY <1>3 DEF Adds, Reads, ConfigTypeOK
<1>4. CASE Blank
    <2> DEFINE line == [kind |-> "blank"]
    <2>1. line \in Line /\ Adds(line, n)
        BY <1>3, <1>4 DEF Blank, Line
    <2>2. line.kind = "blank" /\ file' = file /\ section' = section
        BY <1>4 DEF Blank
    <2> HIDE DEF line, n
    <2> QED BY <1>1, <2>1, <2>2, ProfilesStep, HeadersStep, DefaultStep, AcceptedStep,
               SectionStays
<1>5. CASE Junk
    BY <1>2, <1>5 DEF Junk
<1>6. ASSUME NEW d \in Device, Section(d)
      PROVE  /\ ProfilesAreAssigned' /\ SectionsAreHeaders' /\ DefaultIsNamed'
             /\ LinesAreAccepted' /\ SectionIsOpen'
    <2> DEFINE line == [kind |-> "section", name |-> d]
    <2>1. line \in Line /\ Adds(line, n)
        BY <1>3, <1>6 DEF Section, Line
    <2>2. line.kind = "section" /\ line.name = d /\ section' = d
        BY <1>6 DEF Section
    <2>3. /\ file'.profile = file.profile /\ file'.default = file.default
          /\ file'.known = file.known \cup {d}
        BY <1>6 DEF Section, Entered, ConfigTypeOK, File
    <2> HIDE DEF line, n
    <2> QED BY <1>1, <2>1, <2>2, <2>3, ProfilesStep, HeadersStep, DefaultStep,
               AcceptedStep, SectionOpens
<1>7. ASSUME NEW d \in Device, Default(d)
      PROVE  /\ ProfilesAreAssigned' /\ SectionsAreHeaders' /\ DefaultIsNamed'
             /\ LinesAreAccepted' /\ SectionIsOpen'
    <2> DEFINE line == [kind |-> "default", name |-> d]
    <2>1. line \in Line /\ Adds(line, n)
        BY <1>3, <1>7 DEF Default, Line
    <2>2. /\ line.kind = "default" /\ line.name = d
          /\ section = None /\ section' = section
        BY <1>2, <1>7 DEF Default
    <2>3. /\ file'.profile = file.profile /\ file'.default = d
          /\ file'.known = file.known
        BY <1>2, <1>7 DEF Default, ConfigTypeOK, File
    <2> HIDE DEF line, n
    <2> QED BY <1>1, <2>1, <2>2, <2>3, ProfilesStep, HeadersStep, DefaultStep,
               AcceptedStep, SectionStays
<1>8. ASSUME NEW k \in Key, NEW v \in Value(k), Assign(k, v)
      PROVE  /\ ProfilesAreAssigned' /\ SectionsAreHeaders' /\ DefaultIsNamed'
             /\ LinesAreAccepted' /\ SectionIsOpen'
    <2> DEFINE line == [kind |-> "assign", key |-> k, value |-> v]
    <2>1. line \in Line /\ Adds(line, n)
        BY <1>3, <1>8 DEF Assign, Line
    <2>2. line.kind = "assign" /\ section' = section
        BY <1>8 DEF Assign
    <2>3. /\ file'.profile = [file.profile EXCEPT ![section][k] = v]
          /\ file'.default = file.default /\ file'.known = file.known
        BY <1>8 DEF Assign, ConfigTypeOK, File
    <2>4. ProfilesAreAssigned'
        <3>1. line = [kind |-> "assign", key |-> k, value |-> v]
            OBVIOUS
        <3> HIDE DEF line, n
        <3> QED BY <1>1, <2>1, <2>3, <3>1, ProfilesStep
    <2> HIDE DEF line, n
    <2> QED BY <1>1, <2>1, <2>2, <2>3, <2>4, HeadersStep, DefaultStep, AcceptedStep,
               SectionStays
<1> QED BY <1>4, <1>5, <1>6, <1>7, <1>8 DEF ReadLine

\* At its end the file is accepted with a default that it has, or not at all.
LEMMA MeantAtEnd ==
    ASSUME EndOfFile
    PROVE  Meant'
BY DEF EndOfFile, Dangling, Meant, FileMeansItsLines

LEMMA MeantAtFirst ==
    ASSUME ConfigInit
    PROVE  Meant
<1> USE DEF ConfigInit
<1>1. DOMAIN read = {} /\ Len(read) = 0
    OBVIOUS
<1>2. ProfilesAreAssigned
    BY <1>1 DEF ProfilesAreAssigned, Nothing
<1>3. SectionsAreHeaders /\ DefaultIsNamed /\ LinesAreAccepted
    BY <1>1 DEF SectionsAreHeaders, DefaultIsNamed, LinesAreAccepted
<1>4. \A p \in Device \cup {None} : Under(1, p) <=> p = None
    BY DEF Under
<1> QED BY <1>1, <1>2, <1>3, <1>4 DEF Meant, FileMeansItsLines, SectionIsOpen

(***************************************************************************)
(* parse_config means what the lines say, however many there are and in    *)
(* whatever order headers, keys and the default stand; and it keeps its    *)
(* type, so that a profile never holds a value of another key.             *)
(***************************************************************************)
THEOREM FilesMeanTheirLines == ConfigSpec => [](ConfigTypeOK /\ FileMeansItsLines)
<1>1. ConfigInit => ConfigTypeOK /\ Meant
    BY InitConfigType, MeantAtFirst
<1>2. ConfigTypeOK /\ Meant /\ [ReadLine \/ (EndOfFile /\ UNCHANGED read)]_configVars
        => ConfigTypeOK' /\ Meant'
    <2> SUFFICES ASSUME ConfigTypeOK, Meant,
                        [ReadLine \/ (EndOfFile /\ UNCHANGED read)]_configVars
                 PROVE  ConfigTypeOK' /\ Meant'
        OBVIOUS
    <2>1. CASE ReadLine
        BY <2>1, ReadLineType, MeantStep
    <2>2. CASE EndOfFile /\ UNCHANGED read
        BY <2>2, EndType, MeantAtEnd
    <2>3. CASE UNCHANGED configVars
        BY <2>3 DEF configVars, ConfigTypeOK, Meant, FileMeansItsLines, SectionIsOpen,
            ProfilesAreAssigned, SectionsAreHeaders, DefaultIsNamed, LinesAreAccepted,
            Says, Assigns, Under, IsHeader, IsDefault
    <2> QED BY <2>1, <2>2, <2>3
<1>3. Meant => FileMeansItsLines
    BY DEF Meant
<1> QED BY <1>1, <1>2, <1>3, PTL DEF ConfigSpec
=============================================================================
