------------------------------ MODULE CustodyFile ------------------------------
(***************************************************************************)
(* The nightly custody extract from end to end: the generator that stands  *)
(* in for the mainframe writes a header, details and a trailer with        *)
(* control totals; the file is damaged on its way; and parse_custody_file  *)
(* decides whether it reconciles before anything of it is produced.  What  *)
(* the adapter does with a verdict is the subject of FileAdapter.          *)
(*                                                                         *)
(* A zoned field is a sequence of symbols: the digits, a space and any     *)
(* other character.  Of a record's fields only those the controls look at  *)
(* are kept; quantities and values are in units of their last digit.       *)
(***************************************************************************)
EXTENDS Integers, SequencesExt

CONSTANTS
    Quantities,   \* quantities a position may have
    Prices,       \* and prices
    Cycles,       \* business dates; the generator writes one of them
    Cycle,
    FieldWidth,   \* width of POS_SHR_QTY and POS_MKT_VALUE
    TotalWidth,   \* width of TRL_TOT_SHR_QTY and TRL_TOT_MKT_VALUE
    CountWidth,   \* width of TRL_REC_COUNT
    Symbols,      \* the symbols a transfer may put in place of another
    MaxRecords,   \* bound: --records
    MaxDamage     \* bound: faults of one transfer

Blank == 10
Other == 11

ASSUME CustodyFileAssumption ==
    /\ Quantities \subseteq Nat /\ Prices \subseteq Nat
    /\ Cycle \in Cycles
    /\ FieldWidth \in Nat \ {0} /\ TotalWidth \in Nat \ {0} /\ CountWidth \in Nat \ {0}
    /\ Symbols \subseteq 0..Other
    /\ MaxRecords \in Nat /\ MaxDamage \in Nat \ {0}

VARIABLES
    stage,    \* where the file is: nowhere, written, landed or verified
    sent,     \* generator: the positions it has written, as <<quantity, value>>
    file,     \* the lines
    damage,   \* how many faults the file has
    manifest  \* what the adapter finds

extractVars == <<stage, sent, file, damage, manifest>>
-----------------------------------------------------------------------------
(* Zoned decimals.                                                         *)

Base == 10

\* The digits of n, filled with zeros; longer than the width when n is.  A
\* digit is the last one of what is left without those behind it.
DecimalToZoned(n, width) ==
    LET without[k \in Nat] == IF k = 0 THEN n ELSE without[k - 1] \div Base
        length == Max({width, Min({k \in 1..(n + 1) : without[k] = 0})})
    IN  [i \in 1..length |-> without[length - i] % Base]

Undecodable == -1

\* The number that the symbols read as, spaces left out.
NumberOf(zoned) ==
    LET number[i \in 0..Len(zoned)] ==
            IF i = 0 THEN 0
            ELSE IF zoned[i] = Blank THEN number[i - 1]
            ELSE Base * number[i - 1] + zoned[i]
    IN  number[Len(zoned)]

\* Stripped of spaces at both ends a value has digits and nothing else.
ZonedToDecimal(zoned) ==
    LET kept == {i \in DOMAIN zoned : zoned[i] # Blank} IN
    IF /\ kept # {}
       /\ \A i, j \in kept : i..j \subseteq kept
       /\ \A i \in kept : zoned[i] < Base
    THEN NumberOf(zoned)
    ELSE Undecodable
-----------------------------------------------------------------------------
(* Lines.  A line is read by its first two characters; they may claim that *)
(* it is what it was not written as, and then only the business date is in *)
(* the same columns.                                                       *)

Types == {"01", "03", "99", "??"}

Line(type, date, count, quantity, value) ==
    [as |-> type, type |-> type, whole |-> TRUE, date |-> date,
     count |-> count, quantity |-> quantity, value |-> value]

EmptyLine == Line("", Cycle, <<>>, <<>>, <<>>)

Header == Line("01", Cycle, <<>>, <<>>, <<>>)

Detail(position) ==
    Line("03", Cycle, <<>>, DecimalToZoned(position[1], FieldWidth),
         DecimalToZoned(position[2], FieldWidth))

\* The sum of the quantities, or of the values, of a sequence of positions.
SumOf(s, i) ==
    LET sum[k \in 0..Len(s)] == IF k = 0 THEN 0 ELSE sum[k - 1] + s[k][i]
    IN  sum[Len(s)]

Trailer(total) ==
    Line("99", Cycle, DecimalToZoned(Len(sent), CountWidth),
         DecimalToZoned(SumOf(sent, 1), TotalWidth), DecimalToZoned(total, TotalWidth))

\* pack refuses a value that is wider than its field.
Fits(line) ==
    LET width == IF line.as = "99" THEN TotalWidth ELSE FieldWidth IN
    Len(line.count) <= CountWidth /\ Len(line.quantity) <= width /\ Len(line.value) <= width

Quantity(line) ==
    IF line.as = line.type THEN ZonedToDecimal(line.quantity) ELSE Undecodable

Value(line) ==
    IF line.as = line.type THEN ZonedToDecimal(line.value) ELSE Undecodable

Count(line) ==
    IF line.as = line.type THEN ZonedToDecimal(line.count) ELSE Undecodable
-----------------------------------------------------------------------------
(* The generator.                                                          *)

NoManifest == [status |-> "NONE", quantity |-> 0, value |-> 0, records |-> 0]

ExtractInit ==
    /\ stage = "nowhere"
    /\ sent = <<>>
    /\ file = <<>>
    /\ damage = 0
    /\ manifest = NoManifest

WriteHeader ==
    /\ stage = "nowhere"
    /\ stage' = "written"
    /\ file' = <<Header>>
    /\ UNCHANGED <<sent, damage, manifest>>

\* build_detail: the value is derived from the quantity and the price.
WriteDetail(q, p) ==
    /\ stage = "written"
    /\ Len(sent) < MaxRecords
    /\ Fits(Detail(<<q, q * p>>))
    /\ sent' = Append(sent, <<q, q * p>>)
    /\ file' = Append(file, Detail(<<q, q * p>>))
    /\ UNCHANGED <<stage, damage, manifest>>

\* The trailer, and the rename that lets the watcher see the file.  The
\* option --corrupt-trailer writes a total that is too large.
Publish(corrupt) ==
    LET trailer == Trailer(SumOf(sent, 2) + IF corrupt THEN 1 ELSE 0) IN
    /\ stage = "written"
    /\ Fits(trailer)
    /\ stage' = "landed"
    /\ file' = Append(file, trailer)
    /\ damage' = IF corrupt THEN 1 ELSE 0
    /\ UNCHANGED <<sent, manifest>>

\* The generator dies, of a value that does not fit or otherwise: what it
\* wrote keeps its temporary name and is overwritten the next time.
Die ==
    /\ stage = "written"
    /\ stage' = "nowhere"
    /\ sent' = <<>>
    /\ file' = <<>>
    /\ UNCHANGED <<damage, manifest>>
-----------------------------------------------------------------------------
(* The transfer, which the control totals are there for.                   *)

Altered(line) ==
    {[line EXCEPT !.type = t] : t \in Types \ {line.type}}
    \cup {[line EXCEPT !.date = d] : d \in Cycles \ {line.date}}
    \cup {[line EXCEPT !.whole = FALSE]}
    \cup {[line EXCEPT !.count[i] = s] : i \in DOMAIN line.count, s \in Symbols}
    \cup {[line EXCEPT !.quantity[i] = s] : i \in DOMAIN line.quantity, s \in Symbols}
    \cup {[line EXCEPT !.value[i] = s] : i \in DOMAIN line.value, s \in Symbols}

\* A line lost, doubled, added or altered, and a file that ends early.
Faulty(lines) ==
    LET n == Len(lines) IN
    {RemoveAt(lines, i) : i \in 1..n}
    \cup {InsertAt(lines, i, lines[i]) : i \in 1..n}
    \cup {InsertAt(lines, i, EmptyLine) : i \in 1..n}
    \cup {SubSeq(lines, 1, i) : i \in 0..(n - 1)}
    \cup UNION {{ReplaceAt(lines, i, l) : l \in Altered(lines[i])} : i \in 1..n}

Damage ==
    /\ stage = "landed"
    /\ damage < MaxDamage
    /\ damage' = damage + 1
    /\ file' \in Faulty(file)
    /\ UNCHANGED <<stage, sent, manifest>>
-----------------------------------------------------------------------------
(* The adapter.                                                            *)

\* The lines of a type that are parsed; one without text is passed over.
Lines(type) == {i \in DOMAIN file : file[i].as # "" /\ file[i].type = type /\ file[i].whole}

DetailLines == Lines("03")

Rejects == {i \in DOMAIN file : file[i].as # "" /\ (file[i].type = "??" \/ ~file[i].whole)}

\* The positions by line; the other lines add nothing to a total.
Received ==
    [i \in DOMAIN file |-> IF i \in DetailLines THEN <<Quantity(file[i]), Value(file[i])>>
                           ELSE <<0, 0>>]

\* sum_control_totals; one value that does not decode spoils both.
ControlTotals == <<SumOf(Received, 1), SumOf(Received, 2)>>

Decodable(line) == Quantity(line) # Undecodable /\ Value(line) # Undecodable

DetailsDecodable == \A i \in DetailLines : Decodable(file[i])

\* The market value is not compared (a mutant).
ReconcilesQuantity(header, trailer) ==
    /\ trailer.date = header.date
    /\ Count(trailer) = Cardinality(DetailLines) + Cardinality(Rejects)
    /\ Rejects = {}
    /\ DetailsDecodable /\ Decodable(trailer)
    /\ ControlTotals[1] = Quantity(trailer)

\* The trailer is taken for a record of the count (a mutant).
ReconcilesCountingTrailer(header, trailer) ==
    /\ trailer.date = header.date
    /\ Count(trailer) = Cardinality(DetailLines) + 1
    /\ Rejects = {}
    /\ DetailsDecodable /\ Decodable(trailer)
    /\ ControlTotals = <<Quantity(trailer), Value(trailer)>>

\* _control_error: the file is verified against its own trailer.
Reconciles(header, trailer) ==
    /\ trailer.date = header.date
    /\ Count(trailer) = Cardinality(DetailLines) + Cardinality(Rejects)
    /\ Rejects = {}
    /\ DetailsDecodable /\ Decodable(trailer)
    /\ ControlTotals = <<Quantity(trailer), Value(trailer)>>

\* Of several headers or trailers the last one counts.
LastOf(type) == file[Max(Lines(type))]

ControlError ==
    \/ Lines("01") = {}
    \/ Lines("99") = {}
    \/ ~Reconciles(LastOf("01"), LastOf("99"))

\* build_manifest: totals that do not decode are zero.
BuildManifest ==
    LET totals == IF DetailsDecodable THEN ControlTotals ELSE <<0, 0>> IN
    [status |-> IF ControlError THEN "FAILED" ELSE "COMPLETE",
     quantity |-> totals[1], value |-> totals[2], records |-> Cardinality(DetailLines)]

Verify ==
    /\ stage = "landed"
    /\ stage' = "verified"
    /\ manifest' = BuildManifest
    /\ UNCHANGED <<sent, file, damage>>

\* The file is moved away; there will be a new one.
MoveAway ==
    /\ stage = "verified"
    /\ stage' = "nowhere"
    /\ sent' = <<>>
    /\ file' = <<>>
    /\ damage' = 0
    /\ manifest' = NoManifest

ExtractNext ==
    \/ WriteHeader
    \/ \E q \in Quantities, p \in Prices : WriteDetail(q, p)
    \/ \E corrupt \in BOOLEAN : Publish(corrupt)
    \/ Die \/ Damage \/ Verify \/ MoveAway

ExtractSpec == ExtractInit /\ [][ExtractNext]_extractVars
-----------------------------------------------------------------------------
Symbol == 0..Other

LineSet ==
    [as : Types \cup {""}, type : Types \cup {""}, whole : BOOLEAN, date : Cycles,
     count : Seq(Symbol), quantity : Seq(Symbol), value : Seq(Symbol)]

\* The variables have the values the code gives them.
ExtractTypeOK ==
    /\ stage \in {"nowhere", "written", "landed", "verified"}
    /\ sent \in Seq(Nat \X Nat) /\ Len(sent) <= MaxRecords
    /\ file \in Seq(LineSet)
    /\ damage \in 0..MaxDamage
    /\ manifest.status \in {"NONE", "COMPLETE", "FAILED"}

Accepted == manifest.status = "COMPLETE"

(***************************************************************************)
(* No single fault gets positions past the controls that are not those     *)
(* sent, in their order; and no number of faults gets a wrong count or     *)
(* wrong totals past a trailer that arrived as it was written.  ("A file   *)
(* that does not reconcile is quarantined whole.")                         *)
(***************************************************************************)
FaultsAreSeen ==
    Accepted =>
        /\ damage <= 1 =>
              \E at \in [DOMAIN sent -> DetailLines] :
                 /\ DetailLines = {at[i] : i \in DOMAIN sent}
                 /\ \A i, j \in DOMAIN sent : i < j => at[i] < at[j]
                 /\ \A i \in DOMAIN sent : Received[at[i]] = sent[i]
        /\ LastOf("99") = Trailer(SumOf(sent, 2)) =>
              /\ manifest.records = Len(sent)
              /\ manifest.quantity = SumOf(sent, 1)
              /\ manifest.value = SumOf(sent, 2)

(***************************************************************************)
(* An extract that arrives as it was written is accepted, with the totals  *)
(* of its positions: writer and reader agree on the layout and the zoned   *)
(* decimals.  ("A field can never be written at one offset and read at     *)
(* another.")                                                              *)
(***************************************************************************)
SoundFileIsTaken ==
    stage = "verified" /\ damage = 0 =>
        /\ Accepted
        /\ manifest.records = Len(sent)
        /\ manifest.quantity = SumOf(sent, 1)
        /\ manifest.value = SumOf(sent, 2)
=============================================================================
