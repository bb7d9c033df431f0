------------------------------ MODULE StatementCsv ------------------------------
(***************************************************************************)
(* How the API reads a CSV statement: the text into records, either layout *)
(* into the canonical one, which is written out and read again, and the    *)
(* records into rows with an error or a fingerprint.  A text is a sequence *)
(* of the characters that matter to the reader and of words, each standing *)
(* for a run of ordinary characters.                                       *)
(***************************************************************************)
EXTENDS Integers, SequencesExt

CONSTANTS
    None,
    MaxFileRows,  \* rows accepted in a file
    MaxNote       \* length accepted of a description

Quote == "\""
Comma == ","
LF == "lf"
CR == "cr"
WhiteSpace == {" ", LF, CR, "bom"}

(* What the words of the instances mean.                                   *)
LowerOf == ("Date" :> "date" @@ "Shop" :> "shop")
IsoOf == ("1/2/2026" :> "2026-02-01" @@ "31/2/2026" :> "2026-02-31")
Dates == {"2026-02-01", "2026-02-02"}
KoboOf == ("0.01" :> 1 @@ "0.02" :> 2 @@ "0.1" :> 10)
DirectionOf == ("credit" :> "in" @@ "in" :> "in" @@ "income" :> "in"
                @@ "debit" :> "out" @@ "out" :> "out" @@ "expense" :> "out")

Trim(f) ==
    LET kept == {i \in DOMAIN f : f[i] \notin WhiteSpace}
    IN  IF kept = {} THEN <<>> ELSE SubSeq(f, Min(kept), Max(kept))

Lower(f) == [i \in DOMAIN f |-> IF f[i] \in DOMAIN LowerOf THEN LowerOf[f[i]] ELSE f[i]]

-----------------------------------------------------------------------------
(* parseCsvRecords, one character at a time; skip is the extra step of the *)
(* index after a doubled quote and after a carriage return.                *)
Start == [records |-> <<>>, record |-> <<>>, field |-> <<>>, mode |-> "plain", skip |-> FALSE]

EndField(st) == [st EXCEPT !.record = Append(@, st.field), !.field = <<>>, !.mode = "plain"]
EndRecord(st) ==
    [EndField(st) EXCEPT !.records = Append(@, Append(st.record, st.field)), !.record = <<>>]

ReadCharacter(st, c, next) ==
    CASE st.skip -> [st EXCEPT !.skip = FALSE]
      [] ~ st.skip /\ st.mode = "malformed" -> st
      [] ~ st.skip /\ st.mode = "quoted" ->
            IF c # Quote THEN [st EXCEPT !.field = Append(@, c)]
            ELSE IF next = Quote THEN [st EXCEPT !.field = Append(@, Quote), !.skip = TRUE]
            ELSE [st EXCEPT !.mode = "closed"]
      [] ~ st.skip /\ st.mode \in {"plain", "closed"} ->
            CASE c = Comma -> EndField(st)
              [] c \in {LF, CR} -> [EndRecord(st) EXCEPT !.skip = (c = CR /\ next = LF)]
              [] c = Quote -> [st EXCEPT !.mode = IF st.mode = "plain" /\ st.field = <<>>
                                                  THEN "quoted" ELSE "malformed"]
              [] OTHER -> IF st.mode = "plain" THEN [st EXCEPT !.field = Append(@, c)]
                          ELSE IF c \in WhiteSpace THEN st ELSE [st EXCEPT !.mode = "malformed"]

ParseCsvRecords(csv) ==
    LET next(i) == IF i < Len(csv) THEN csv[i + 1] ELSE None
        read[i \in 0..Len(csv)] == IF i = 0 THEN Start ELSE ReadCharacter(read[i - 1], csv[i], next(i))
        end == read[Len(csv)]
        all == IF end.field # <<>> \/ end.record # <<>> THEN EndRecord(end).records ELSE end.records
    IN  [ok |-> end.mode \notin {"quoted", "malformed"},
         records |-> SelectSeq(all, LAMBDA r : \E i \in DOMAIN r : Trim(r[i]) # <<>>)]

-----------------------------------------------------------------------------
(* The adapters.                                                           *)
BugQuoteKept(f) ==
    IF \E i \in DOMAIN f : f[i] \in {Quote, Comma, LF, CR} THEN <<Quote>> \o f \o <<Quote>> ELSE f
CsvEscape(f) ==
    IF \E i \in DOMAIN f : f[i] \in {Quote, Comma, LF, CR}
    THEN <<Quote>> \o FlattenSeq([i \in DOMAIN f |-> IF f[i] = Quote THEN <<Quote, Quote>> ELSE <<f[i]>>])
                   \o <<Quote>>
    ELSE f

Join(parts, separator) ==
    FlattenSeq([i \in DOMAIN parts |-> IF i = 1 THEN parts[i] ELSE <<separator>> \o parts[i]])
ToCsv(records) ==
    Join([i \in DOMAIN records |->
            Join([j \in DOMAIN records[i] |-> CsvEscape(records[i][j])], Comma)], LF)

Required == <<"date", "description", "amount", "type">>
DateAliases == <<"date", "transaction date", "value date", "posting date">>
DescriptionAliases == <<"description", "narration", "particulars", "details">>

Headers(record) == [i \in DOMAIN record |-> Lower(Trim(record[i]))]
HeaderIndex(headers, name) == SelectInSeq(headers, LAMBDA h : h = <<name>>)
FindHeaderIndex(headers, aliases) ==
    LET found == SelectInSeq(aliases, LAMBDA a : HeaderIndex(headers, a) # 0)
    IN  IF found = 0 THEN 0 ELSE HeaderIndex(headers, aliases[found])
Cell(record, i) == IF i \in DOMAIN record THEN record[i] ELSE <<>>

CanonicalMatches(headers) == \A i \in DOMAIN Required : HeaderIndex(headers, Required[i]) # 0
ProvisionalMatches(headers) ==
    /\ FindHeaderIndex(headers, DateAliases) # 0 /\ FindHeaderIndex(headers, DescriptionAliases) # 0
    /\ HeaderIndex(headers, "debit") # 0 /\ HeaderIndex(headers, "credit") # 0

WithoutCurrency(f) == IF f # <<>> /\ f[1] = "NGN" THEN Trim(Tail(f)) ELSE f
AmountPresent(f) == WithoutCurrency(Trim(f)) # <<>>
ToIsoDate(f) ==
    LET t == Trim(f) IN IF Len(t) = 1 /\ t[1] \in DOMAIN IsoOf THEN <<IsoOf[t[1]]>> ELSE t

ProvisionalRecord(headers, record) ==
    LET credit == Cell(record, HeaderIndex(headers, "credit"))
        debit == Cell(record, HeaderIndex(headers, "debit"))
        one == AmountPresent(credit) # AmountPresent(debit)
        side == IF ~ one THEN <<<<>>, <<>>>>
                ELSE IF AmountPresent(credit) THEN <<Trim(credit), <<"credit">>>>
                ELSE <<Trim(debit), <<"debit">>>>
    IN  <<ToIsoDate(Cell(record, FindHeaderIndex(headers, DateAliases))),
          Cell(record, FindHeaderIndex(headers, DescriptionAliases))>> \o side

ToCanonicalImportCsv(records) ==
    LET headers == Headers(records[1])
    IN  IF CanonicalMatches(headers) THEN ToCsv(records)
        ELSE ToCsv(<<[i \in DOMAIN Required |-> <<Required[i]>>]>>
                   \o [i \in 1..(Len(records) - 1) |-> ProvisionalRecord(headers, records[i + 1])])

-----------------------------------------------------------------------------
(* The rows: a word that has no meaning is an error of its row.            *)
Meaning(f, of) == IF Len(f) = 1 /\ f[1] \in DOMAIN of THEN of[f[1]] ELSE None
ParseDate(f) == Meaning(Trim(f), [d \in Dates |-> d])
ParseDirection(f) == Meaning(Lower(Trim(f)), DirectionOf)
ParseAmountKobo(f) == Meaning(WithoutCurrency(Trim(f)), KoboOf)
ParseNote(f) ==
    FoldLeft(LAMBDA note, c : IF c \notin WhiteSpace THEN Append(note, c)
                              ELSE IF Last(note) = " " THEN note ELSE Append(note, " "),
             <<>>, Trim(f))

FileRow(headers, record) ==
    LET cell(name) == Cell(record, HeaderIndex(headers, name))
    IN  [occurredAt |-> ParseDate(cell("date")), direction |-> ParseDirection(cell("type")),
         amountKobo |-> ParseAmountKobo(cell("amount")), note |-> ParseNote(cell("description"))]
Valid(row) ==
    /\ row.occurredAt # None /\ row.direction # None /\ row.amountKobo # None
    /\ row.note # <<>> /\ Len(row.note) <= MaxNote
Content(row) == [row EXCEPT !.note = Lower(@)]

(* Identical rows are told apart by their number among themselves.         *)
BugOccurrence(rows, i) == i
BugNotNumbered(rows, i) == 1
Occurrence(rows, i) ==
    Cardinality({j \in 1..i : Valid(rows[j]) /\ Content(rows[j]) = Content(rows[i])})

(* A file's rows by row number, the header being row 1.                    *)
Numbered(rows) ==
    [n \in 2..(Len(rows) + 1) |->
        [content |-> Content(rows[n - 1]), valid |-> Valid(rows[n - 1]),
         fingerprint |-> <<Content(rows[n - 1]), Occurrence(rows, n - 1)>>]]

(* parseTransactionImport: the rows of a text, none when it is refused.    *)
ParseTransactionImport(csv) ==
    LET first == ParseCsvRecords(csv)
        known == first.ok /\ first.records # <<>>
                 /\ LET h == Headers(first.records[1]) IN CanonicalMatches(h) \/ ProvisionalMatches(h)
        again == ParseCsvRecords(ToCanonicalImportCsv(first.records))
        headers == Headers(again.records[1])
        unique == \A i, j \in DOMAIN headers : headers[i] = headers[j] /\ headers[i] # <<>> => i = j
        rows == [i \in 1..(Len(again.records) - 1) |-> FileRow(headers, again.records[i + 1])]
    IN  IF known /\ again.ok /\ unique /\ Len(rows) \in 1..MaxFileRows THEN Numbered(rows) ELSE <<>>
=============================================================================
