---------------------------- MODULE StatementImport ----------------------------
(***************************************************************************)
(* The import screen of the mobile app with the API behind it: the         *)
(* customer chooses a CSV file, which is read and sent for a preview,      *)
(* selects rows of the preview and confirms; the API parses the text again *)
(* and stores the selected rows, skipping fingerprints it already has.     *)
(* Reading a file takes time, answers are late or lost, and what is stored *)
(* is what the dashboard scores.                                           *)
(***************************************************************************)
EXTENDS StatementCsv, Stability

CONSTANTS
    Banks,         \* the texts a customer may have at hand, as files 1, 2, ...
    Goals,         \* goals a customer may have: total, income, days remaining
    MaxPicks,      \* files chosen
    MaxConfirms    \* confirmations sent

VARIABLES
    bank,          \* the files at hand: their texts, and the rows the API finds in them
    reading,       \* files chosen and being read
    csv,           \* the file whose text the screen has, None before the first
    preview,       \* the preview shown: of which text, its ready rows
    selected,      \* selectedRows
    tagGoal,
    previews,      \* preview requests in flight, numbered
    issued,        \* their number; picks and confirmations so far
    crossed,       \* a preview was answered after a later one was sent
    confirms,      \* confirmations in flight; waited: the screen still waits
    stored,        \* the customer's imported entries
    imported       \* the confirmations carried out: the file and its rows

screenVars == <<reading, csv, preview, selected, tagGoal, crossed>>
importVars == <<bank, screenVars, previews, issued, confirms, stored, imported>>

ImportInit ==
    /\ bank \in {[f \in DOMAIN b |-> [text |-> b[f], rows |-> ParseTransactionImport(b[f])]] : b \in Banks}
    /\ reading = <<>> /\ csv = None /\ preview = None /\ selected = {}
    /\ tagGoal = FALSE /\ previews = {} /\ issued = [picks |-> 0, previews |-> 0, confirms |-> 0]
    /\ crossed = FALSE /\ confirms = {} /\ stored = {} /\ imported = {}

-----------------------------------------------------------------------------
(* The buttons are disabled while the last preview sent or a confirmation  *)
(* is pending; a file that is being read does not count.                   *)
Confirming == \E c \in confirms : c.waited
Busy == Confirming \/ \E c \in previews : c.n = issued.previews

ChooseFile(f) ==
    /\ ~ Busy /\ issued.picks < MaxPicks
    /\ reading' = Append(reading, f)
    /\ issued' = [issued EXCEPT !.picks = @ + 1]
    /\ UNCHANGED <<bank, csv, preview, selected, tagGoal, crossed, previews, confirms, stored, imported>>

(* Cancelled, not a CSV name, unreadable, empty or too large.              *)
FileFailed(i) ==
    /\ reading' = RemoveAt(reading, i)
    /\ UNCHANGED <<bank, csv, preview, selected, tagGoal, crossed, previews, issued, confirms, stored, imported>>

SendPreview(f) ==
    /\ issued' = [issued EXCEPT !.previews = @ + 1]
    /\ previews' = previews \cup {[n |-> issued.previews + 1, csv |-> f, at |-> "sent", ready |-> {}]}

BugPreviewKept(i) ==
    /\ reading' = RemoveAt(reading, i) /\ csv' = reading[i]
    /\ SendPreview(reading[i])
    /\ UNCHANGED <<bank, preview, selected, tagGoal, crossed, confirms, stored, imported>>

FileRead(i) ==
    /\ reading' = RemoveAt(reading, i) /\ csv' = reading[i]
    /\ preview' = None /\ selected' = {}
    /\ SendPreview(reading[i])
    /\ UNCHANGED <<bank, tagGoal, crossed, confirms, stored, imported>>

-----------------------------------------------------------------------------
Fingerprints == {e.fingerprint : e \in stored}

(* previewImport: nothing is stored.                                       *)
ReadyRows(f) ==
    LET rows == bank[f].rows
    IN  {n \in DOMAIN rows : rows[n].valid /\ rows[n].fingerprint \notin Fingerprints}

AnswerPreview(c) ==
    /\ c.at = "sent"
    /\ previews' = (previews \ {c}) \cup
           {[c EXCEPT !.at = IF bank[c.csv].rows = <<>> THEN "refused" ELSE "ok",
                      !.ready = ReadyRows(c.csv)]}
    /\ UNCHANGED <<bank, screenVars, issued, confirms, stored, imported>>

(* The answer replaces what is shown, whichever text the screen has by now.*)
PreviewShown(c) ==
    /\ c.at = "ok"
    /\ previews' = previews \ {c}
    /\ preview' = [csv |-> c.csv, ready |-> c.ready] /\ selected' = c.ready
    /\ crossed' = (crossed \/ c.n # issued.previews)
    /\ UNCHANGED <<bank, reading, csv, tagGoal, issued, confirms, stored, imported>>

(* Refused, or no answer: an error is shown.                               *)
PreviewFailed(c) ==
    /\ previews' = previews \ {c}
    /\ UNCHANGED <<bank, screenVars, issued, confirms, stored, imported>>

ToggleRow(n) ==
    /\ preview # None /\ n \in preview.ready /\ ~ Confirming
    /\ selected' = IF n \in selected THEN selected \ {n} ELSE selected \cup {n}
    /\ UNCHANGED <<bank, reading, csv, preview, tagGoal, crossed, previews, issued, confirms, stored, imported>>

ToggleTag ==
    /\ preview # None
    /\ tagGoal' = ~ tagGoal
    /\ UNCHANGED <<bank, reading, csv, preview, selected, crossed, previews, issued, confirms, stored, imported>>

SendConfirm ==
    /\ preview # None /\ selected # {} /\ ~ Busy /\ issued.confirms < MaxConfirms
    /\ issued' = [issued EXCEPT !.confirms = @ + 1]
    /\ confirms' = confirms \cup
           {[n |-> issued.confirms, csv |-> csv, rows |-> selected, goal |-> tagGoal, at |-> "sent",
             waited |-> TRUE, reviewed |-> preview.csv, crossed |-> crossed]}
    /\ UNCHANGED <<bank, screenVars, previews, stored, imported>>

-----------------------------------------------------------------------------
(* confirmImport: the text is parsed again; a selected row that is missing *)
(* or invalid refuses all; createMany skips the fingerprints stored.       *)
Accepted(c) ==
    LET rows == bank[c.csv].rows
    IN  \A n \in c.rows : n \in DOMAIN rows /\ rows[n].valid

NewEntries(c) ==
    LET rows == bank[c.csv].rows
    IN  {[fingerprint |-> rows[n].fingerprint, content |-> rows[n].content, goal |-> c.goal,
          reviewed |-> c.reviewed = c.csv \/ c.crossed] :
            n \in {n \in c.rows : rows[n].fingerprint \notin Fingerprints}}

Carried(c) == IF c.waited THEN {[c EXCEPT !.at = IF Accepted(c) THEN "done" ELSE "refused"]} ELSE {}
CarryOut(c) ==
    /\ c.at = "sent"
    /\ confirms' = (confirms \ {c}) \cup Carried(c)
    /\ stored' = IF Accepted(c) THEN stored \cup NewEntries(c) ELSE stored
    /\ imported' = IF Accepted(c) THEN imported \cup {[csv |-> c.csv, rows |-> c.rows]} ELSE imported
    /\ UNCHANGED <<bank, screenVars, previews, issued>>

ImportComplete(c) ==
    /\ c.waited /\ c.at = "done"
    /\ confirms' = confirms \ {c} /\ preview' = None /\ selected' = {}
    /\ UNCHANGED <<bank, reading, csv, tagGoal, crossed, previews, issued, stored, imported>>

(* Refused, or the answer is lost: an error, with the preview as it was; a *)
(* request the screen no longer waits for may still be carried out.        *)
ImportFailed(c) ==
    /\ c.waited
    /\ confirms' = (confirms \ {c}) \cup (IF c.at = "sent" THEN {[c EXCEPT !.waited = FALSE]} ELSE {})
    /\ UNCHANGED <<bank, screenVars, previews, issued, stored, imported>>

ImportNext ==
    \/ \E f \in DOMAIN bank : ChooseFile(f)
    \/ \E i \in DOMAIN reading : FileRead(i) \/ FileFailed(i)
    \/ \E c \in previews : AnswerPreview(c) \/ PreviewShown(c) \/ PreviewFailed(c)
    \/ (preview # None /\ \E n \in preview.ready : ToggleRow(n))
    \/ ToggleTag \/ SendConfirm
    \/ \E c \in confirms : CarryOut(c) \/ ImportComplete(c) \/ ImportFailed(c)

ImportSpec == ImportInit /\ [][ImportNext]_importVars

-----------------------------------------------------------------------------
(* Nothing is stored that the customer did not review: the rows of a       *)
(* confirmation are those of a preview of the very text that is parsed     *)
(* again, although files are read, previews answered or refused and        *)
(* confirmations repeated in between (chooseFile, confirmImport).  Two     *)
(* files read at a time are the exception: a preview answered after the    *)
(* later file's was sent is shown above the later file's text.             *)
ReviewedRowsOnly == \A e \in stored : e.reviewed

(* Overlapping statements, imported in any order, in part, again and       *)
(* again, count an entry as often as the statement that lists it most      *)
(* often, and no more (the occurrence in a row's fingerprint).             *)
Listed(f, content) ==
    LET rows == bank[f].rows
    IN  Cardinality({n \in DOMAIN rows : rows[n].valid /\ rows[n].content = content})
Alike(content) == {d \in stored : d.content = content}
EachOccurrenceOnce ==
    \A e \in stored : \E i \in imported :
        Cardinality(Alike(e.content)) <= Listed(i.csv, e.content)

(* Nor is a genuine repeat dropped: rows confirmed together are counted    *)
(* each, although their contents are the same (the occurrence again).      *)
RepeatsCounted ==
    \A i \in imported : \A n \in i.rows :
        Cardinality(Alike(bank[i.csv].rows[n].content)) >=
            Cardinality({m \in i.rows : bank[i.csv].rows[m].content = bank[i.csv].rows[n].content})

ImportsSound == ReviewedRowsOnly /\ EachOccurrenceOnce /\ RepeatsCounted

(* The canonical text the API writes and reads again has the records of    *)
(* the file, whatever quotes, commas and line ends are in its fields       *)
(* (csvEscape against parseCsvRecords).  Files do not change: they are     *)
(* looked at before the first is chosen.                                   *)
CanonicalTextKeepsRecords ==
    issued.picks = 0 => \A f \in DOMAIN bank :
        LET file == ParseCsvRecords(bank[f].text)
        IN  file.ok => ParseCsvRecords(ToCsv(file.records)) = file

(* What entries are worth to a goal, and the band it is in with that worth.*)
Sum(entries) ==
    LET signed(e) == IF e.content.direction = "in" THEN e.content.amountKobo ELSE - e.content.amountKobo
    IN  FoldLeft(LAMBDA sum, e : sum + signed(e), 0, SetToSeq(entries))
Worth(entries) == [linked |-> Sum({e \in entries : e.goal}), total |-> Sum(entries)]
Band(goal, worth) == Rank(Status(StabilityScore(goal, worth.linked, worth.total)))
OnlyOf(direction, entries) == \A e \in entries : e.content.direction = direction

(* Importing only income never puts a goal into a worse band of the        *)
(* dashboard, importing only expenses never into a better one, for every   *)
(* goal and whether or not the rows are linked to it, although the score   *)
(* itself may fall when a goal is fully funded (computeStability).         *)
BandFollowsImports ==
    [][stored' # stored =>
          \A before \in {Worth(stored)}, after \in {Worth(stored')} :
             /\ OnlyOf("in", stored' \ stored) => \A g \in Goals : Band(g, after) >= Band(g, before)
             /\ OnlyOf("out", stored' \ stored) => \A g \in Goals : Band(g, after) <= Band(g, before)]_stored
=============================================================================
