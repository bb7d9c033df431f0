----------------------------- MODULE CustomerForms -----------------------------
(***************************************************************************)
(* A customer's phone in front of CustomerRecords: the goal screen, the    *)
(* activity screen with its editor and the add-transaction form send their *)
(* requests on the strength of what the phone loaded last, while another   *)
(* device of the customer and other customers send theirs.  How the phone  *)
(* loads and refreshes is the subject of CustomerScreens: here a load      *)
(* returns what the server has, at any time.                               *)
(***************************************************************************)
EXTENDS CustomerRecords, FormFields

CONSTANTS
    Me,          \* the customer with the phone
    Unloaded,    \* a query without data
    Visits       \* bounds of a behaviour: [screens: opened on the phone,
                 \*   elsewhere: operations other devices and customers ask for]

ASSUME PhoneAssumption == Me \in User

VARIABLES
    visit,       \* the behaviour's bounds, one of Visits
    known,       \* activeGoalQuery.data: a goal, NoGoal (null) or Unloaded
    list,        \* transactionsQuery.data: entry -> the goal it is linked to
    form,        \* goal screen: its mode, and whether ending a goal left it open
    editor,      \* activity screen: the entry edited, its link when the editor opened, the checkbox
    sent         \* per request: what the phone sent, and knew, and the answer it got

phoneVars == <<visit, known, list, form, editor, sent>>
recordVars == <<txVars, pc, req, found, targets, made, handled>>
allVars == <<recordVars, phoneVars>>

View == [mode |-> "view", leftOpen |-> FALSE]
NoEditor == [entry |-> Absent]
NotSent == [kind |-> "none"]
Note(kind) == [kind |-> kind, at |-> "sent", knew |-> NoGoal, asked |-> FALSE, leftOpen |-> FALSE,
               touched |-> FALSE, entry |-> Absent, goal |-> NoGoal]

InitForms ==
    /\ Init
    /\ visit \in Visits
    /\ known = Unloaded /\ list = <<>>
    /\ form = View /\ editor = NoEditor
    /\ sent = [p \in Process |-> NotSent]

-----------------------------------------------------------------------------
(* Queries.                                                                *)
LoadActiveGoal ==
    /\ visit.screens # {}
    /\ known' = IF HasActive(Me) THEN CHOOSE g \in Goal : IsActive(db[g], Me) ELSE NoGoal
    /\ UNCHANGED <<recordVars, visit, list, form, editor, sent>>

LoadTransactions ==
    /\ "activity" \in visit.screens
    /\ list' = [x \in {y \in Entry : Owned(db[y], Me)} |-> db[x].goal]
    /\ UNCHANGED <<recordVars, visit, known, form, editor, sent>>

-----------------------------------------------------------------------------
(* A mutation: the request, and the note the phone keeps with it.          *)
Pending(kind) == \E p \in Process : sent[p].kind = kind
Call(p, request, note) ==
    /\ sent[p] = NotSent
    /\ Begin(p, request)
    /\ sent' = [sent EXCEPT ![p] = note]
    /\ UNCHANGED <<visit, known, list>>

(* The goal screen.  Without an active goal its form is a creation.        *)
EffectiveMode == IF known = NoGoal /\ form.mode = "view" THEN "create" ELSE form.mode
OpenForm(mode) ==
    /\ "goal" \in visit.screens /\ known \in Goal
    /\ form' = [mode |-> mode, leftOpen |-> FALSE]
    /\ UNCHANGED <<recordVars, visit, known, list, editor, sent>>
CloseForm == EffectiveMode # "view" /\ OpenForm("view")

(* An edit without an active goal to apply it to creates one.              *)
GoalRequest ==
    IF EffectiveMode = "edit" /\ known \in Goal
    THEN [op |-> "update", user |-> Me, goal |-> known, isActive |-> Same]
    ELSE [op |-> "create", user |-> Me]

(* Only a replacement asks before it is sent.                              *)
SaveGoal(p) ==
    /\ "goal" \in visit.screens /\ EffectiveMode # "view" /\ ~ Pending("save")
    /\ Call(p, GoalRequest,
            [Note("save") EXCEPT !.knew = known, !.asked = EffectiveMode = "replace",
                                 !.leftOpen = form.leftOpen])
    /\ UNCHANGED <<form, editor>>

EndActiveGoal(p) ==
    /\ "goal" \in visit.screens /\ known \in Goal
    /\ \E status \in Closed :
          Call(p, [op |-> "end", user |-> Me, goal |-> known, status |-> status], Note("end"))
    /\ UNCHANGED <<form, editor>>

(* The add-transaction form links to the active goal or to none.           *)
CanLink == {NoGoal} \cup ({known} \cap Goal)
AddTransaction(p) ==
    /\ "add" \in visit.screens /\ ~ Pending("add")
    /\ \E goal \in CanLink :
          Call(p, [op |-> "record", user |-> Me, goal |-> goal], Note("add"))
    /\ UNCHANGED <<form, editor>>

-----------------------------------------------------------------------------
(* The activity screen.                                                    *)
EditorOpen == editor # NoEditor
EditorLocked == Pending("edit") /\ EditorOpen
BeginEdit(x) ==
    /\ ~ EditorLocked
    /\ editor' = [entry |-> x, link |-> list[x], tag |-> list[x] # NoGoal, touched |-> FALSE]
    /\ UNCHANGED <<recordVars, visit, known, list, form, sent>>
ToggleGoal ==
    /\ EditorOpen
    /\ editor' = [editor EXCEPT !.tag = ~ @, !.touched = TRUE]
    /\ UNCHANGED <<recordVars, visit, known, list, form, sent>>
CancelEdit ==
    /\ EditorOpen /\ ~ EditorLocked
    /\ editor' = NoEditor
    /\ UNCHANGED <<recordVars, visit, known, list, form, sent>>

(* The link is sent only when the customer changed it.                     *)
ResolveTransactionGoalId(current, tag, active) ==
    IF ~ tag THEN NoGoal ELSE IF active \in Goal THEN active ELSE current
BugLinkAlwaysSent == ResolveTransactionGoalId(editor.link, editor.tag, known)
LinkToSend ==
    LET target == ResolveTransactionGoalId(editor.link, editor.tag, known)
    IN  IF ~ editor.touched \/ target = editor.link THEN Same ELSE target
CanSaveEdit == editor.tag /\ editor.touched => known \in Goal
SaveEdit(p) ==
    /\ EditorOpen /\ ~ Pending("edit") /\ CanSaveEdit
    /\ Call(p, [op |-> "revise", user |-> Me, entry |-> editor.entry, goal |-> LinkToSend],
            [Note("edit") EXCEPT !.touched = editor.touched, !.entry = editor.entry])
    /\ UNCHANGED <<form, editor>>

DeleteTransaction(p, x) ==
    /\ ~ Pending("delete") /\ ~ EditorLocked
    /\ Call(p, [op |-> "remove", user |-> Me, entry |-> x], Note("delete"))
    /\ UNCHANGED <<form, editor>>

-----------------------------------------------------------------------------
(* The server handles the phone's requests like any other; the end of one  *)
(* is its answer.                                                          *)
Succeeds(p) ==
    \/ pc[p] = "commit"
    \/ pc[p] = "store" /\ (req[p].op = "record" \/ db[req[p].entry] # Absent)
Answer(p) ==
    CASE req[p].op = "create" -> CHOOSE g \in DOMAIN draft[p] : db[g] = Absent
      [] req[p].op = "revise" -> IF req[p].goal = Same THEN db[req[p].entry].goal ELSE req[p].goal
      [] req[p].op = "update" -> req[p].goal
      [] OTHER -> NoGoal
Serve(p) ==
    /\ Statement(p)
    /\ sent' = IF sent[p] = NotSent \/ pc'[p] # "idle" THEN sent
               ELSE IF Succeeds(p) THEN [sent EXCEPT ![p].at = "ok", ![p].goal = Answer(p)]
               ELSE [sent EXCEPT ![p].at = "error"]
    /\ UNCHANGED <<visit, known, list, form, editor>>

OtherDevice(p) ==
    /\ sent[p] = NotSent
    /\ Arrive(p) /\ req'[p].op \in visit.elsewhere
    /\ UNCHANGED phoneVars

(* onSuccess.                                                              *)
Answered(p, kind) ==
    /\ sent[p].kind = kind /\ sent[p].at = "ok"
    /\ sent' = [sent EXCEPT ![p] = NotSent]
    /\ UNCHANGED <<recordVars, visit>>
GoalSaved(p) ==
    /\ Answered(p, "save")
    /\ known' = sent[p].goal /\ form' = View
    /\ UNCHANGED <<list, editor>>
GoalEnded(p) ==
    /\ Answered(p, "end")
    /\ known' = NoGoal /\ form' = [mode |-> "create", leftOpen |-> TRUE]
    /\ UNCHANGED <<list, editor>>
EditSaved(p) ==
    /\ Answered(p, "edit")
    /\ list' = Over(Only(sent[p].entry, sent[p].goal), list)
    /\ editor' = NoEditor
    /\ UNCHANGED <<known, form>>

(* The others only ask for a load; an error, or an answer that was lost,   *)
(* leaves the screen as it is.                                             *)
Dismiss(p) ==
    /\ sent[p] # NotSent /\ sent[p].at # "sent"
    /\ sent' = [sent EXCEPT ![p] = NotSent]
    /\ UNCHANGED <<recordVars, visit, known, list, form, editor>>

Screens ==
    \/ LoadActiveGoal \/ LoadTransactions \/ OpenForm("edit") \/ OpenForm("replace") \/ CloseForm
    \/ ToggleGoal \/ CancelEdit
    \/ \E x \in DOMAIN list : BeginEdit(x)
Calls(p) ==
    \/ SaveGoal(p) \/ EndActiveGoal(p) \/ AddTransaction(p) \/ SaveEdit(p)
    \/ \E x \in DOMAIN list : DeleteTransaction(p, x)
Answers(p) == GoalSaved(p) \/ GoalEnded(p) \/ EditSaved(p) \/ Dismiss(p)

NextForms ==
    \/ Screens
    \/ \E p \in Process : Calls(p) \/ Answers(p) \/ Serve(p) \/ OtherDevice(p)

SpecForms == InitForms /\ [][NextForms]_allVars

-----------------------------------------------------------------------------
PhoneTypeOK ==
    /\ visit \in Visits
    /\ known \in Goal \cup {NoGoal, Unloaded}
    /\ DOMAIN list \subseteq Entry /\ \A x \in DOMAIN list : list[x] \in Goal \cup {NoGoal}
    /\ form \in [mode : {"view", "create", "edit", "replace"}, leftOpen : BOOLEAN]
    /\ \A p \in Process : sent[p] # NotSent =>
          /\ sent[p].kind \in {"save", "end", "add", "edit", "delete"}
          /\ sent[p].at = "sent" <=> pc[p] # "idle"

(* What the tables hold, whichever device the requests came from.          *)
RecordsSound == TypeOK /\ PhoneTypeOK /\ OneActiveGoal /\ EntriesSound

(* The phone replaces a goal without asking only if it had not loaded that *)
(* goal, or from the form that ending the previous goal left open: that    *)
(* one stays a creation when a goal appears meanwhile (goal.tsx submit;    *)
(* docs/project-status.md, "confirmation gates for replacing").            *)
AskedBeforeReplacing ==
    [][\A g \in Goal, p \in Process :
          /\ IsActive(db[g], Me) /\ db'[g].status = "replaced"
          /\ pc[p] = "commit" /\ pc'[p] = "idle" /\ sent[p].kind = "save"
          => sent[p].asked \/ sent[p].knew # g \/ sent[p].leftOpen]_allVars

(* Saving an edit moves an entry to another goal, or away from its goal,   *)
(* only if the customer touched the checkbox: not because the goal was     *)
(* replaced or ended, or the link changed on another device, since the     *)
(* editor opened (buildTransactionUpdatePayload, ReviseEntry).             *)
UntouchedLinkKept ==
    [][\A x \in Entry, p \in Process :
          /\ db[x] # Absent /\ db'[x] # Absent /\ db'[x] # db[x]
          /\ pc[p] = "store" /\ pc'[p] = "idle" /\ sent[p].kind = "edit"
          => sent[p].touched]_allVars

(* Forms keep what the customer did not change (FormsKeepValues).  The     *)
(* conversions depend on no state: they are looked at once, at first.      *)
FieldsSound == (handled = 0 /\ known = Unloaded /\ list = <<>>) => FormsKeepValues

PhoneSteps == AskedBeforeReplacing /\ UntouchedLinkKept

-----------------------------------------------------------------------------
(* The inductive invariant behind RecordsSound and PhoneSteps.              *)

(* The editor, and the form that was left open.                             *)
Editors == [entry : Entry, link : Goal \cup {NoGoal}, tag : BOOLEAN, touched : BOOLEAN]
ScreensFit ==
    /\ editor \in Editors \cup {NoEditor}
    /\ form.mode = "create" => form.leftOpen

(* A request of the phone is what its note says, until it is answered.      *)
Notes == [kind : {"save", "end", "add", "edit", "delete"}, at : {"sent", "ok", "error"},
          knew : Goal \cup {NoGoal, Unloaded}, asked : BOOLEAN, leftOpen : BOOLEAN,
          touched : BOOLEAN, entry : Entry \cup {Absent}, goal : Goal \cup {NoGoal}]
NoteFits(p) ==
    LET n == sent[p]
        r == req[p]
    IN  n # NotSent =>
        /\ n \in Notes
        /\ n.at = "sent" =>
              /\ n.kind = "save" =>
                    \/ r.op = "create" /\ (n.asked \/ n.knew \notin Goal \/ n.leftOpen)
                    \/ r.op = "update" /\ r.isActive = Same
              /\ n.kind = "end" => r.op = "end"
              /\ n.kind = "add" => r.op = "record"
              /\ n.kind = "edit" => r.op = "revise" /\ (~ n.touched => r.goal = Same)
              /\ n.kind = "delete" => r.op = "remove"
        /\ n.kind = "edit" => n.entry \in Entry

FormsInv ==
    /\ IInv /\ PhoneTypeOK /\ ScreensFit
    /\ DOMAIN sent = Process
    /\ \A p \in Process : NoteFits(p)
=============================================================================
