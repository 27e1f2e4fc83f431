--------------------------- MODULE DocumentCentre ---------------------------
(***************************************************************************)
(* The library of documents: policies and forms for everybody, and the     *)
(* certificates (Form 16) of employees for one financial year, uploaded    *)
(* one by one or in an archive.  Nothing here runs in a transaction: a new *)
(* certificate removes the old row, then stores its object, then its row.  *)
(***************************************************************************)
EXTENDS StoredFiles

VARIABLES
    batch,          \* the status of the last archive
    certified,      \* history: the employees whose last completed request stored a certificate
    unsure          \* history: the employees of whom a request failed half way or overlapped

centreVars == <<batch, certified, unsure>>

Forms(e) == {f \in refs : f.kind = "form16" /\ f.owner = e}

Works(q, e) == \/ tx[q].op = "form16" /\ e \in tx[q].left
               \/ tx[q].op = "document" /\ tx[q].doc.owner = e
StartCentre(r, t, S) ==
    /\ Begin(r, t)
    /\ unsure' = unsure \cup {e \in S : \E q \in Requests : Works(q, e)}
    /\ UNCHANGED <<fileVars, certified>>

(* What is left of an upload, and whether it stored any.                   *)
Upload(left, zip, stored) ==
    [op |-> "form16", pc |-> "next", left |-> left, zip |-> zip, stored |-> stored,
     e |-> None, old |-> {}, key |-> None]

uploadForm16(r, e) ==
    /\ Asked("form16")
    /\ StartCentre(r, Upload({e}, FALSE, FALSE), {e})
    /\ UNCHANGED batch

(* The entries whose file names give a known employee code.                *)
uploadForm16Zip(r, S) ==
    /\ Asked("zip")
    /\ StartCentre(r, Upload(S, TRUE, FALSE), S)
    /\ batch' = "PENDING"

FindForm(r) ==
    /\ At(r, "form16", "next")
    /\ \E e \in tx[r].left :
          Goes(r, [tx[r] EXCEPT !.pc = "remove", !.e = e, !.old = Forms(e)])
    /\ UNCHANGED <<fileVars, centreVars>>

RemoveForm(r) ==
    /\ At(r, "form16", "remove")
    /\ refs' = refs \ tx[r].old
    /\ Goes(r, [tx[r] EXCEPT !.pc = "put"])
    /\ UNCHANGED <<objects, receiptOf, sent, staged, lastKey, excused, centreVars>>

PutForm(r) ==
    /\ At(r, "form16", "put")
    /\ MakeObject
    /\ Goes(r, [tx[r] EXCEPT !.pc = "save", !.key = NewKey])
    /\ UNCHANGED <<refs, receiptOf, sent, staged, excused, centreVars>>

Entry(r, stored) == Upload(tx[r].left \ {tx[r].e}, tx[r].zip, tx[r].stored \/ stored)

NoIndex(e) == FALSE                                 \* mutant: the index is not there
(* UQ_doc_centre_form16_fy                                                 *)
HasForm(e) == Forms(e) # {}

SaveForm(r) ==
    /\ At(r, "form16", "save") /\ ~HasForm(tx[r].e)
    /\ refs' = refs \cup {Ref("form16", tx[r].e, tx[r].key)}
    /\ certified' = certified \cup {tx[r].e}
    /\ Goes(r, Entry(r, TRUE))
    /\ UNCHANGED <<objects, receiptOf, sent, staged, lastKey, excused, batch, unsure>>

(* The archive goes on with its next entry; a single upload is over.       *)
FailEntry(r) ==
    /\ tx[r].op = "form16" /\ tx[r].pc \in {"remove", "put", "save"}
    /\ unsure' = unsure \cup {tx[r].e}
    /\ Goes(r, Entry(r, FALSE))
    /\ UNCHANGED <<fileVars, batch, certified>>

EndOfForms(r) ==
    /\ At(r, "form16", "next") /\ tx[r].left = {}
    /\ batch' = IF ~tx[r].zip THEN batch ELSE IF tx[r].stored THEN "COMMITTED" ELSE "FAILED"
    /\ Ends(r)
    /\ UNCHANGED <<fileVars, certified, unsure>>

(* Policies and company forms: the object, then the row.                   *)
uploadPublicDocument(r) ==
    /\ Asked("policies")
    /\ MakeObject
    /\ Begin(r, [op |-> "policy", pc |-> "save", key |-> NewKey])
    /\ UNCHANGED <<refs, receiptOf, sent, staged, excused, centreVars>>
SavePublic(r) ==
    /\ At(r, "policy", "save")
    /\ refs' = refs \cup {Ref("policy", None, tx[r].key)}
    /\ Ends(r)
    /\ UNCHANGED <<objects, receiptOf, sent, staged, lastKey, excused, centreVars>>

(* A document that is read, then removed, or saved under another title:    *)
(* the save of one that was removed meanwhile restores it.                 *)
findDocumentOrFail(r, doc, change) ==
    /\ Asked(change) /\ doc.kind \in Library
    /\ StartCentre(r, [op |-> "document", pc |-> change, doc |-> doc], {doc.owner} \ {None})
    /\ UNCHANGED batch

softDelete(r) ==
    LET doc == tx[r].doc IN
    /\ At(r, "document", "softDelete")
    /\ refs' = refs \ {doc}
    /\ certified' = certified \ {doc.owner}
    /\ Ends(r)
    /\ UNCHANGED <<objects, receiptOf, sent, staged, lastKey, excused, batch, unsure>>

updateDocument(r) ==
    LET doc == tx[r].doc IN
    /\ At(r, "document", "updateDocument")
    /\ doc.kind = "form16" => ~HasForm(doc.owner) \/ doc \in refs
    /\ refs' = refs \cup {doc}
    /\ Ends(r)
    /\ UNCHANGED <<objects, receiptOf, sent, staged, lastKey, excused, centreVars>>

FailCentre(r) ==
    /\ tx[r].op \in {"policy", "document"}
    /\ Ends(r)
    /\ UNCHANGED <<fileVars, centreVars>>

CentreInit == batch = "NONE" /\ certified = {} /\ unsure = {}

CentreStep(r) ==
    \/ \E e \in Employees : uploadForm16(r, e)
    \/ \E S \in SUBSET Employees \ {{}} : uploadForm16Zip(r, S)
    \/ FindForm(r) \/ RemoveForm(r) \/ PutForm(r) \/ SaveForm(r) \/ FailEntry(r) \/ EndOfForms(r)
    \/ uploadPublicDocument(r) \/ SavePublic(r)
    \/ \E doc \in refs, change \in {"softDelete", "updateDocument"} : findDocumentOrFail(r, doc, change)
    \/ softDelete(r) \/ updateDocument(r) \/ FailCentre(r)

-----------------------------------------------------------------------------
(* An employee never has two certificates of a year, however uploads,      *)
(* removals and edits overlap, and he keeps the one that was uploaded last *)
(* while no request about it runs, unless one failed half way (the old one *)
(* is gone then before the new one is stored) or two overlapped.           *)
OneForm16 ==
    \A e \in Employees :
        /\ Cardinality(Forms(e)) <= 1
        /\ e \notin unsure /\ (\A r \in Requests : ~Works(r, e)) =>
              (Forms(e) # {} <=> e \in certified)

=============================================================================
