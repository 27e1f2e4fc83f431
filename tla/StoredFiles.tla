----------------------------- MODULE StoredFiles -----------------------------
(***************************************************************************)
(* Files: the objects of the organization's bucket, and the rows that      *)
(* refer to them by their key.  A file is uploaded first, to a key that    *)
(* the client then sends with a form.  The handler of the form copies the  *)
(* object to its final key and deletes the first, deletes the object it    *)
(* replaces, and commits its rows at the end: nothing undoes what it did   *)
(* to the bucket if it fails in between.                                   *)
(***************************************************************************)
EXTENDS PortalHandlers, Sequences

CONSTANTS
    Lines,          \* expense lines, which point to their receipts
    MaxKeys         \* bound: keys that are ever made

ASSUME FilesAssumption == MaxKeys \in Nat /\ None \notin Lines /\ None \notin 1 .. MaxKeys

VARIABLES
    objects,        \* the keys at which the bucket has an object
    refs,           \* the live rows that refer to a key
    receiptOf,      \* expense_claim_lines.receiptDocumentId
    sent,           \* the keys that clients got for their uploads and still may send
    staged,         \* the keys in the staging area
    lastKey,        \* keys are random, thus always new
    excused         \* history: keys of which a handler failed half way, overlapped with
                    \* another one, or that two rows share, and receipts that a purge
                    \* took from lines which still point to them

fileVars == <<objects, refs, receiptOf, sent, staged, lastKey, excused>>

Ref(kind, owner, key) == [kind |-> kind, owner |-> owner, key |-> key]
RefsTo(kind, key) == {f \in refs : f.kind = kind /\ f.key = key}

(* buildObjectKey                                                          *)
NewKey == lastKey + 1
MakeObject == /\ lastKey < MaxKeys
              /\ lastKey' = NewKey
              /\ objects' = objects \cup {NewKey}

(* validateUploadRequest: a logo is a file of the organization; the files  *)
(* of an employee who is not there yet are staged.  Clients upload what    *)
(* the forms of their history take.                                        *)
UploadModules ==
    {module \in {"branding", "onboarding", "leave", "expense", "profile-photos", "document-centre"} :
        \/ module = "branding" /\ Asked("logo")
        \/ module = "onboarding" /\ Asked("documents")
        \/ module = "leave" /\ Asked("attachments")
        \/ module = "expense" /\ Asked("receipts")
        \/ module = "profile-photos" /\ Asked("photo")}
(* In which of his two folders a file is matters to the documents of an    *)
(* employee only.                                                          *)
Categories == {"organization-files", "staging"}
                  \cup (IF Asked("documents") THEN {"employee-documents"} ELSE {})
Accepts(module, category) ==
    CASE module = "branding" -> category = "organization-files"
      [] module = "document-centre" -> TRUE
      [] OTHER -> category # "organization-files"

uploadFile(module, category) ==
    /\ Asked("upload") /\ Accepts(module, category)
    /\ MakeObject
    /\ sent' = sent \cup {NewKey}
    /\ staged' = IF category = "staging" THEN staged \cup {NewKey} ELSE staged
    /\ UNCHANGED <<portalVars, refs, receiptOf, excused>>

-----------------------------------------------------------------------------
(* A form with a file, a file to drop, or both.  todo is what the handler  *)
(* still does before it commits.                                           *)
InForm(q) == tx[q].op = "file"
Purging(q) == tx[q].op = "purge"
KeysOf(t) == {t.source, t.new, t.old} \ {None}
Meets(q, t) == Purging(q) \/ (InForm(q) /\ KeysOf(tx[q]) \cap KeysOf(t) # {})

StartForm(r, kind, line, source, new, old, todo) ==
    LET t == [op |-> "file", pc |-> "run", kind |-> kind, line |-> line, source |-> source,
              new |-> new, old |-> old, todo |-> todo, cleaned |-> {}, alone |-> TRUE]
    IN  /\ tx[r].pc = "idle"
        /\ tx' = [q \in Requests |->
                    IF q = r THEN [t EXCEPT !.alone = \A o \in Requests : ~Meets(o, t)]
                    ELSE IF InForm(q) /\ Meets(q, t) THEN [tx[q] EXCEPT !.alone = FALSE]
                    ELSE tx[q]]
        /\ UNCHANGED <<scenario, today>>
        /\ UNCHANGED fileVars

Finalize == <<"copy", "delete source">>
AlwaysDrops(old, new) == IF old = None THEN <<>> ELSE <<"clean up">>    \* mutant: the guard is gone
(* updateLine: a receipt is not dropped in favour of itself.               *)
Replaces(old, new) == IF old \in {None, new} THEN <<>> ELSE <<"clean up">>

attachReceipt(r, line, key) ==
    /\ Asked("receipts")
    /\ StartForm(r, "receipt", line, key, None, receiptOf[line],
                 Finalize \o Replaces(receiptOf[line], None))

(* A line may name a receipt that the claim has already.                   *)
reuseReceipt(r, line, key) ==
    /\ Asked("receipts") /\ RefsTo("receipt", key) # {}
    /\ StartForm(r, "receipt", line, None, key, receiptOf[line], Replaces(receiptOf[line], key))

deleteLine(r, line) ==
    /\ Asked("receipts") /\ receiptOf[line] # None
    /\ StartForm(r, "receipt", line, None, None, receiptOf[line], <<"clean up">>)

createLeave(r, key) == Asked("attachments") /\ StartForm(r, "attachment", None, key, None, None, Finalize)

(* An employee's form may drop a document and add one.  Only a staged key  *)
(* is copied; any other becomes the document's own, and is there.          *)
updateDocuments(r, key, old) ==
    /\ Asked("documents")
    /\ old # None => RefsTo("document", old) # {}
    /\ key \in {None} \cup staged \cup objects
    /\ StartForm(r, "document", None, key, IF key \in staged THEN None ELSE key, old,
                 Replaces(old, None) \o (IF key \in staged THEN Finalize ELSE <<>>))

Single(kind) == {f.key : f \in {g \in refs : g.kind = kind}} \cup {None}
OldOf(kind) == CHOOSE k \in Single(kind) : Single(kind) # {None} => k # None

(* The old photo stays in the bucket; the old logo goes first.             *)
finalizeProfilePhoto(r, key) ==
    Asked("photo") /\ StartForm(r, "photo", None, key, None, OldOf("photo"), Finalize)
updateOrgProfile(r, key) ==
    Asked("logo") /\ key \in objects /\ StartForm(r, "logo", None, key, key, OldOf("logo"), Replaces(OldOf("logo"), None))

-----------------------------------------------------------------------------
Doing(r, what) == At(r, "file", "run") /\ tx[r].todo # <<>> /\ Head(tx[r].todo) = what
Does(r, t) == Goes(r, [t EXCEPT !.todo = Tail(@)])

copyObject(r) ==
    /\ Doing(r, "copy") /\ tx[r].source \in objects
    /\ MakeObject
    /\ Does(r, [tx[r] EXCEPT !.new = NewKey])
    /\ UNCHANGED <<refs, receiptOf, sent, staged, excused>>

(* deleteObject swallows the failure of a deletion.                        *)
deleteObject(r) ==
    /\ Doing(r, "delete source")
    /\ objects' \in {objects, objects \ {tx[r].source}}
    /\ excused' = excused \cup ({tx[r].source} \cap {f.key : f \in refs})
    /\ Does(r, tx[r])
    /\ UNCHANGED <<refs, receiptOf, sent, staged, lastKey>>

cleanupExpenseReceipt(r) ==
    LET old == tx[r].old IN
    /\ Doing(r, "clean up")
    /\ \/ /\ RefsTo(tx[r].kind, old) # {}
          /\ objects' \in {objects, objects \ {old}}
          /\ Does(r, [tx[r] EXCEPT !.cleaned = {old}])
       \/ /\ RefsTo(tx[r].kind, old) = {}
          /\ Does(r, tx[r])
          /\ UNCHANGED objects
    /\ UNCHANGED <<refs, receiptOf, sent, staged, lastKey, excused>>

(* Two rows refer to the key that r is about to commit.                    *)
Shared(r) ==
    LET key == tx[r].new IN
    /\ key # None
    /\ \/ tx[r].kind # "receipt" /\ \E f \in refs : f.key = key
       \/ \E l \in Lines \ {tx[r].line} : receiptOf[l] = key

Dropped(r) ==
    IF tx[r].kind \in {"receipt", "document"} /\ tx[r].cleaned = {} THEN {}
    ELSE RefsTo(tx[r].kind, tx[r].old)
Added(r) ==
    IF tx[r].new = None \/ (tx[r].kind = "receipt" /\ tx[r].source = None) THEN {}
    ELSE {Ref(tx[r].kind, None, tx[r].new)}

CommitForm(r) ==
    /\ At(r, "file", "run") /\ tx[r].todo = <<>>
    /\ refs' = (refs \ Dropped(r)) \cup Added(r)
    /\ receiptOf' = IF tx[r].line = None THEN receiptOf
                    ELSE [receiptOf EXCEPT ![tx[r].line] = tx[r].new]
    /\ excused' = excused \cup
                  (IF ~tx[r].alone \/ Shared(r) THEN {tx[r].new, tx[r].old} \ {None} ELSE {})
    /\ sent' = sent \ {tx[r].source}
    /\ Ends(r)
    /\ UNCHANGED <<objects, staged, lastKey>>

(* A copy whose source is gone, and every other failure: the rows stay as  *)
(* they were, the bucket does not come back.                               *)
FailForm(r) ==
    /\ InForm(r)
    /\ excused' = excused \cup tx[r].cleaned
    /\ Ends(r)
    /\ UNCHANGED <<objects, refs, receiptOf, sent, staged, lastKey>>

-----------------------------------------------------------------------------
(* The purge of the bucket: list, delete, then clear the references of     *)
(* five tables in one transaction.  The library of documents is none.      *)
Library == {"form16", "policy"}
Cleared == {f \in refs : f.kind \notin Library}

purgeOrganizationAssets(r) ==
    /\ Asked("purge") /\ tx[r].pc = "idle"
    /\ tx' = [q \in Requests |->
                IF q = r THEN [op |-> "purge", pc |-> "delete", listed |-> objects]
                ELSE IF InForm(q) THEN [tx[q] EXCEPT !.alone = FALSE] ELSE tx[q]]
    /\ UNCHANGED <<scenario, today>>
    /\ UNCHANGED fileVars

deleteAllUnderPrefix(r) ==
    /\ At(r, "purge", "delete")
    /\ \E failed \in SUBSET tx[r].listed : objects' = objects \ (tx[r].listed \ failed)
    /\ Goes(r, [tx[r] EXCEPT !.pc = "clear"])
    /\ UNCHANGED <<refs, receiptOf, sent, staged, lastKey, excused>>

ClearReferences(r) ==
    /\ At(r, "purge", "clear")
    /\ refs' = refs \ Cleared
    /\ excused' = excused \cup ((tx[r].listed \cup {f.key : f \in refs})
                                    \ {f.key : f \in {g \in Cleared : g.kind # "receipt"}})
    /\ Ends(r)
    /\ UNCHANGED <<objects, receiptOf, sent, staged, lastKey>>

FailPurge(r) ==
    /\ Purging(r)
    /\ excused' = excused \cup tx[r].listed
    /\ Ends(r)
    /\ UNCHANGED <<objects, refs, receiptOf, sent, staged, lastKey>>

-----------------------------------------------------------------------------
FilesInit ==
    /\ objects = {} /\ refs = {} /\ sent = {} /\ staged = {} /\ lastKey = 0 /\ excused = {}
    /\ receiptOf = [l \in Lines |-> None]

FilesStep(r) ==
    \/ \E line \in Lines : deleteLine(r, line)
    \/ \E line \in Lines, key \in sent : attachReceipt(r, line, key)
    \/ \E line \in Lines, key \in 1 .. lastKey : reuseReceipt(r, line, key)
    \/ \E key \in sent : createLeave(r, key) \/ finalizeProfilePhoto(r, key) \/ updateOrgProfile(r, key)
    \/ \E key \in sent \cup {None}, old \in 1 .. lastKey \cup {None} : updateDocuments(r, key, old)
    \/ copyObject(r) \/ deleteObject(r) \/ cleanupExpenseReceipt(r)
    \/ CommitForm(r) \/ FailForm(r)
    \/ purgeOrganizationAssets(r) \/ deleteAllUnderPrefix(r) \/ ClearReferences(r) \/ FailPurge(r)

-----------------------------------------------------------------------------
(* The link that a download answers with opens the object of the key.      *)
Opens(key) == key \in objects

(* What a running handler has deleted or is about to clear.                *)
InHand == UNION {IF InForm(q) THEN tx[q].cleaned
                 ELSE IF At(q, "purge", "clear") THEN tx[q].listed ELSE {} : q \in Requests}

(* Every row that refers to a file has it, and every line that points to a *)
(* receipt has that, as long as no handler failed half way, none overlapped *)
(* with it, and no two rows share the file: a document, photo, receipt or  *)
(* logo that is replaced or dropped takes no other with it.                *)
FilesAreThere ==
    /\ \A f \in refs : Opens(f.key) \/ f.key \in excused \cup InHand
    /\ \A l \in Lines : receiptOf[l] # None =>
          RefsTo("receipt", receiptOf[l]) # {} \/ receiptOf[l] \in excused \cup InHand

=============================================================================
