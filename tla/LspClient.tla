------------------------------ MODULE LspClient ------------------------------
(***************************************************************************)
(* The language-server client (mini_pi/lsp/client.py): documents kept in   *)
(* step with the disk, one query at a time, diagnostics pulled from the    *)
(* server or pushed by it, and the edits of other programs in between.     *)
(*                                                                         *)
(* The server reads the client's messages in order and may lag; since what *)
(* it sends is read in order too, and only during a query, a server that   *)
(* lags looks like one that answers at once through a slow pipe.  So it    *)
(* has no copy of the documents here, and what it sends waits in pipe.     *)
(*                                                                         *)
(* pc is where the query is: idle, sync (_synchronize), wait (for a        *)
(* response or a report), check (_ensure_current).                         *)
(***************************************************************************)
EXTENDS Naturals, Sequences, FiniteSets

CONSTANTS
  Docs,         \* Python files of the workspace
  Texts,        \* what a file may hold; 0 is a file that cannot be read
  MaxDocuments, \* MAX_DOCUMENTS
  MaxEdits,     \* bound: changes of the disk
  MaxPipe       \* bound: messages of the server not yet read

ASSUME LspClientAssumption ==
  /\ Texts \subseteq Nat
  /\ MaxDocuments \in Nat /\ MaxEdits \in Nat /\ MaxPipe \in Nat

Kinds == {"locations", "diagnostics"}

\* The texts of the open documents a report of the server was computed from.
Basis == UNION {[ds -> Texts] : ds \in SUBSET Docs}
Document == [text : Texts, version : Nat \ {0}]

\* version 0 is a report that names no version of its document.
Report == [version : Nat, basis : Basis]

VARIABLES
  disk,       \* the workspace, and how often it has been changed
  edits,
  opened,     \* the keys of _documents, in the order they were opened
  documents,
  reports,    \* _diagnostics
  pipe,       \* sent by the server, not yet read
  pull,       \* whether it declares diagnosticProvider
  pc, query,  \* the query: its file and kind, the text read when it started,
  at,         \* the next document to synchronise, the locals changed and
  changed,    \* target_changed, whether a request is with the server,
  targetChanged, pending,
  basis,      \* and what the report in hand was computed from
  answers     \* history: the report the last query returned as fresh, if any

world == <<disk, edits>>
session == <<opened, documents, reports, pipe, pull>>
locals == <<query, at, changed, targetChanged, pending, basis>>
vars == <<world, session, pc, locals, answers>>

Nothing == [d \in {} |-> 0]
NoQuery == [doc |-> CHOOSE d \in Docs : TRUE, kind |-> "locations", text |-> 0]

NoLocals ==
  /\ query' = NoQuery /\ at' = 1 /\ changed' = FALSE /\ targetChanged' = FALSE
  /\ pending' = FALSE /\ basis' = Nothing

\* All files start with the same text: texts are only compared in one file.
Init ==
  /\ \E t \in Texts \ {0} : disk = [d \in Docs |-> t]
  /\ edits = 0
  /\ opened = <<>> /\ documents = <<>> /\ reports = <<>> /\ pipe = <<>>
  /\ pull \in BOOLEAN
  /\ pc = "idle"
  /\ query = NoQuery /\ at = 1 /\ changed = FALSE /\ targetChanged = FALSE
  /\ pending = FALSE /\ basis = Nothing
  /\ answers = {}

-------------------------------------------------------------------------------
(* Other programs, and the model's own tools, change the files.            *)

Edit ==
  /\ edits < MaxEdits
  /\ edits' = edits + 1
  /\ \E d \in Docs, t \in Texts : t # disk[d] /\ disk' = [disk EXCEPT ![d] = t]
  /\ UNCHANGED <<session, pc, locals, answers>>

-------------------------------------------------------------------------------
(* A query.                                                                *)

\* An LspError: the connection stays, and what was synchronised so far.
Fail ==
  /\ pc' = "idle"
  /\ NoLocals

\* Mutant: documents are opened without end.
AskUnbounded ==
  /\ pc = "idle"
  /\ \E d \in Docs, k \in Kinds :
       /\ disk[d] # 0
       /\ query' = [doc |-> d, kind |-> k, text |-> disk[d]]
  /\ pc' = "sync"
  /\ at' = 1 /\ changed' = FALSE /\ targetChanged' = FALSE
  /\ answers' = {}
  /\ UNCHANGED <<world, session, pending, basis>>

\* The file is read first, and there is room for one more document.
Ask ==
  /\ pc = "idle"
  /\ \E d \in Docs, k \in Kinds :
       /\ disk[d] # 0
       /\ d \in DOMAIN documents \/ Len(opened) < MaxDocuments
       /\ query' = [doc |-> d, kind |-> k, text |-> disk[d]]
  /\ pc' = "sync"
  /\ at' = 1 /\ changed' = FALSE /\ targetChanged' = FALSE
  /\ answers' = {}
  /\ UNCHANGED <<world, session, pending, basis>>

\* Mutant: didChange without a new version.
ChangeInPlace(d, text) == [documents EXCEPT ![d].text = text]

\* _change: the whole text, under the next version.
Change(d, text) ==
  [documents EXCEPT ![d] = [text |-> text, version |-> @.version + 1]]

\* Every open document is read again, in the order of opening.
SyncDocument ==
  /\ pc = "sync"
  /\ at <= Len(opened)
  /\ LET d == opened[at] IN
     \/ /\ disk[d] = 0
        /\ Fail
        /\ UNCHANGED documents
     \/ /\ disk[d] = documents[d].text
        /\ at' = at + 1
        /\ UNCHANGED <<documents, pc, query, changed, targetChanged, pending, basis>>
     \/ /\ disk[d] \notin {0, documents[d].text}
        /\ documents' = Change(d, disk[d])
        /\ changed' = TRUE
        /\ targetChanged' = (targetChanged \/ d = query.doc)
        /\ at' = at + 1
        /\ UNCHANGED <<pc, query, pending, basis>>
  /\ UNCHANGED <<world, opened, reports, pipe, pull, answers>>

Requesting == query.kind = "locations" \/ pull

\* The document asked about is opened, or raised to a new version when only
\* others changed; then the query goes out, or waits for a pushed report.
SyncTarget ==
  /\ pc = "sync"
  /\ at > Len(opened)
  /\ LET d == query.doc IN
     IF d \notin DOMAIN documents
       THEN /\ opened' = Append(opened, d)
            /\ documents' = [x \in DOMAIN documents \cup {d} |->
                               IF x = d THEN [text |-> query.text, version |-> 1]
                               ELSE documents[x]]
       ELSE /\ documents' = IF changed /\ ~targetChanged
                              THEN Change(d, query.text) ELSE documents
            /\ UNCHANGED opened
  /\ reports' = IF changed THEN <<>> ELSE reports
  /\ pending' = Requesting
  /\ pc' = "wait"
  /\ UNCHANGED <<world, pipe, pull, query, at, changed, targetChanged, basis, answers>>

Current(d) == reports[d].version = documents[d].version

\* Whether the report waited for has come, with its version or without one.
Pushed ==
  /\ ~Requesting
  /\ query.doc \in DOMAIN reports
  /\ Current(query.doc) \/ reports[query.doc].version = 0

AdoptReport ==
  /\ pc = "wait"
  /\ Pushed
  /\ IF Current(query.doc)
       THEN /\ pc' = "check"
            /\ basis' = reports[query.doc].basis
            /\ UNCHANGED <<query, at, changed, targetChanged, pending>>
       ELSE Fail
  /\ UNCHANGED <<world, session, answers>>

\* publishDiagnostics: kept if it is of the current version, or of none.
Keep(m) ==
  IF m.doc \in DOMAIN documents /\ m.version \in {0, documents[m.doc].version}
    THEN [d \in DOMAIN reports \cup {m.doc} |->
            IF d = m.doc THEN [version |-> m.version, basis |-> m.basis] ELSE reports[d]]
    ELSE reports

ReceiveReport ==
  /\ pc = "wait"
  /\ ~Pushed
  /\ pipe # <<>> /\ Head(pipe).kind = "report"
  /\ reports' = Keep(Head(pipe))
  /\ pipe' = Tail(pipe)
  /\ UNCHANGED <<world, opened, documents, pull, pc, locals, answers>>

\* The response of the request, a result or an error.
ReceiveResponse ==
  /\ pc = "wait"
  /\ pipe # <<>> /\ Head(pipe).kind = "response"
  /\ \/ /\ pc' = "check"
        /\ basis' = Head(pipe).basis
        /\ UNCHANGED <<query, at, changed, targetChanged, pending>>
     \/ Fail
  /\ pipe' = Tail(pipe)
  /\ UNCHANGED <<world, opened, documents, reports, pull, answers>>

\* Mutant: the documents are not read again before the answer.
CheckNothing ==
  /\ pc = "check"
  /\ answers' =
       IF query.kind = "diagnostics"
         THEN {[doc |-> query.doc, basis |-> basis, pulled |-> pull,
                now |-> [d \in DOMAIN documents |-> disk[d]]]}
         ELSE {}
  /\ Fail
  /\ UNCHANGED <<world, session>>

\* _ensure_current reads every open document again.  One step: an edit behind
\* its reading is one after the answer.
Check ==
  /\ pc = "check"
  /\ answers' =
       IF query.kind = "diagnostics" /\ \A d \in DOMAIN documents : disk[d] = documents[d].text
         THEN {[doc |-> query.doc, basis |-> basis, pulled |-> pull,
                now |-> [d \in DOMAIN documents |-> disk[d]]]}
         ELSE {}
  /\ Fail
  /\ UNCHANGED <<world, session>>

\* The process group is killed; the next query starts another server.
Disconnect ==
  /\ opened' = <<>> /\ documents' = <<>> /\ reports' = <<>> /\ pipe' = <<>>
  /\ pc' = "idle"
  /\ NoLocals
  /\ UNCHANGED <<world, pull, answers>>

\* Mutant: the deadline starts again with every message.
TimeOutPerMessage == pc = "wait" /\ ~Pushed /\ pipe = <<>> /\ Disconnect

\* The deadline of the query has passed.
TimeOut == pc = "wait" /\ ~Pushed /\ Disconnect

\* A broken protocol or Ctrl+C in a query, close() between two.
Close == documents # <<>> /\ Disconnect

-------------------------------------------------------------------------------
(* The server.                                                             *)

TextsNow == [d \in DOMAIN documents |-> documents[d].text]

Publish ==
  /\ Len(pipe) < MaxPipe
  /\ \E d \in DOMAIN documents : \E v \in {0, documents[d].version} :
       pipe' = Append(pipe, [kind |-> "report", doc |-> d, version |-> v, basis |-> TextsNow])
  /\ UNCHANGED <<world, opened, documents, reports, pull, pc, locals, answers>>

Respond ==
  /\ pending
  /\ pending' = FALSE
  /\ pipe' = Append(pipe, [kind |-> "response", doc |-> query.doc, version |-> 0,
                           basis |-> TextsNow])
  /\ UNCHANGED <<world, opened, documents, reports, pull, pc, query, at, changed,
                 targetChanged, basis, answers>>

-------------------------------------------------------------------------------
Synchronize == SyncDocument \/ SyncTarget
Next ==
  \/ Edit \/ Ask \/ Synchronize \/ AdoptReport \/ ReceiveReport \/ ReceiveResponse
  \/ Check \/ TimeOut \/ Close \/ Publish \/ Respond

Spec == Init /\ [][Next]_vars

\* The client's own steps go on, and a deadline passes.  Nothing is assumed of
\* the server, which may be silent or never stop publishing.
FairSpec ==
  Spec /\ WF_vars(Synchronize) /\ WF_vars(AdoptReport) /\ WF_vars(Check) /\ WF_vars(TimeOut)

-------------------------------------------------------------------------------
TypeOK ==
  /\ disk \in [Docs -> Texts] /\ edits \in 0 .. MaxEdits
  /\ opened \in Seq(Docs) /\ Len(opened) <= MaxDocuments
  /\ DOMAIN documents = {opened[i] : i \in DOMAIN opened}
  /\ \A d \in DOMAIN documents : documents[d] \in Document
  /\ DOMAIN reports \subseteq Docs /\ \A d \in DOMAIN reports : reports[d] \in Report
  /\ pipe \in Seq([kind : {"report", "response"}, doc : Docs, version : Nat, basis : Basis])
  /\ pull \in BOOLEAN
  /\ pc \in {"idle", "sync", "wait", "check"}
  /\ query \in [doc : Docs, kind : Kinds, text : Texts] \cup {NoQuery} /\ at \in Nat \ {0}
  /\ changed \in BOOLEAN /\ targetChanged \in BOOLEAN /\ pending \in BOOLEAN
  /\ basis \in Basis
  /\ answers \subseteq [doc : Docs, basis : Basis, now : Basis, pulled : BOOLEAN]

\* A report is about the text its positions are converted in, the one on
\* disk when it is returned: no edit, late report, failed synchronisation or
\* new connection ever lets a report of another text of the file through.
OwnTextFresh == \A a \in answers : a.basis[a.doc] = a.now[a.doc]

\* A report the server was asked for was computed from the open documents as
\* they are on disk when it is returned (diagnostics, lsp/client.py:451).
PulledReportsFresh ==
  \A a \in answers : a.pulled => \A d \in DOMAIN a.basis : a.basis[d] = a.now[d]

\* So is one the server pushed (the docstring of diagnostics,
\* lsp/client.py:445).
FreshReports == \A a \in answers : \A d \in DOMAIN a.basis : a.basis[d] = a.now[d]

\* A query ends: the deadline holds although the server is silent, or
\* publishes without end.
QueryEnds == pc # "idle" ~> pc = "idle"
===============================================================================
