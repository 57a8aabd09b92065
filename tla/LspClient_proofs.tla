---------------------------- MODULE LspClient_proofs ----------------------------
(***************************************************************************)
(* The diagnostics a query returns and the documents it keeps open, for    *)
(* any workspace, any edits and any server that reports in order.          *)
(***************************************************************************)
EXTENDS LspClient, TLAPS

\* A report about document d: of no version later than the document, and of its
\* text when it is of its version.
Faithful(d, r) ==
  /\ d \in DOMAIN documents
  /\ r.version \in Nat /\ r.version <= documents[d].version
  /\ r.version = documents[d].version => r.basis[d] = documents[d].text

DocumentsInv ==
  /\ \A d \in DOMAIN documents : documents[d].version \in Nat \ {0}
  /\ (\E S : opened \in Seq(S)) /\ at \in Nat \ {0}
  /\ \A i \in 1 .. Len(opened) : opened[i] \in DOMAIN documents

ReportsInv == \A d \in DOMAIN reports : Faithful(d, reports[d])

\* A response is there only for the query that waits, once, and computed from the
\* documents as they are.
PipeInv ==
  /\ \E S : pipe \in Seq(S)
  /\ \A i \in 1 .. Len(pipe) : pipe[i].kind = "report" => Faithful(pipe[i].doc, pipe[i])
  /\ \A i \in 1 .. Len(pipe) : pipe[i].kind = "response" =>
       /\ pc = "wait" /\ ~pending /\ Requesting
       /\ pipe[i].basis = TextsNow
       /\ \A j \in 1 .. Len(pipe) : pipe[j].kind = "response" => j = i

QueryInv ==
  /\ pending => pc = "wait" /\ Requesting
  /\ pc \in {"wait", "check"} => query.doc \in DOMAIN documents
  /\ pc = "check" =>
       /\ basis[query.doc] = documents[query.doc].text
       /\ Requesting => basis = TextsNow

\* The report a query returned.
AnswersInv == OwnTextFresh /\ PulledReportsFresh

LspInv == DocumentsInv /\ ReportsInv /\ PipeInv /\ QueryInv /\ AnswersInv

LEMMA Appended ==
  ASSUME NEW S, NEW s \in Seq(S), NEW m
  PROVE  /\ \E T : Append(s, m) \in Seq(T)
         /\ Len(Append(s, m)) = Len(s) + 1
         /\ \A i \in 1 .. Len(s) : Append(s, m)[i] = s[i]
         /\ Append(s, m)[Len(s) + 1] = m
<1>1. s \in Seq(S \cup {m}) /\ m \in S \cup {m}
  OBVIOUS
<1>2. Append(s, m) \in Seq(S \cup {m})
  BY <1>1
<1>. QED  BY <1>1, <1>2

LEMMA Read ==
  ASSUME NEW S, NEW s \in Seq(S), s # <<>>
  PROVE  /\ Tail(s) \in Seq(S)
         /\ Len(s) \in Nat /\ Len(s) > 0
         /\ Len(Tail(s)) = Len(s) - 1
         /\ \A i \in 1 .. Len(Tail(s)) : i + 1 \in 1 .. Len(s) /\ Tail(s)[i] = s[i + 1]
         /\ Head(s) = s[1] /\ 1 \in 1 .. Len(s)
OBVIOUS

\* What was reported stays faithful when the documents stay.
LEMMA FaithfulStays ==
  ASSUME NEW d, NEW r, Faithful(d, r), UNCHANGED documents
  PROVE  Faithful(d, r)'
BY DEF Faithful

\* A document that is changed leaves the reports of it behind.
LEMMA FaithfulChange ==
  ASSUME DocumentsInv, NEW e \in DOMAIN documents, NEW text, documents' = Change(e, text),
         NEW d, NEW r, Faithful(d, r)
  PROVE  Faithful(d, r)'
<1>1. CASE d = e
  <2>1. documents'[d].version = documents[d].version + 1 /\ d \in DOMAIN documents'
    BY <1>1 DEF Change, DocumentsInv
  <2>2. documents[d].version \in Nat /\ r.version \in Nat /\ r.version <= documents[d].version
    BY DEF Faithful, DocumentsInv
  <2>. QED  BY <2>1, <2>2 DEF Faithful
<1>2. CASE d # e
  BY <1>2 DEF Faithful, Change
<1>. QED  BY <1>1, <1>2

LEMMA DocumentsChange ==
  ASSUME DocumentsInv, NEW e \in DOMAIN documents, NEW text, documents' = Change(e, text),
         UNCHANGED opened, at' \in Nat \ {0}
  PROVE  DocumentsInv'
<1>1. DOMAIN documents' = DOMAIN documents
  BY DEF Change
<1>2. \A d \in DOMAIN documents' : documents'[d].version \in Nat \ {0}
  BY DEF Change, DocumentsInv
<1>. QED  BY <1>1, <1>2 DEF DocumentsInv

\* Between queries, and while the documents are synchronised, no response is in the
\* pipe: what is there stays faithful when the documents change.
LEMMA PipeKept ==
  ASSUME PipeInv, pc # "wait", UNCHANGED pipe,
         \A d, r : Faithful(d, r) => Faithful(d, r)'
  PROVE  PipeInv'
BY DEF PipeInv

LEMMA ReportsKept ==
  ASSUME ReportsInv, reports' = reports \/ reports' = <<>>,
         \A d, r : Faithful(d, r) => Faithful(d, r)'
  PROVE  ReportsInv'
<1>1. CASE reports' = reports
  BY <1>1 DEF ReportsInv
<1>2. CASE reports' = <<>>
  <2>1. DOMAIN reports' = {}
    BY <1>2
  <2>. QED  BY <2>1 DEF ReportsInv
<1>. QED  BY <1>1, <1>2

LEMMA AskStep == LspInv /\ Ask => LspInv'
<1>. SUFFICES ASSUME LspInv, Ask PROVE LspInv'
  OBVIOUS
<1>1. UNCHANGED <<opened, documents, reports, pipe, pull, pending>> /\ at' = 1
      /\ pc = "idle" /\ pc' = "sync" /\ answers' = {}
  BY DEF Ask, session
<1>2. DocumentsInv' /\ ReportsInv'
  BY <1>1 DEF LspInv, DocumentsInv, ReportsInv, Faithful
<1>3. PipeInv'
  BY <1>1, FaithfulStays, PipeKept DEF LspInv
<1>4. QueryInv' /\ AnswersInv'
  BY <1>1 DEF LspInv, QueryInv, AnswersInv, OwnTextFresh, PulledReportsFresh
<1>. QED  BY <1>2, <1>3, <1>4 DEF LspInv

\* A query that fails outside wait leaves what was synchronised so far.
LEMMA FailStep ==
  ASSUME LspInv, Fail, pc # "wait", UNCHANGED <<opened, reports, pipe, answers>>, DocumentsInv',
         \A d, r : Faithful(d, r) => Faithful(d, r)'
  PROVE  LspInv'
<1>1. ReportsInv' /\ PipeInv'
  BY ReportsKept, PipeKept DEF LspInv
<1>2. QueryInv' /\ AnswersInv'
  BY DEF Fail, NoLocals, LspInv, QueryInv, AnswersInv, OwnTextFresh, PulledReportsFresh
<1>. QED  BY <1>1, <1>2 DEF LspInv

LEMMA SyncDocumentStep == LspInv /\ SyncDocument => LspInv'
<1>. SUFFICES ASSUME LspInv, SyncDocument PROVE LspInv'
  OBVIOUS
<1>. DEFINE d == opened[at]
<1>1. /\ pc = "sync" /\ UNCHANGED <<opened, reports, pipe, answers, pull>>
      /\ d \in DOMAIN documents /\ at \in Nat \ {0} /\ ~pending
  <2>1. PICK S : opened \in Seq(S)
    BY DEF LspInv, DocumentsInv
  <2>2. at \in 1 .. Len(opened)
    BY <2>1 DEF SyncDocument, LspInv, DocumentsInv
  <2>. QED  BY <2>2 DEF SyncDocument, LspInv, DocumentsInv, QueryInv
<1>2. CASE Fail /\ UNCHANGED documents
  <2>1. DocumentsInv'
    BY <1>1, <1>2 DEF LspInv, DocumentsInv, Fail, NoLocals
  <2>. QED  BY <1>1, <1>2, <2>1, FaithfulStays, FailStep
<1>3. ASSUME DocumentsInv', pc' = pc, UNCHANGED pending,
             \A e, r : Faithful(e, r) => Faithful(e, r)'
      PROVE  LspInv'
  <2>1. ReportsInv' /\ PipeInv'
    BY <1>1, <1>3, ReportsKept, PipeKept DEF LspInv
  <2>2. QueryInv' /\ AnswersInv'
    BY <1>1, <1>3 DEF LspInv, QueryInv, AnswersInv, OwnTextFresh, PulledReportsFresh
  <2>. QED  BY <1>3, <2>1, <2>2 DEF LspInv
<1>4. CASE at' = at + 1 /\ UNCHANGED <<documents, pc, pending>>
  <2>1. DocumentsInv'
    BY <1>1, <1>4 DEF LspInv, DocumentsInv
  <2>. QED  BY <1>3, <1>4, <2>1, FaithfulStays
<1>5. CASE documents' = Change(d, disk[d]) /\ at' = at + 1 /\ UNCHANGED <<pc, pending>>
  <2>1. DocumentsInv'
    BY <1>1, <1>5, DocumentsChange DEF LspInv
  <2>. QED  BY <1>1, <1>3, <1>5, <2>1, FaithfulChange DEF LspInv
<1>. QED  BY <1>2, <1>4, <1>5 DEF SyncDocument

LEMMA SyncTargetStep == LspInv /\ SyncTarget => LspInv'
<1>. SUFFICES ASSUME LspInv, SyncTarget PROVE LspInv'
  OBVIOUS
<1>. DEFINE d == query.doc
<1>1. /\ pc = "sync" /\ pc' = "wait" /\ pending' = Requesting
      /\ UNCHANGED <<pipe, pull, query, at, answers>>
      /\ reports' = reports \/ reports' = <<>>
  BY DEF SyncTarget
<1>2. Requesting' = Requesting
  BY <1>1 DEF Requesting
<1>3. ASSUME DocumentsInv', d \in DOMAIN documents',
             \A e, r : Faithful(e, r) => Faithful(e, r)'
      PROVE  LspInv'
  <2>1. ReportsInv' /\ PipeInv'
    BY <1>1, <1>3, ReportsKept, PipeKept DEF LspInv
  <2>2. QueryInv'
    BY <1>1, <1>2, <1>3 DEF QueryInv
  <2>3. AnswersInv'
    BY <1>1 DEF LspInv, AnswersInv, OwnTextFresh, PulledReportsFresh
  <2>. QED  BY <1>3, <2>1, <2>2, <2>3 DEF LspInv
<1>4. CASE d \notin DOMAIN documents
  <2>1. /\ opened' = Append(opened, d)
        /\ documents' = [x \in DOMAIN documents \cup {d} |->
                           IF x = d THEN [text |-> query.text, version |-> 1]
                           ELSE documents[x]]
    BY <1>4 DEF SyncTarget
  <2>2. DOMAIN documents' = DOMAIN documents \cup {d}
    BY <2>1
  <2>3. \A e, r : Faithful(e, r) => Faithful(e, r)'
    BY <1>4, <2>1, <2>2 DEF Faithful
  <2>4. DocumentsInv'
    <3>1. PICK S : opened \in Seq(S)
      BY DEF LspInv, DocumentsInv
    <3>2. /\ \E T : opened' \in Seq(T)
          /\ Len(opened') = Len(opened) + 1 /\ Len(opened) \in Nat
          /\ \A i \in 1 .. Len(opened) : opened'[i] = opened[i]
          /\ opened'[Len(opened) + 1] = d
      <4>. HIDE DEF d
      <4>1. Len(opened) \in Nat
        BY <3>1
      <4>2. /\ \E T : Append(opened, d) \in Seq(T)
            /\ Len(Append(opened, d)) = Len(opened) + 1
            /\ \A i \in 1 .. Len(opened) : Append(opened, d)[i] = opened[i]
            /\ Append(opened, d)[Len(opened) + 1] = d
        BY <3>1, Appended, Zenon
      <4>. QED  BY <2>1, <4>1, <4>2
    <3>3. \A i \in 1 .. Len(opened') : opened'[i] \in DOMAIN documents'
      BY <2>2, <3>2 DEF LspInv, DocumentsInv
    <3>4. \A e \in DOMAIN documents' : documents'[e].version \in Nat \ {0}
      BY <2>1, <2>2 DEF LspInv, DocumentsInv
    <3>. QED  BY <1>1, <3>2, <3>3, <3>4 DEF LspInv, DocumentsInv
  <2>. QED  BY <1>3, <2>2, <2>3, <2>4
<1>5. CASE d \in DOMAIN documents /\ documents' = Change(d, query.text) /\ UNCHANGED opened
  <2>1. DocumentsInv' /\ d \in DOMAIN documents'
    BY <1>1, <1>5, DocumentsChange DEF LspInv, DocumentsInv, Change
  <2>. QED  BY <1>3, <1>5, <2>1, FaithfulChange DEF LspInv
<1>6. CASE d \in DOMAIN documents /\ UNCHANGED <<documents, opened>>
  <2>1. DocumentsInv' /\ d \in DOMAIN documents'
    BY <1>1, <1>6 DEF LspInv, DocumentsInv
  <2>. QED  BY <1>3, <1>6, <2>1, FaithfulStays
<1>. QED  BY <1>4, <1>5, <1>6 DEF SyncTarget

LEMMA AdoptReportStep == LspInv /\ AdoptReport => LspInv'
<1>. SUFFICES ASSUME LspInv, AdoptReport PROVE LspInv'
  OBVIOUS
<1>1. /\ pc = "wait" /\ ~Requesting /\ query.doc \in DOMAIN reports
      /\ UNCHANGED <<opened, documents, reports, pipe, pull, answers>>
  BY DEF AdoptReport, Pushed, session
<1>2. ~pending /\ \A i \in 1 .. Len(pipe) : pipe[i].kind # "response"
  BY <1>1 DEF LspInv, PipeInv, QueryInv
<1>3. PipeInv'
  BY <1>1, <1>2 DEF LspInv, PipeInv, Faithful
<1>4. ReportsInv' /\ AnswersInv'
  BY <1>1 DEF LspInv, ReportsInv, Faithful, AnswersInv, OwnTextFresh, PulledReportsFresh
<1>5. CASE /\ Current(query.doc) /\ pc' = "check" /\ basis' = reports[query.doc].basis
           /\ UNCHANGED <<query, at, pending>>
  <2>1. Faithful(query.doc, reports[query.doc])
    BY <1>1 DEF LspInv, ReportsInv
  <2>2. query.doc \in DOMAIN documents /\ basis'[query.doc] = documents[query.doc].text
    BY <1>5, <2>1 DEF Faithful, Current
  <2>3. QueryInv'
    BY <1>1, <1>2, <1>5, <2>2 DEF QueryInv, Requesting
  <2>4. DocumentsInv'
    BY <1>1, <1>5 DEF LspInv, DocumentsInv
  <2>. QED  BY <1>3, <1>4, <2>3, <2>4 DEF LspInv
<1>6. CASE Fail
  <2>1. DocumentsInv' /\ QueryInv'
    BY <1>1, <1>6 DEF LspInv, DocumentsInv, QueryInv, Fail, NoLocals
  <2>. QED  BY <1>3, <1>4, <2>1 DEF LspInv
<1>. QED  BY <1>5, <1>6 DEF AdoptReport

LEMMA ReceiveReportStep == LspInv /\ ReceiveReport => LspInv'
<1>. SUFFICES ASSUME LspInv, ReceiveReport PROVE LspInv'
  OBVIOUS
<1>. DEFINE m == Head(pipe)
<1>1. /\ pc = "wait" /\ pipe # <<>> /\ m.kind = "report" /\ reports' = Keep(m)
      /\ pipe' = Tail(pipe)
      /\ UNCHANGED <<opened, documents, pull, pc, query, at, pending, basis, answers>>
  BY DEF ReceiveReport, locals
<1>2. /\ \E S : Tail(pipe) \in Seq(S)
      /\ m = pipe[1] /\ 1 \in 1 .. Len(pipe)
      /\ \A i \in 1 .. Len(Tail(pipe)) : i + 1 \in 1 .. Len(pipe) /\ Tail(pipe)[i] = pipe[i + 1]
      /\ Len(Tail(pipe)) \in Nat
  <2>1. PICK S : pipe \in Seq(S)
    BY DEF LspInv, PipeInv
  <2>. QED  BY <1>1, <2>1, Read
<1>3. Faithful(m.doc, m)
  BY <1>1, <1>2 DEF LspInv, PipeInv
<1>. HIDE DEF m
<1>4. ReportsInv'
  <2>1. \A d \in DOMAIN Keep(m) :
          \/ d \in DOMAIN reports /\ Keep(m)[d] = reports[d]
          \/ d = m.doc /\ Keep(m)[d] = [version |-> m.version, basis |-> m.basis]
    BY DEF Keep
  <2>2. Faithful(m.doc, [version |-> m.version, basis |-> m.basis])
    BY <1>3 DEF Faithful
  <2>3. \A d \in DOMAIN Keep(m) : Faithful(d, Keep(m)[d])
    BY <2>1, <2>2 DEF LspInv, ReportsInv
  <2>. QED  BY <1>1, <2>3 DEF ReportsInv, Faithful
<1>5. PipeInv'
  <2>1. Requesting' = Requesting /\ TextsNow' = TextsNow
    BY <1>1 DEF Requesting, TextsNow
  <2>2. \A i \in 1 .. Len(pipe') : pipe'[i].kind = "report" => Faithful(pipe'[i].doc, pipe'[i])
    BY <1>1, <1>2 DEF LspInv, PipeInv
  <2>3. \A i \in 1 .. Len(pipe') : pipe'[i].kind = "response" =>
          /\ pc = "wait" /\ ~pending /\ Requesting
          /\ pipe'[i].basis = TextsNow
          /\ \A j \in 1 .. Len(pipe') : pipe'[j].kind = "response" => j = i
    <3>1. SUFFICES ASSUME NEW i \in 1 .. Len(pipe'), pipe'[i].kind = "response"
                   PROVE  /\ pc = "wait" /\ ~pending /\ Requesting
                          /\ pipe'[i].basis = TextsNow
                          /\ \A j \in 1 .. Len(pipe') : pipe'[j].kind = "response" => j = i
      OBVIOUS
    <3>2. i + 1 \in 1 .. Len(pipe) /\ pipe'[i] = pipe[i + 1] /\ pipe[i + 1].kind = "response"
      BY <1>1, <1>2, <3>1
    <3>3. /\ pc = "wait" /\ ~pending /\ Requesting /\ pipe[i + 1].basis = TextsNow
          /\ \A j \in 1 .. Len(pipe) : pipe[j].kind = "response" => j = i + 1
      BY <3>2 DEF LspInv, PipeInv
    <3>4. ASSUME NEW j \in 1 .. Len(pipe'), pipe'[j].kind = "response" PROVE j = i
      <4>1. j + 1 \in 1 .. Len(pipe) /\ pipe[j + 1].kind = "response"
        BY <1>1, <1>2, <3>4
      <4>2. j + 1 = i + 1
        BY <3>3, <4>1
      <4>. QED  BY <4>2
    <3>. QED  BY <3>2, <3>3, <3>4
  <2>. QED  BY <1>1, <1>2, <2>1, <2>2, <2>3 DEF PipeInv, Faithful
<1>6. DocumentsInv' /\ QueryInv' /\ AnswersInv'
  BY <1>1 DEF LspInv, DocumentsInv, QueryInv, AnswersInv, OwnTextFresh, PulledReportsFresh,
              Requesting, TextsNow
<1>. QED  BY <1>4, <1>5, <1>6 DEF LspInv

LEMMA ReceiveResponseStep == LspInv /\ ReceiveResponse => LspInv'
<1>. SUFFICES ASSUME LspInv, ReceiveResponse PROVE LspInv'
  OBVIOUS
<1>. DEFINE m == Head(pipe)
<1>1. /\ pc = "wait" /\ pipe # <<>> /\ m.kind = "response" /\ pipe' = Tail(pipe)
      /\ UNCHANGED <<opened, documents, reports, pull, answers>>
  BY DEF ReceiveResponse
<1>2. /\ \E S : Tail(pipe) \in Seq(S)
      /\ m = pipe[1] /\ 1 \in 1 .. Len(pipe)
      /\ \A i \in 1 .. Len(Tail(pipe)) : i + 1 \in 1 .. Len(pipe) /\ Tail(pipe)[i] = pipe[i + 1]
      /\ Len(Tail(pipe)) \in Nat
  <2>1. PICK S : pipe \in Seq(S)
    BY DEF LspInv, PipeInv
  <2>. QED  BY <1>1, <2>1, Read
<1>3. /\ ~pending /\ Requesting /\ m.basis = TextsNow
      /\ \A j \in 1 .. Len(pipe) : pipe[j].kind = "response" => j = 1
  BY <1>1, <1>2 DEF LspInv, PipeInv
<1>4. PipeInv'
  <2>1. \A i \in 1 .. Len(pipe') : pipe'[i].kind # "response"
    <3>1. SUFFICES ASSUME NEW i \in 1 .. Len(pipe'), pipe'[i].kind = "response" PROVE FALSE
      OBVIOUS
    <3>2. i + 1 \in 1 .. Len(pipe) /\ pipe[i + 1].kind = "response"
      BY <1>1, <1>2, <3>1
    <3>3. i + 1 = 1
      BY <1>3, <3>2
    <3>. QED  BY <3>1, <3>3
  <2>2. \A i \in 1 .. Len(pipe') : pipe'[i].kind = "report" => Faithful(pipe'[i].doc, pipe'[i])
    BY <1>1, <1>2 DEF LspInv, PipeInv
  <2>. QED  BY <1>1, <1>2, <2>1, <2>2 DEF PipeInv, Faithful
<1>5. ReportsInv' /\ AnswersInv'
  BY <1>1 DEF LspInv, ReportsInv, Faithful, AnswersInv, OwnTextFresh, PulledReportsFresh
<1>6. CASE pc' = "check" /\ basis' = m.basis /\ UNCHANGED <<query, at, pending>>
  <2>1. query.doc \in DOMAIN documents
    BY <1>1 DEF LspInv, QueryInv
  <2>2. basis' = TextsNow /\ TextsNow[query.doc] = documents[query.doc].text
    BY <1>3, <1>6, <2>1 DEF TextsNow
  <2>3. QueryInv'
    BY <1>1, <1>3, <1>6, <2>1, <2>2 DEF QueryInv, TextsNow
  <2>4. DocumentsInv'
    BY <1>1, <1>6 DEF LspInv, DocumentsInv
  <2>. QED  BY <1>4, <1>5, <2>3, <2>4 DEF LspInv
<1>7. CASE Fail
  <2>1. DocumentsInv' /\ QueryInv'
    BY <1>1, <1>7 DEF LspInv, DocumentsInv, QueryInv, Fail, NoLocals
  <2>. QED  BY <1>4, <1>5, <2>1 DEF LspInv
<1>. QED  BY <1>6, <1>7 DEF ReceiveResponse

LEMMA CheckStep == LspInv /\ Check => LspInv'
<1>. SUFFICES ASSUME LspInv, Check PROVE LspInv'
  OBVIOUS
<1>1. /\ pc = "check" /\ pc' = "idle" /\ pending' = FALSE /\ at' = 1
      /\ UNCHANGED <<opened, documents, reports, pipe>>
  BY DEF Check, Fail, NoLocals, session
<1>2. DocumentsInv' /\ ReportsInv'
  BY <1>1 DEF LspInv, DocumentsInv, ReportsInv, Faithful
<1>3. PipeInv'
  BY <1>1, FaithfulStays, PipeKept DEF LspInv
<1>4. QueryInv'
  BY <1>1 DEF QueryInv
<1>5. AnswersInv'
  <2>1. CASE answers' = {}
    BY <2>1 DEF AnswersInv, OwnTextFresh, PulledReportsFresh
  <2>2. CASE answers' # {}
    <3>. DEFINE now == [d \in DOMAIN documents |-> disk[d]]
    <3>1. /\ answers' = {[doc |-> query.doc, basis |-> basis, pulled |-> pull, now |-> now]}
          /\ \A d \in DOMAIN documents : disk[d] = documents[d].text
      BY <2>2 DEF Check
    <3>2. /\ query.doc \in DOMAIN documents
          /\ basis[query.doc] = documents[query.doc].text
          /\ pull => basis = TextsNow
      BY <1>1 DEF LspInv, QueryInv, Requesting
    <3>3. basis[query.doc] = now[query.doc]
      BY <3>1, <3>2
    <3>4. pull => \A d \in DOMAIN basis : basis[d] = now[d]
      BY <3>1, <3>2 DEF TextsNow
    <3>. HIDE DEF now
    <3>. QED  BY <3>1, <3>3, <3>4 DEF AnswersInv, OwnTextFresh, PulledReportsFresh
  <2>. QED  BY <2>1, <2>2
<1>. QED  BY <1>2, <1>3, <1>4, <1>5 DEF LspInv

LEMMA DisconnectStep == LspInv /\ Disconnect => LspInv'
<1>. SUFFICES ASSUME LspInv, Disconnect PROVE LspInv'
  OBVIOUS
<1>1. /\ opened' = <<>> /\ documents' = <<>> /\ reports' = <<>> /\ pipe' = <<>>
      /\ pc' = "idle" /\ pending' = FALSE /\ at' = 1 /\ UNCHANGED answers
  BY DEF Disconnect, NoLocals
<1>2. DOMAIN documents' = {} /\ DOMAIN reports' = {} /\ Len(opened') = 0 /\ Len(pipe') = 0
      /\ opened' \in Seq(Docs) /\ pipe' \in Seq(Docs)
  BY <1>1
<1>3. DocumentsInv' /\ ReportsInv'
  BY <1>1, <1>2 DEF DocumentsInv, ReportsInv
<1>4. PipeInv' /\ QueryInv'
  BY <1>1, <1>2 DEF PipeInv, QueryInv
<1>5. AnswersInv'
  BY <1>1 DEF LspInv, AnswersInv, OwnTextFresh, PulledReportsFresh
<1>. QED  BY <1>3, <1>4, <1>5 DEF LspInv

\* A message of the server that is put into the pipe.
LEMMA SentStep ==
  ASSUME LspInv, NEW m, pipe' = Append(pipe, m),
         UNCHANGED <<opened, documents, reports, pull, pc, query, at, basis, answers>>,
         \/ m.kind = "report" /\ Faithful(m.doc, m) /\ UNCHANGED pending
         \/ m.kind = "response" /\ m.basis = TextsNow /\ pending /\ ~pending'
  PROVE  LspInv'
<1>1. /\ \E T : pipe' \in Seq(T)
      /\ Len(pipe') = Len(pipe) + 1 /\ Len(pipe) \in Nat
      /\ \A i \in 1 .. Len(pipe) : pipe'[i] = pipe[i]
      /\ pipe'[Len(pipe) + 1] = m
  <2>1. PICK S : pipe \in Seq(S)
    BY DEF LspInv, PipeInv
  <2>2. Len(pipe) \in Nat
    BY <2>1
  <2>3. /\ \E T : Append(pipe, m) \in Seq(T)
        /\ Len(Append(pipe, m)) = Len(pipe) + 1
        /\ \A i \in 1 .. Len(pipe) : Append(pipe, m)[i] = pipe[i]
        /\ Append(pipe, m)[Len(pipe) + 1] = m
    BY <2>1, Appended, Zenon
  <2>. QED  BY <2>2, <2>3
<1>2. \A i \in 1 .. Len(pipe') :
        \/ i \in 1 .. Len(pipe) /\ pipe'[i] = pipe[i]
        \/ i = Len(pipe) + 1 /\ pipe'[i] = m
  <2>1. SUFFICES ASSUME NEW i \in 1 .. Len(pipe')
                 PROVE  \/ i \in 1 .. Len(pipe) /\ pipe'[i] = pipe[i]
                        \/ i = Len(pipe) + 1 /\ pipe'[i] = m
    OBVIOUS
  <2>2. i \in 1 .. Len(pipe) \/ i = Len(pipe) + 1
    BY <1>1
  <2>. QED  BY <1>1, <2>2
<1>3. Requesting' = Requesting /\ TextsNow' = TextsNow
  BY DEF Requesting, TextsNow
<1>4. DocumentsInv' /\ ReportsInv' /\ QueryInv' /\ AnswersInv'
  BY <1>3 DEF LspInv, DocumentsInv, ReportsInv, Faithful, QueryInv, AnswersInv, OwnTextFresh,
              PulledReportsFresh
<1>5. PipeInv'
  <2>1. CASE m.kind = "report" /\ Faithful(m.doc, m) /\ UNCHANGED pending
    <3>1. \A i \in 1 .. Len(pipe') : pipe'[i].kind = "report" => Faithful(pipe'[i].doc, pipe'[i])
      BY <1>2, <2>1 DEF LspInv, PipeInv
    <3>2. \A i \in 1 .. Len(pipe') : pipe'[i].kind = "response" =>
            i \in 1 .. Len(pipe) /\ pipe[i].kind = "response" /\ pipe'[i] = pipe[i]
      BY <1>2, <2>1
    <3>. QED  BY <1>1, <1>3, <2>1, <3>1, <3>2 DEF LspInv, PipeInv, Faithful
  <2>2. CASE m.kind = "response" /\ m.basis = TextsNow /\ pending /\ ~pending'
    <3>1. pc = "wait" /\ Requesting /\ \A i \in 1 .. Len(pipe) : pipe[i].kind # "response"
      BY <2>2 DEF LspInv, PipeInv, QueryInv
    <3>2. \A i \in 1 .. Len(pipe') : pipe'[i].kind = "report" => Faithful(pipe'[i].doc, pipe'[i])
      BY <1>2, <2>2 DEF LspInv, PipeInv
    <3>3. \A i \in 1 .. Len(pipe') : pipe'[i].kind = "response" =>
            i = Len(pipe) + 1 /\ pipe'[i] = m
      BY <1>2, <3>1
    <3>. QED  BY <1>1, <1>3, <2>2, <3>1, <3>2, <3>3 DEF PipeInv, Faithful
  <2>. QED  BY <2>1, <2>2
<1>. QED  BY <1>4, <1>5 DEF LspInv

LEMMA PublishStep == LspInv /\ Publish => LspInv'
<1>. SUFFICES ASSUME LspInv, Publish PROVE LspInv'
  OBVIOUS
<1>0. PICK d \in DOMAIN documents : \E v \in {0, documents[d].version} :
        pipe' = Append(pipe, [kind |-> "report", doc |-> d, version |-> v, basis |-> TextsNow])
  BY DEF Publish
<1>1. PICK v \in {0, documents[d].version} :
        pipe' = Append(pipe, [kind |-> "report", doc |-> d, version |-> v, basis |-> TextsNow])
  BY <1>0
<1>2. documents[d].version \in Nat \ {0}
  BY DEF LspInv, DocumentsInv
<1>. DEFINE m == [kind |-> "report", doc |-> d, version |-> v, basis |-> TextsNow]
<1>3. m.kind = "report" /\ Faithful(m.doc, m)
  BY <1>2 DEF Faithful, TextsNow
<1>4. pipe' = Append(pipe, m)
  BY <1>1
<1>. HIDE DEF m
<1>. QED  BY <1>3, <1>4, SentStep DEF Publish, locals

LEMMA RespondStep == LspInv /\ Respond => LspInv'
<1>. SUFFICES ASSUME LspInv, Respond PROVE LspInv'
  OBVIOUS
<1>. DEFINE m == [kind |-> "response", doc |-> query.doc, version |-> 0, basis |-> TextsNow]
<1>1. pipe' = Append(pipe, m) /\ m.kind = "response" /\ m.basis = TextsNow
  BY DEF Respond
<1>. HIDE DEF m
<1>. QED  BY <1>1, SentStep DEF Respond

LEMMA LspStep == LspInv /\ [Next]_vars => LspInv'
<1>. SUFFICES ASSUME LspInv, [Next]_vars PROVE LspInv'
  OBVIOUS
<1>1. ASSUME UNCHANGED <<session, pc, locals, answers>> PROVE LspInv'
  BY <1>1
  DEF session, locals, LspInv, DocumentsInv, ReportsInv, PipeInv, QueryInv, AnswersInv,
      OwnTextFresh, PulledReportsFresh, Faithful, Requesting, TextsNow
<1>2. CASE Edit \/ UNCHANGED vars
  BY <1>1, <1>2 DEF Edit, vars
<1>3. CASE TimeOut \/ Close
  BY <1>3, DisconnectStep DEF TimeOut, Close
<1>. QED
  BY <1>2, <1>3, AskStep, SyncDocumentStep, SyncTargetStep, AdoptReportStep,
     ReceiveReportStep, ReceiveResponseStep, CheckStep, PublishStep, RespondStep
  DEF Next, Synchronize

LEMMA LspInit == Init => LspInv
<1>. SUFFICES ASSUME Init PROVE LspInv
  OBVIOUS
<1>1. /\ opened = <<>> /\ documents = <<>> /\ reports = <<>> /\ pipe = <<>>
      /\ pc = "idle" /\ pending = FALSE /\ at = 1 /\ answers = {}
  BY DEF Init
<1>2. DOMAIN documents = {} /\ DOMAIN reports = {} /\ Len(opened) = 0 /\ Len(pipe) = 0
      /\ opened \in Seq(Docs) /\ pipe \in Seq(Docs)
  BY <1>1
<1>. QED
  BY <1>1, <1>2
  DEF LspInv, DocumentsInv, ReportsInv, PipeInv, QueryInv, AnswersInv, OwnTextFresh,
      PulledReportsFresh

\* The diagnostics a query returns are of the text of its file that is on disk then,
\* whatever was edited, reported late or left half synchronised in between
\* (LspClient.diagnostics, _ensure_current).
THEOREM OwnTextAlwaysFresh == Spec => []OwnTextFresh
<1>1. LspInv => OwnTextFresh
  BY DEF LspInv, AnswersInv
<1>. QED  BY <1>1, LspInit, LspStep, PTL DEF Spec

\* Those the server was asked for were computed from all open documents as they are on
\* disk then.
THEOREM PulledAlwaysFresh == Spec => []PulledReportsFresh
<1>1. LspInv => PulledReportsFresh
  BY DEF LspInv, AnswersInv
<1>. QED  BY <1>1, LspInit, LspStep, PTL DEF Spec

-------------------------------------------------------------------------------
(* Types, and the room for one more document.                               *)

Query == [doc : Docs, kind : Kinds, text : Texts]
Message == [kind : {"report", "response"}, doc : Docs, version : Nat, basis : Basis]
Answered == [doc : Docs, basis : Basis, now : Basis, pulled : BOOLEAN]

\* The open documents, in their order.
OpenedOK ==
  /\ opened \in Seq(Docs) /\ Len(opened) <= MaxDocuments
  /\ DOMAIN documents = {opened[i] : i \in DOMAIN opened}
  /\ \A d \in DOMAIN documents : documents[d] \in Document

\* What the server said of them.
SaidOK ==
  /\ DOMAIN reports \subseteq Docs /\ \A d \in DOMAIN reports : reports[d] \in Report
  /\ pipe \in Seq(Message)
  /\ pull \in BOOLEAN

LocalsOK ==
  /\ at \in Nat \ {0} /\ basis \in Basis
  /\ changed \in BOOLEAN /\ targetChanged \in BOOLEAN /\ pending \in BOOLEAN

\* A query is one of a file, and the document it opens finds room.
AskedOK ==
  /\ pc \in {"idle", "sync", "wait", "check"}
  /\ query \in Query \/ (pc = "idle" /\ query = NoQuery)
  /\ pc = "sync" /\ query.doc \notin DOMAIN documents => Len(opened) < MaxDocuments

TypeInv ==
  /\ disk \in [Docs -> Texts] /\ edits \in 0 .. MaxEdits
  /\ OpenedOK /\ SaidOK /\ LocalsOK /\ AskedOK
  /\ answers \subseteq Answered

LEMMA TypeInvOK == TypeInv => TypeOK
BY DEF TypeInv, OpenedOK, SaidOK, LocalsOK, AskedOK, TypeOK, Query, Message, Answered

LEMMA BasisOf ==
  ASSUME NEW b, NEW ds \in SUBSET Docs, b \in [ds -> Texts]
  PROVE  b \in Basis
BY DEF Basis

LEMMA NothingBasis == Nothing \in Basis
<1>1. {} \in SUBSET Docs /\ Nothing \in [{} -> Texts]
  BY DEF Nothing
<1>. QED  BY <1>1, BasisOf, Zenon

\* A query that is over, whatever it had synchronised.
LEMMA TypeFail ==
  ASSUME TypeInv, pc' = "idle", NoLocals,
         UNCHANGED world, OpenedOK', SaidOK', answers' \subseteq Answered
  PROVE  TypeInv'
<1>1. LocalsOK'
  <2>1. basis' \in Basis
    BY NothingBasis, Zenon DEF NoLocals
  <2>2. at' \in Nat \ {0}
    BY DEF NoLocals
  <2>3. changed' \in BOOLEAN /\ targetChanged' \in BOOLEAN /\ pending' \in BOOLEAN
    BY Zenon DEF NoLocals
  <2>. QED  BY <2>1, <2>2, <2>3, Zenon DEF LocalsOK
<1>2. AskedOK'
  BY DEF NoLocals, AskedOK
<1>. QED  BY <1>1, <1>2 DEF TypeInv, world

LEMMA TypeEdit == TypeInv /\ Edit => TypeInv'
<1>. SUFFICES ASSUME TypeInv, Edit PROVE TypeInv'
  OBVIOUS
<1>1. disk' \in [Docs -> Texts] /\ edits' \in 0 .. MaxEdits
  BY LspClientAssumption DEF Edit, TypeInv
<1>2. (OpenedOK /\ SaidOK /\ LocalsOK /\ AskedOK)'
  BY DEF Edit, TypeInv, OpenedOK, SaidOK, LocalsOK, AskedOK, session, locals
<1>. QED  BY <1>1, <1>2 DEF Edit, TypeInv

LEMMA TypeAsk == TypeInv /\ Ask => TypeInv'
<1>. SUFFICES ASSUME TypeInv, Ask PROVE TypeInv'
  OBVIOUS
<1>1. PICK d \in Docs, k \in Kinds :
        /\ d \in DOMAIN documents \/ Len(opened) < MaxDocuments
        /\ query' = [doc |-> d, kind |-> k, text |-> disk[d]]
  BY DEF Ask
<1>2. UNCHANGED <<disk, edits, opened, documents, reports, pipe, pull, pending, basis>>
      /\ pc' = "sync" /\ at' = 1 /\ changed' = FALSE /\ targetChanged' = FALSE /\ answers' = {}
  BY DEF Ask, world, session
<1>3. query' \in Query /\ query'.doc = d
  <2>1. disk[d] \in Texts
    BY DEF TypeInv
  <2>. QED  BY <1>1, <2>1 DEF Query
<1>4. AskedOK'
  BY <1>1, <1>2, <1>3 DEF AskedOK
<1>5. (OpenedOK /\ SaidOK)'
  BY <1>2 DEF TypeInv, OpenedOK, SaidOK
<1>6. LocalsOK'
  <2>1. at' \in Nat \ {0}
    BY <1>2
  <2>2. changed' \in BOOLEAN /\ targetChanged' \in BOOLEAN
    BY <1>2, Zenon
  <2>3. pending' \in BOOLEAN /\ basis' \in Basis
    BY <1>2, Zenon DEF TypeInv, LocalsOK
  <2>. QED  BY <2>1, <2>2, <2>3, Zenon DEF LocalsOK
<1>. QED  BY <1>2, <1>4, <1>5, <1>6 DEF TypeInv

LEMMA ChangedOK ==
  ASSUME TypeInv, NEW d \in DOMAIN documents, NEW text \in Texts,
         documents' = Change(d, text), UNCHANGED opened
  PROVE  OpenedOK' /\ DOMAIN documents' = DOMAIN documents
<1>1. DOMAIN documents' = DOMAIN documents
  BY DEF Change
<1>2. ASSUME NEW e \in DOMAIN documents PROVE documents'[e] \in Document
  <2>1. documents[e] \in Document
    BY DEF TypeInv, OpenedOK
  <2>2. CASE e = d
    <3>1. documents'[e] = [text |-> text, version |-> documents[d].version + 1]
      BY <2>2 DEF Change
    <3>2. documents[d].version + 1 \in Nat \ {0}
      BY <2>1, <2>2 DEF Document
    <3>. QED  BY <3>1, <3>2 DEF Document
  <2>3. CASE e # d
    BY <2>1, <2>3 DEF Change
  <2>. QED  BY <2>2, <2>3
<1>. QED  BY <1>1, <1>2 DEF TypeInv, OpenedOK

LEMMA TypeSyncDocument == TypeInv /\ SyncDocument => TypeInv'
<1>. SUFFICES ASSUME TypeInv, SyncDocument PROVE TypeInv'
  OBVIOUS
<1>. DEFINE d == opened[at]
<1>1. d \in DOMAIN documents /\ d \in Docs /\ disk[d] \in Texts
  BY DEF TypeInv, OpenedOK, LocalsOK, SyncDocument
<1>2. UNCHANGED <<disk, edits, opened, reports, pipe, pull, answers>> /\ pc = "sync"
      /\ SaidOK' /\ answers' \subseteq Answered
  BY DEF SyncDocument, world, TypeInv, SaidOK
<1>3. CASE Fail /\ UNCHANGED documents
  <2>1. OpenedOK'
    BY <1>2, <1>3 DEF TypeInv, OpenedOK
  <2>. QED  BY <1>2, <1>3, <2>1, TypeFail DEF Fail, world
<1>4. ASSUME at' = at + 1, UNCHANGED <<pc, query, pending, basis>>,
             changed' \in BOOLEAN, targetChanged' \in BOOLEAN,
             OpenedOK', DOMAIN documents' = DOMAIN documents
      PROVE  TypeInv'
  <2>1. LocalsOK'
    BY <1>4 DEF TypeInv, LocalsOK
  <2>2. AskedOK'
    BY <1>2, <1>4 DEF TypeInv, AskedOK
  <2>. QED  BY <1>2, <1>4, <2>1, <2>2 DEF TypeInv
<1>5. CASE at' = at + 1 /\ UNCHANGED <<documents, pc, query, changed, targetChanged, pending, basis>>
  <2>1. OpenedOK'
    BY <1>2, <1>5 DEF TypeInv, OpenedOK
  <2>2. changed' \in BOOLEAN /\ targetChanged' \in BOOLEAN
    BY <1>5 DEF TypeInv, LocalsOK
  <2>. QED  BY <1>4, <1>5, <2>1, <2>2
<1>6. CASE /\ documents' = Change(d, disk[d]) /\ changed' = TRUE
           /\ targetChanged' = (targetChanged \/ d = query.doc)
           /\ at' = at + 1 /\ UNCHANGED <<pc, query, pending, basis>>
  <2>1. OpenedOK' /\ DOMAIN documents' = DOMAIN documents
    BY <1>1, <1>2, <1>6, ChangedOK
  <2>2. changed' \in BOOLEAN /\ targetChanged' \in BOOLEAN
    BY <1>6
  <2>. QED  BY <1>4, <1>6, <2>1, <2>2
<1>. QED  BY <1>3, <1>5, <1>6 DEF SyncDocument

LEMMA TypeSyncTarget == TypeInv /\ SyncTarget => TypeInv'
<1>. SUFFICES ASSUME TypeInv, SyncTarget PROVE TypeInv'
  OBVIOUS
<1>. DEFINE d == query.doc
<1>1. /\ pc = "sync" /\ pc' = "wait" /\ pending' = Requesting
      /\ reports' = reports \/ reports' = <<>>
      /\ UNCHANGED <<disk, edits, pipe, pull, query, at, changed, targetChanged, basis, answers>>
  BY DEF SyncTarget, world
<1>2. query \in Query /\ d \in Docs /\ query.text \in Texts
  BY <1>1 DEF TypeInv, AskedOK, Query
<1>3. SaidOK'
  <2>1. CASE reports' = reports
    BY <1>1, <2>1 DEF TypeInv, SaidOK
  <2>2. CASE reports' = <<>>
    <3>1. DOMAIN reports' = {}
      BY <2>2
    <3>. QED  BY <1>1, <3>1 DEF TypeInv, SaidOK
  <2>. QED  BY <1>1, <2>1, <2>2
<1>4. LocalsOK'
  BY <1>1 DEF TypeInv, LocalsOK, Requesting
<1>5. AskedOK'
  BY <1>1, <1>2 DEF AskedOK
<1>6. OpenedOK'
  <2>1. CASE d \notin DOMAIN documents
    <3>1. Len(opened) < MaxDocuments
      BY <1>1, <2>1 DEF TypeInv, AskedOK
    <3>2. opened' = Append(opened, d) /\ opened \in Seq(Docs)
      BY <2>1 DEF SyncTarget, TypeInv, OpenedOK
    <3>3. /\ opened' \in Seq(Docs) /\ Len(opened') <= MaxDocuments
          /\ DOMAIN opened' = DOMAIN opened \cup {Len(opened) + 1}
          /\ \A i \in DOMAIN opened : opened'[i] = opened[i]
          /\ opened'[Len(opened) + 1] = d
      BY <1>2, <3>1, <3>2, LspClientAssumption
    <3>4. DOMAIN documents' = DOMAIN documents \cup {d}
      BY <2>1 DEF SyncTarget
    <3>5. DOMAIN documents' = {opened'[i] : i \in DOMAIN opened'}
      <4>1. DOMAIN documents = {opened[i] : i \in DOMAIN opened}
        BY DEF TypeInv, OpenedOK
      <4>. QED  BY <3>3, <3>4, <4>1
    <3>6. ASSUME NEW e \in DOMAIN documents' PROVE documents'[e] \in Document
      <4>1. CASE e = d
        <5>1. documents'[e] = [text |-> query.text, version |-> 1]
          BY <2>1, <4>1 DEF SyncTarget
        <5>. QED  BY <1>2, <5>1 DEF Document
      <4>2. CASE e # d
        <5>1. documents'[e] = documents[e] /\ e \in DOMAIN documents
          BY <2>1, <3>4, <4>2 DEF SyncTarget
        <5>. QED  BY <5>1 DEF TypeInv, OpenedOK
      <4>. QED  BY <4>1, <4>2
    <3>. QED  BY <3>3, <3>5, <3>6 DEF OpenedOK
  <2>2. CASE d \in DOMAIN documents
    <3>1. UNCHANGED opened /\ (documents' = Change(d, query.text) \/ UNCHANGED documents)
      BY <2>2 DEF SyncTarget
    <3>2. CASE UNCHANGED documents
      BY <3>1, <3>2 DEF TypeInv, OpenedOK
    <3>3. CASE documents' = Change(d, query.text)
      BY <1>2, <2>2, <3>1, <3>3, ChangedOK
    <3>. QED  BY <3>1, <3>2, <3>3
  <2>. QED  BY <2>1, <2>2
<1>. QED  BY <1>1, <1>3, <1>4, <1>5, <1>6 DEF TypeInv

\* A step of the pipe, in or out of a query, that leaves the query as it was.
LEMMA TypeMessage ==
  ASSUME TypeInv, SaidOK', UNCHANGED <<disk, edits, opened, documents, answers>>,
         UNCHANGED <<query, at, changed, targetChanged>>,
         pc' = pc \/ pc' = "check", pc \in {"wait", "check"} \/ pc' = pc,
         pending' \in BOOLEAN, basis' \in Basis
  PROVE  TypeInv'
<1>1. (OpenedOK /\ LocalsOK)'
  BY DEF TypeInv, OpenedOK, LocalsOK
<1>2. AskedOK'
  <2>1. CASE pc' = pc
    BY <2>1 DEF TypeInv, AskedOK
  <2>2. CASE pc \in {"wait", "check"} /\ pc' = "check"
    BY <2>2 DEF TypeInv, AskedOK
  <2>. QED  BY <2>1, <2>2
<1>. QED  BY <1>1, <1>2 DEF TypeInv

LEMMA TypeAdoptReport == TypeInv /\ AdoptReport => TypeInv'
<1>. SUFFICES ASSUME TypeInv, AdoptReport PROVE TypeInv'
  OBVIOUS
<1>1. /\ pc = "wait" /\ query.doc \in DOMAIN reports
      /\ UNCHANGED <<disk, edits, opened, documents, reports, pipe, pull, answers>>
  BY DEF AdoptReport, Pushed, world, session
<1>2. (OpenedOK /\ SaidOK)' /\ answers' \subseteq Answered
  BY <1>1 DEF TypeInv, OpenedOK, SaidOK
<1>3. CASE Fail
  BY <1>1, <1>2, <1>3, TypeFail DEF Fail, world
<1>4. CASE /\ pc' = "check" /\ basis' = reports[query.doc].basis
           /\ UNCHANGED <<query, at, changed, targetChanged, pending>>
  <2>1. basis' \in Basis
    BY <1>1, <1>4 DEF TypeInv, SaidOK, Report
  <2>2. pending' \in BOOLEAN
    BY <1>4 DEF TypeInv, LocalsOK
  <2>. QED  BY <1>1, <1>2, <1>4, <2>1, <2>2, TypeMessage
<1>. QED  BY <1>3, <1>4 DEF AdoptReport

LEMMA TypeReceive == TypeInv /\ (ReceiveReport \/ ReceiveResponse) => TypeInv'
<1>. SUFFICES ASSUME TypeInv, ReceiveReport \/ ReceiveResponse PROVE TypeInv'
  OBVIOUS
<1>1. /\ pc = "wait" /\ pipe # <<>> /\ pipe' = Tail(pipe)
      /\ UNCHANGED <<disk, edits, opened, documents, pull, answers>>
  BY DEF ReceiveReport, ReceiveResponse, world
<1>2. pipe' \in Seq(Message) /\ Head(pipe) \in Message
  BY <1>1 DEF TypeInv, SaidOK
<1>3. OpenedOK' /\ answers' \subseteq Answered
  BY <1>1 DEF TypeInv, OpenedOK
<1>4. CASE ReceiveReport
  <2>. DEFINE m == Head(pipe)
  <2>1. /\ m.doc \in Docs /\ [version |-> m.version, basis |-> m.basis] \in Report
    BY <1>2 DEF Message, Report
  <2>2. /\ reports' = Keep(m) /\ UNCHANGED <<pc, query, at, changed, targetChanged, pending, basis>>
    BY <1>4 DEF ReceiveReport, locals
  <2>. HIDE DEF m
  <2>3. DOMAIN reports' \subseteq Docs /\ \A d \in DOMAIN reports' : reports'[d] \in Report
    BY <2>1, <2>2 DEF Keep, TypeInv, SaidOK
  <2>4. SaidOK'
    BY <1>1, <1>2, <2>3 DEF TypeInv, SaidOK
  <2>5. pending' \in BOOLEAN /\ basis' \in Basis
    BY <2>2 DEF TypeInv, LocalsOK
  <2>. QED  BY <1>1, <2>2, <2>4, <2>5, TypeMessage
<1>5. CASE ReceiveResponse
  <2>1. SaidOK'
    BY <1>1, <1>2, <1>5 DEF TypeInv, SaidOK, ReceiveResponse
  <2>2. CASE Fail
    BY <1>1, <1>3, <2>1, <2>2, TypeFail DEF Fail, world
  <2>3. CASE /\ pc' = "check" /\ basis' = Head(pipe).basis
             /\ UNCHANGED <<query, at, changed, targetChanged, pending>>
    <3>1. basis' \in Basis
      BY <1>2, <2>3 DEF Message
    <3>2. pending' \in BOOLEAN
      BY <2>3 DEF TypeInv, LocalsOK
    <3>. QED  BY <1>1, <2>1, <2>3, <3>1, <3>2, TypeMessage
  <2>. QED  BY <1>5, <2>2, <2>3 DEF ReceiveResponse
<1>. QED  BY <1>4, <1>5

LEMMA OpenedBasis ==
  ASSUME TypeInv
  PROVE  TextsNow \in Basis /\ [d \in DOMAIN documents |-> disk[d]] \in Basis
<1>1. /\ DOMAIN documents \in SUBSET Docs
      /\ \A d \in DOMAIN documents : (documents[d].text \in Texts /\ disk[d] \in Texts)
  BY DEF TypeInv, OpenedOK, Document
<1>2. TextsNow \in [DOMAIN documents -> Texts]
  BY <1>1 DEF TextsNow
<1>3. [d \in DOMAIN documents |-> disk[d]] \in [DOMAIN documents -> Texts]
  BY <1>1
<1>. QED  BY <1>1, <1>2, <1>3, BasisOf, Zenon

LEMMA TypeCheck == TypeInv /\ Check => TypeInv'
<1>. SUFFICES ASSUME TypeInv, Check PROVE TypeInv'
  OBVIOUS
<1>. DEFINE now == [d \in DOMAIN documents |-> disk[d]]
            a == [doc |-> query.doc, basis |-> basis, pulled |-> pull, now |-> now]
<1>1. pc = "check" /\ Fail /\ (answers' = {} \/ answers' = {a})
      /\ UNCHANGED <<disk, edits, opened, documents, reports, pipe, pull>>
  BY DEF Check, world, session
<1>2. (OpenedOK /\ SaidOK)'
  BY <1>1 DEF TypeInv, OpenedOK, SaidOK
<1>3. now \in Basis
  BY OpenedBasis
<1>. HIDE DEF now
<1>4. a \in Answered
  BY <1>1, <1>3 DEF TypeInv, AskedOK, LocalsOK, SaidOK, Query, Answered
<1>. HIDE DEF a
<1>5. answers' \subseteq Answered
  BY <1>1, <1>4
<1>. QED  BY <1>1, <1>2, <1>5, TypeFail DEF Fail, world

LEMMA TypeDisconnect == TypeInv /\ Disconnect => TypeInv'
<1>. SUFFICES ASSUME TypeInv, Disconnect PROVE TypeInv'
  OBVIOUS
<1>1. /\ opened' = <<>> /\ documents' = <<>> /\ reports' = <<>> /\ pipe' = <<>>
      /\ pc' = "idle" /\ NoLocals /\ UNCHANGED <<disk, edits, pull, answers>>
  BY DEF Disconnect, world
<1>2. DOMAIN documents' = {} /\ DOMAIN reports' = {} /\ DOMAIN opened' = {}
      /\ opened' \in Seq(Docs) /\ pipe' \in Seq(Message) /\ Len(opened') = 0
  BY <1>1
<1>3. OpenedOK'
  BY <1>2, LspClientAssumption DEF OpenedOK
<1>4. SaidOK'
  BY <1>1, <1>2 DEF TypeInv, SaidOK
<1>. QED  BY <1>1, <1>3, <1>4, TypeFail DEF TypeInv, world

\* The server says nothing of a document that is not open, and answers the query
\* that waits.
LEMMA TypeSent == TypeInv /\ LspInv /\ (Publish \/ Respond) => TypeInv'
<1>. SUFFICES ASSUME TypeInv, LspInv, Publish \/ Respond PROVE TypeInv'
  OBVIOUS
<1>1. TextsNow \in Basis
  BY OpenedBasis
<1>2. \E m \in Message : pipe' = Append(pipe, m)
  <2>1. CASE Publish
    <3>1. PICK d \in DOMAIN documents : \E v \in {0, documents[d].version} :
            pipe' = Append(pipe, [kind |-> "report", doc |-> d, version |-> v,
                                  basis |-> TextsNow])
      BY <2>1 DEF Publish
    <3>2. d \in Docs /\ documents[d].version \in Nat
      BY DEF TypeInv, OpenedOK, Document
    <3>3. ASSUME NEW v \in {0, documents[d].version}
          PROVE  [kind |-> "report", doc |-> d, version |-> v, basis |-> TextsNow] \in Message
      BY <1>1, <3>2 DEF Message
    <3>. QED  BY <3>1, <3>3
  <2>2. CASE Respond
    <3>1. query.doc \in Docs
      BY <2>2 DEF Respond, LspInv, QueryInv, TypeInv, AskedOK, Query
    <3>2. [kind |-> "response", doc |-> query.doc, version |-> 0, basis |-> TextsNow] \in Message
      BY <1>1, <3>1 DEF Message
    <3>. QED  BY <2>2, <3>2 DEF Respond
  <2>. QED  BY <2>1, <2>2
<1>3. UNCHANGED <<disk, edits, opened, documents, reports, pull, pc, query, at, changed,
                  targetChanged, basis, answers>> /\ pending' \in BOOLEAN
  BY DEF Publish, Respond, world, locals, TypeInv, LocalsOK
<1>4. SaidOK' /\ basis' \in Basis
  BY <1>2, <1>3 DEF TypeInv, SaidOK, LocalsOK
<1>. QED  BY <1>3, <1>4, TypeMessage

LEMMA TypeStep == TypeInv /\ LspInv /\ [Next]_vars => TypeInv'
<1>. SUFFICES ASSUME TypeInv, LspInv, [Next]_vars PROVE TypeInv'
  OBVIOUS
<1>1. CASE UNCHANGED vars
  BY <1>1
  DEF vars, world, session, locals, TypeInv, OpenedOK, SaidOK, LocalsOK, AskedOK
<1>2. CASE TimeOut \/ Close
  BY <1>2, TypeDisconnect DEF TimeOut, Close
<1>. QED
  BY <1>1, <1>2, TypeEdit, TypeAsk, TypeSyncDocument, TypeSyncTarget, TypeAdoptReport,
     TypeReceive, TypeCheck, TypeSent
  DEF Next, Synchronize

LEMMA TypeInit == Init => TypeInv
<1>. SUFFICES ASSUME Init PROVE TypeInv
  OBVIOUS
<1>1. /\ opened = <<>> /\ documents = <<>> /\ reports = <<>> /\ pipe = <<>>
      /\ pc = "idle" /\ pull \in BOOLEAN /\ query = NoQuery /\ answers = {} /\ edits = 0
  BY DEF Init
<1>2. PICK t \in Texts : disk = [d \in Docs |-> t]
  BY DEF Init
<1>3. disk \in [Docs -> Texts] /\ edits \in 0 .. MaxEdits
  BY <1>1, <1>2, LspClientAssumption
<1>4. DOMAIN documents = {} /\ DOMAIN reports = {} /\ DOMAIN opened = {}
      /\ opened \in Seq(Docs) /\ pipe \in Seq(Message) /\ Len(opened) = 0
  BY <1>1
<1>5. OpenedOK
  BY <1>4, LspClientAssumption DEF OpenedOK
<1>6. SaidOK /\ AskedOK
  BY <1>1, <1>4 DEF SaidOK, AskedOK
<1>7. LocalsOK
  <2>1. basis \in Basis
    BY NothingBasis, Zenon DEF Init
  <2>2. at \in Nat \ {0}
    BY DEF Init
  <2>3. changed \in BOOLEAN /\ targetChanged \in BOOLEAN /\ pending \in BOOLEAN
    BY Zenon DEF Init
  <2>. QED  BY <2>1, <2>2, <2>3, Zenon DEF LocalsOK
<1>. QED  BY <1>1, <1>3, <1>5, <1>6, <1>7 DEF TypeInv

\* Every variable of the client is of its type; the documents open at once are those
\* of the order they are synchronised in, and never more than MAX_DOCUMENTS
\* (LspClient._prepare, _synchronize).
THEOREM DocumentsBounded == Spec => []TypeOK
<1>1. Init => TypeInv /\ LspInv
  BY TypeInit, LspInit
<1>2. TypeInv /\ LspInv /\ [Next]_vars => (TypeInv /\ LspInv)'
  BY TypeStep, LspStep
<1>. QED  BY <1>1, <1>2, TypeInvOK, PTL DEF Spec
===============================================================================
