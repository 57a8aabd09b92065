----------------------------- MODULE JsonlSession -----------------------------
(***************************************************************************)
(* One session file and the JsonlSession object that appends to it         *)
(* (mini_pi/session/jsonl.py): entries form a tree of which the last line  *)
(* read is the leaf; an append is written and synced before the object     *)
(* advances; it may fail or be interrupted with the line written in part   *)
(* or in full, after which the process goes on with the object it had; the *)
(* process dies and another one loads the file.                            *)
(*                                                                         *)
(* A line is what one append wrote.  Entries of the tool catalog and of    *)
(* the approvals both count as "note": neither is projected.  The header   *)
(* line, which the creation of the file writes, is left out.               *)
(***************************************************************************)
EXTENDS Naturals, Sequences, SequencesExt

CONSTANTS
  MaxEntries,  \* bound: appends attempted on the file
  MaxStops,    \* bound: deaths of a process
  Ends,        \* how far a write that did not return may have got
  Texts        \* what the text of an entry may hold

ASSUME JsonlSessionAssumption ==
  /\ MaxEntries \in Nat /\ MaxStops \in Nat
  /\ Ends \subseteq {"whole", "unterminated", "torn"}
  /\ Texts \subseteq {"plain", "separator"}

Id == 1 .. MaxEntries
Kinds == {"message", "note", "compaction"}

\* parent 0 is parentId null; kept is firstKeptEntryId, 0 but in a compaction.
Entry == [id : Id, parent : {0} \cup Id, kind : Kinds, kept : {0} \cup Id]

\* How far its write got, and whether its text holds a character at which
\* str.splitlines breaks a line and which JSON does not escape (U+2028).
Line == [entry : Entry, end : {"whole", "unterminated", "torn"}, text : Texts]

VARIABLES
  file,     \* the lines of the file
  synced,   \* how many of them a power failure cannot take back
  entries,  \* the object: entries in file order, and the current leaf.  They
  leaf,     \* keep their value when the process dies, until the next load.
  phase,    \* open, down, lost (the power failed), refused
  answer,   \* of the last append: ok, failed
  used,     \* ids given out (uuid4: no id is given twice)
  stops

vars == <<file, synced, entries, leaf, phase, answer, used, stops>>

Init ==
  /\ file = <<>> /\ synced = 0
  /\ entries = <<>> /\ leaf = 0
  /\ phase = "open" /\ answer = "ok"
  /\ used = 0 /\ stops = 0

-------------------------------------------------------------------------------
(* The tree of entries.                                                    *)

Ids(es) == {es[i].id : i \in DOMAIN es}
EntryOf(es, id) == es[CHOOSE i \in DOMAIN es : es[i].id = id]

\* From the root to an entry along parentId.
Path(es, id) ==
  LET upTo[x \in {0} \cup Ids(es)] ==
        IF x = 0 THEN <<>> ELSE Append(upTo[EntryOf(es, x).parent], x)
  IN  upTo[id]

OnPath(es, id, kept) == kept \in ToSet(Path(es, id))

\* append_compaction: what it keeps is a message of the current branch.
MayKeep(es, at, kept) ==
  /\ kept \in Ids(es)
  /\ EntryOf(es, kept).kind = "message"
  /\ OnPath(es, at, kept)

\* _validate_loaded_entry on every entry, in file order.
ValidTree(es) ==
  \A i \in DOMAIN es :
    LET before == SubSeq(es, 1, i - 1) IN
    /\ es[i].id \notin Ids(before)
    /\ es[i].parent = 0 <=> i = 1
    /\ i > 1 => es[i].parent \in Ids(before)
    /\ es[i].kind = "compaction" => MayKeep(before, es[i].parent, es[i].kept)

\* Every line parses: a cut line does not, nor does the next one glued to a
\* line without its end, nor one that splitlines breaks in two.
Parses(lines) ==
  \A i \in DOMAIN lines :
    /\ lines[i].text = "plain"
    /\ lines[i].end = "whole" \/ (lines[i].end = "unterminated" /\ i = Len(lines))

EntriesOf(lines) == [i \in DOMAIN lines |-> lines[i].entry]

Loadable(lines) == Parses(lines) /\ ValidTree(EntriesOf(lines))

-------------------------------------------------------------------------------
(* append_message, append_control, append_tool_catalog, append_compaction. *)

\* Mutant: a checkpoint may keep any message, of an abandoned branch too.
CandidatesOffBranch ==
  {[id |-> used + 1, parent |-> leaf, kind |-> k, kept |-> 0] : k \in {"message", "note"}}
    \cup {[id |-> used + 1, parent |-> leaf, kind |-> "compaction", kept |-> kept] :
            kept \in {x \in Ids(entries) : EntryOf(entries, x).kind = "message"}}

\* The entries that may be appended now, as children of the leaf.
Candidates ==
  {[id |-> used + 1, parent |-> leaf, kind |-> k, kept |-> 0] : k \in {"message", "note"}}
    \cup {[id |-> used + 1, parent |-> leaf, kind |-> "compaction", kept |-> kept] :
            kept \in {x \in Ids(entries) : MayKeep(entries, leaf, x)}}

Appending == phase = "open" /\ used < MaxEntries /\ used' = used + 1

\* The line is written and synced, then the object advances.
AppendEntry ==
  /\ Appending
  /\ \E e \in Candidates, t \in Texts :
       /\ file' = Append(file, [entry |-> e, end |-> "whole", text |-> t])
       /\ entries' = Append(entries, e)
       /\ leaf' = e.id
  /\ synced' = Len(file')
  /\ answer' = "ok"
  /\ UNCHANGED <<phase, stops>>

\* What a write that does not return leaves in the file.
WritePartly ==
  \/ UNCHANGED file
  \/ \E e \in Candidates, t \in Texts, end \in Ends :
       file' = Append(file, [entry |-> e, end |-> end, text |-> t])

\* Mutant: the object advances before the write that fails.
AppendFailsAdvanced ==
  /\ Appending
  /\ \E e \in Candidates :
       /\ entries' = Append(entries, e)
       /\ leaf' = e.id
  /\ answer' = "failed"
  /\ UNCHANGED <<file, synced, phase, stops>>

\* The write or its fsync fails, or Ctrl+C lands before the leaf, which moves
\* last: the next append takes the same parent, and the process goes on.
AppendFails ==
  /\ Appending
  /\ WritePartly
  /\ answer' = "failed"
  /\ UNCHANGED <<synced, entries, leaf, phase, stops>>

-------------------------------------------------------------------------------
(* The end of a process, and load.                                         *)

Stopping == phase = "open" /\ stops < MaxStops /\ stops' = stops + 1

Exit ==
  /\ Stopping
  /\ phase' = "down"
  /\ UNCHANGED <<file, synced, entries, leaf, answer, used>>

DieInAppend ==
  /\ Stopping
  /\ phase' = "down"
  /\ used < MaxEntries
  /\ used' = used + 1
  /\ WritePartly
  /\ answer' = "failed"
  /\ UNCHANGED <<synced, entries, leaf>>

\* Mutant: nothing was synced.
PowerFailureUnsynced ==
  /\ Stopping
  /\ phase' = "lost"
  /\ \E n \in 0 .. Len(file) : file' = SubSeq(file, 1, n)
  /\ UNCHANGED <<synced, entries, leaf, answer, used>>

CutIn(n, end) ==
  Append(SubSeq(file, 1, n - 1), [entry |-> file[n].entry, end |-> end, text |-> file[n].text])

\* What was written and not synced may be lost, from the middle of a line on.
PowerFailure ==
  /\ Stopping
  /\ phase' = "lost"
  /\ \E n \in synced .. Len(file) :
       \/ file' = SubSeq(file, 1, n)
       \/ n > synced /\ \E end \in Ends : file' = CutIn(n, end)
  /\ UNCHANGED <<synced, entries, leaf, answer, used>>

\* Mutant: the leaf is the first entry of the file.
LoadRoot ==
  /\ phase \in {"down", "lost"}
  /\ IF Loadable(file)
       THEN /\ phase' = "open"
            /\ entries' = EntriesOf(file)
            /\ leaf' = IF file = <<>> THEN 0 ELSE file[1].entry.id
       ELSE /\ phase' = "refused"
            /\ UNCHANGED <<entries, leaf>>
  /\ UNCHANGED <<file, synced, answer, used, stops>>

Load ==
  /\ phase \in {"down", "lost"}
  /\ IF Loadable(file)
       THEN /\ phase' = "open"
            /\ entries' = EntriesOf(file)
            /\ leaf' = IF file = <<>> THEN 0 ELSE file[Len(file)].entry.id
       ELSE /\ phase' = "refused"
            /\ UNCHANGED <<entries, leaf>>
  /\ UNCHANGED <<file, synced, answer, used, stops>>

Next == AppendEntry \/ AppendFails \/ Exit \/ DieInAppend \/ PowerFailure \/ Load

Spec == Init /\ [][Next]_vars

-------------------------------------------------------------------------------
TypeOK ==
  /\ file \in Seq(Line) /\ synced \in 0 .. Len(file)
  /\ entries \in Seq(Entry) /\ leaf \in {0} \cup Id
  /\ phase \in {"open", "down", "lost", "refused"} /\ answer \in {"ok", "failed"}
  /\ used \in 0 .. MaxEntries /\ stops \in 0 .. MaxStops

\* Whatever failed before it, an append never uses an id again and never
\* names a parent that is not an earlier line: a new process can follow
\* parentId from any line to a root.
ParentsEarlier ==
  \A i \in DOMAIN file :
    LET before == {file[j].entry.id : j \in 1 .. i - 1}
    IN  file[i].entry.id \notin before /\ file[i].entry.parent \in {0} \cup before

\* A checkpoint keeps from a message of the branch it was appended to, also
\* when failed appends have left other branches in the file.
KeptOnBranch ==
  \A i \in DOMAIN file :
    LET before == EntriesOf(SubSeq(file, 1, i - 1)) e == file[i].entry
    IN  e.kind = "compaction" => MayKeep(before, e.parent, e.kept)

\* The promise of DurableLog: log is the active path of the object, in doubt
\* is what was written after the last entry that was acknowledged.
Promise == INSTANCE DurableLog WITH
  log <- Path(entries, leaf),
  acked <- IF synced = 0 THEN <<>> ELSE Path(EntriesOf(file), file[synced].entry.id),
  doubts <- {file[i].entry.id : i \in synced + 1 .. Len(file)},
  spoiled <- \E i \in DOMAIN file :
               file[i].end # "whole" \/ file[i].entry \notin ToSet(entries)

\* Whatever fails, an append that returned is found again in its place, and
\* one that did not is found last or not at all; a file is refused only when
\* one of those left something in it (_append's docstring, jsonl.py:426).
PromiseKept == Promise!Spec

\* After an append that returned, a new process can load the file
\* (_append_line's docstring, jsonl.py:450).
LoadableAfterAppend == phase = "open" /\ answer = "ok" => Loadable(file)
===============================================================================
