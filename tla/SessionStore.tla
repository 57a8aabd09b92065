----------------------------- MODULE SessionStore -----------------------------
(***************************************************************************)
(* The session files of one workspace, as several processes see them       *)
(* (mini_pi/session/jsonl.py; create, resume and new of                    *)
(* session/runtime.py): no file is locked, each process appends after the  *)
(* entry it takes for the last one, and --continue picks the file that was *)
(* last active.  How one append reaches the disk is JsonlSession's matter. *)
(*                                                                         *)
(* An entry is a task, a reply with tool calls, their results, a final     *)
(* answer or the checkpoint of a compaction.  No two time stamps are       *)
(* equal, so the file last active is the last written.                     *)
(***************************************************************************)
EXTENDS Naturals, Sequences, FiniteSets

CONSTANTS
  Terminals,    \* processes of the program
  MaxFiles,     \* bound: session files
  MaxEntries    \* bound: entries in all of them

Kinds == {"task", "calls", "results", "answer", "checkpoint"}
Entry == [parent : Nat, kind : Kinds]

VARIABLES
  files,        \* header and entries of each session file
  latest,       \* the file last active, 0 if there is none
  session,      \* the file a process has open, 0 if none
  leaf,         \* its _leaf_id, 0 for None
  \* History: files two processes had open at once, and those of them that
  \* had no entry when the second one came.
  shared, sharedEmpty

store == <<files, latest, session, leaf, shared, sharedEmpty>>

StoreType ==
  /\ files \in Seq([header : {"whole", "torn"}, entries : Seq(Entry)])
  /\ latest \in 0 .. Len(files)
  /\ session \in [Terminals -> 0 .. Len(files)]
  /\ leaf \in [Terminals -> Nat]
  /\ sharedEmpty \subseteq shared /\ shared \subseteq DOMAIN files

StoreInit ==
  /\ files = <<>> /\ latest = 0
  /\ session = [t \in Terminals |-> 0] /\ leaf = [t \in Terminals |-> 0]
  /\ shared = {} /\ sharedEmpty = {}

-------------------------------------------------------------------------------
(* Reading a file.                                                         *)

\* The entries from the root to the n-th one.
PathTo(entries, n) ==
  LET path[i \in 0 .. Len(entries)] ==
        IF i = 0 THEN {} ELSE path[entries[i].parent] \cup {i}
  IN path[n]

\* load: only the first entry has no parent.
SingleRoot(entries) == \A i \in DOMAIN entries : entries[i].parent = 0 <=> i = 1

\* replay: the path to an entry answers every call.
Answered(entries, n) ==
  LET path == PathTo(entries, n) IN
  \A i \in path : entries[i].kind = "calls" =>
    \E j \in path : entries[j].parent = i /\ entries[j].kind = "results"

Loads(f) ==
  /\ files[f].header = "whole"
  /\ SingleRoot(files[f].entries)
  /\ Answered(files[f].entries, Len(files[f].entries))

\* list_session_summaries: one candidate that does not load fails them all.
Listed == \A f \in DOMAIN files : Loads(f)

-------------------------------------------------------------------------------
(* Steps of one process on its file.                                       *)

\* AgentSession.create, and new(), which closes nothing of the old file.
Create(t) ==
  /\ Len(files) < MaxFiles
  /\ files' = Append(files, [header |-> "whole", entries |-> <<>>])
  /\ latest' = Len(files')
  /\ session' = [session EXCEPT ![t] = Len(files')]
  /\ leaf' = [leaf EXCEPT ![t] = 0]
  /\ UNCHANGED <<shared, sharedEmpty>>

\* The file was made and the header is not in it: the disk was full, or the
\* process died.  Nothing removes the file.
CreateTorn ==
  /\ Len(files) < MaxFiles
  /\ files' = Append(files, [header |-> "torn", entries |-> <<>>])
  /\ latest' = Len(files')
  /\ UNCHANGED <<session, leaf, shared, sharedEmpty>>

\* load and replay: the last entry of the file becomes the leaf.
Open(t, f) ==
  /\ Loads(f)
  /\ session' = [session EXCEPT ![t] = f]
  /\ leaf' = [leaf EXCEPT ![t] = Len(files[f].entries)]
  /\ LET other == \E u \in Terminals \ {t} : session[u] = f IN
     /\ shared' = IF other THEN shared \cup {f} ELSE shared
     /\ sharedEmpty' = IF other /\ files[f].entries = <<>>
                         THEN sharedEmpty \cup {f} ELSE sharedEmpty
  /\ UNCHANGED <<files, latest>>

TotalEntries ==
  LET count[f \in 0 .. Len(files)] ==
        IF f = 0 THEN 0 ELSE count[f - 1] + Len(files[f].entries)
  IN count[Len(files)]

\* Mutant: the leaf stays where it was.
WriteAfterSameLeaf(t, kind) ==
  /\ TotalEntries < MaxEntries
  /\ LET f == session[t]
         new == [parent |-> leaf[t], kind |-> kind] IN
     /\ files' = [files EXCEPT ![f].entries = Append(@, new)]
     /\ latest' = f
  /\ leaf' = IF leaf[t] = 0 THEN [leaf EXCEPT ![t] = 1] ELSE leaf
  /\ UNCHANGED <<session, shared, sharedEmpty>>

\* append_message after the own leaf, wherever the file ends by now.
Write(t, kind) ==
  /\ TotalEntries < MaxEntries
  /\ LET f == session[t]
         new == [parent |-> leaf[t], kind |-> kind] IN
     /\ files' = [files EXCEPT ![f].entries = Append(@, new)]
     /\ latest' = f
     /\ leaf' = [leaf EXCEPT ![t] = Len(files'[f].entries)]
  /\ UNCHANGED <<session, shared, sharedEmpty>>

\* The process is gone.
Leave(t) ==
  /\ session' = [session EXCEPT ![t] = 0]
  /\ leaf' = [leaf EXCEPT ![t] = 0]
  /\ UNCHANGED <<files, latest, shared, sharedEmpty>>

-------------------------------------------------------------------------------
\* A session that one process at a time worked on is a single line of entries,
\* whatever processes came, died and resumed it; one that two worked on at once
\* is still a tree that load accepts, unless both started from the empty file
\* (_append, _validate_loaded_entry, latest_session_path).
ResumesWork ==
  \A f \in DOMAIN files :
    LET entries == files[f].entries IN
    /\ f \notin shared => PathTo(entries, Len(entries)) = DOMAIN entries
    /\ f \notin sharedEmpty => SingleRoot(entries)
===============================================================================
