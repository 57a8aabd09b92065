---------------------------- MODULE SectionPatch ----------------------------
(***************************************************************************)
(* context/sections.py: the system prompt as sections, kept in the history *)
(* as a snapshot followed by patches.  A mapping from section ids to their *)
(* content is a function; a patch is the set of its operations, one per    *)
(* section; NoPrompt is the replay of a history without a system message.  *)
(***************************************************************************)
EXTENDS Naturals, Sequences

Set(id, content) == [op |-> "set", id |-> id, content |-> content]
Delete(id) == [op |-> "delete", id |-> id]

\* diff_sections(): the least patch.
DiffSections(previous, current) ==
  {Set(id, current[id]) :
     id \in {i \in DOMAIN current : i \notin DOMAIN previous \/ previous[i] # current[i]}}
  \cup {Delete(id) : id \in DOMAIN previous \ DOMAIN current}

SetIn(patch) == {o.id : o \in {p \in patch : p.op = "set"}}
DeletedIn(patch) == {o.id : o \in {p \in patch : p.op = "delete"}}
ContentIn(patch, id) == (CHOOSE o \in patch : o.op = "set" /\ o.id = id).content

\* apply_section_patch() accepts a patch that is not empty, names each section once
\* and deletes what is there.
Applicable(sections, patch) ==
  /\ patch # {}
  /\ \A o, p \in patch : o.id = p.id => o = p
  /\ DeletedIn(patch) \subseteq DOMAIN sections

ApplySectionPatch(sections, patch) ==
  [id \in (DOMAIN sections \cup SetIn(patch)) \ DeletedIn(patch) |->
     IF id \in SetIn(patch) THEN ContentIn(patch, id) ELSE sections[id]]

\* System messages of the history.  A legacy one holds the whole prompt as one text.
Legacy == [kind |-> "content"]
Snapshot(sections) == [kind |-> "sections", sections |-> sections]
Patch(patch) == [kind |-> "patch", patch |-> patch]

\* replay_system_messages(): each message extends the state the earlier ones leave.
\* A patch that cannot be applied is a ValueError.
NoPrompt == [kind |-> "none"]
Invalid == [kind |-> "invalid"]

ReplayOne(state, message) ==
  IF state.kind = "invalid" THEN Invalid
  ELSE IF message.kind # "patch" THEN message
  ELSE IF state.kind = "sections" /\ Applicable(state.sections, message.patch)
       THEN Snapshot(ApplySectionPatch(state.sections, message.patch))
       ELSE Invalid

ReplayFrom(messages) ==
  LET replay[n \in 0..Len(messages)] ==
        IF n = 0 THEN NoPrompt ELSE ReplayOne(replay[n - 1], messages[n])
  IN replay

ReplaySystemMessages(messages) == ReplayFrom(messages)[Len(messages)]

\* Agent._pending_system_message(): nothing, a whole snapshot, or a patch.
Pending(messages, desired) ==
  LET current == ReplaySystemMessages(messages) IN
  IF current.kind # "sections" THEN <<Snapshot(desired)>>
  ELSE LET patch == DiffSections(current.sections, desired) IN
       IF patch = {} THEN <<>> ELSE <<Patch(patch)>>
=============================================================================
